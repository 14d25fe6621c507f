--------------------------- MODULE BarCacheProofs ---------------------------
(***************************************************************************)
(* What a read through the bar cache finds, for every number of readers,   *)
(* days and dividends and every order of their steps.                      *)
(*                                                                         *)
(* The ranges stored are merged and the gaps between them walked by folds: *)
(* MergedIsStored and MissingIsTheRest are proved by induction on what is  *)
(* folded. CacheInv says what a stored range promises, JobInv what a read  *)
(* under way still has to ask.                                             *)
(***************************************************************************)
EXTENDS BarCache, SumProofs

-----------------------------------------------------------------------------
(* The greatest and the least of a set of days.                            *)

\* The days are numbers, and there are finitely many of them and of their spans.
LEMMA DaysBasics ==
    /\ MaxDay \in Nat \ {0} /\ Days \in SUBSET Nat /\ Trading \subseteq Days
    /\ IsFiniteSet(Span) /\ \A s \in Span : s \in Nat \X Nat /\ s[1] <= s[2]
  <1>1. MaxDay \in Nat \ {0} /\ Trading \subseteq Days
    BY CacheConstants
  <1>2. IsFiniteSet(Days)
    BY <1>1, FS_Interval DEF Days
  <1>3. IsFiniteSet(Days \X Days)
    BY <1>2, FS_Product
  <1>4. IsFiniteSet(Span)
    BY <1>3, FS_Subset DEF Span
  <1>5. \A s \in Span : s \in Days \X Days /\ s[1] <= s[2]
    BY DEF Span
  <1>6. Days \in SUBSET Nat
    BY <1>1 DEF Days
  <1> QED
    BY <1>1, <1>4, <1>5, <1>6

\* A bounded inhabited set of numbers has a greatest and a least, the ones the operators choose.
LEMMA Bounds ==
    ASSUME NEW m \in Nat, NEW T \in SUBSET (0..m), T # {}
    PROVE  Max(T) \in T /\ Min(T) \in T /\ \A x \in T : Min(T) <= x /\ x <= Max(T)
  <1>1. PICK n \in T : \A k \in T : k <= n
    BY Greatest
  <1>2. PICK l \in T : \A k \in T : l <= k
    BY Least
  <1>3. \A x \in T : x \in Int
    OBVIOUS
  <1>4. \E x \in T : \A y \in T : x >= y
    BY <1>1, <1>3
  <1>5. \E x \in T : \A y \in T : x =< y
    BY <1>2
  <1>6. Max(T) \in T /\ \A y \in T : Max(T) >= y
    BY <1>4 DEF Max
  <1>7. Min(T) \in T /\ \A y \in T : Min(T) =< y
    BY <1>5 DEF Min
  <1> QED
    BY <1>3, <1>6, <1>7

\* The later of two days.
LEMMA Later ==
    ASSUME NEW a \in Nat, NEW b \in Nat
    PROVE  Max({a, b}) \in {a, b} /\ a <= Max({a, b}) /\ b <= Max({a, b})
  <1>1. {a, b} \in SUBSET (0..(a + b)) /\ {a, b} # {} /\ a + b \in Nat
    OBVIOUS
  <1> QED
    BY <1>1, Bounds

\* The last of the places 1 to k is k.
LEMMA LastPlace ==
    ASSUME NEW k \in Nat \ {0}
    PROVE  Max(1..k) = k
  <1>1. 1..k \in SUBSET (0..k) /\ k \in 1..k
    OBVIOUS
  <1>2. Max(1..k) \in 1..k /\ k <= Max(1..k)
    BY <1>1, Bounds
  <1> QED
    BY <1>2

\* There is a last range in start order.
LEMMA LatestIsOne ==
    ASSUME NEW T \in SUBSET Span, T # {}
    PROVE  Latest(T) \in T
  <1> DEFINE Starts == {t[1] : t \in T}
             a == Max(Starts)
             Ends == {t[2] : t \in {u \in T : u[1] = a}}
             b == Max(Ends)
  <1>1. MaxDay \in Nat /\ \A t \in T : t[1] \in 0..MaxDay /\ t[2] \in 0..MaxDay /\ t = <<t[1], t[2]>>
    BY DaysBasics DEF Span, Days
  <1>2. Starts \in SUBSET (0..MaxDay) /\ Starts # {}
    BY <1>1
  <1>3. a \in Starts /\ \A x \in Starts : x <= a
    BY <1>1, <1>2, Bounds
  <1> HIDE DEF a
  <1>4. Ends \in SUBSET (0..MaxDay) /\ Ends # {}
    BY <1>1, <1>3
  <1>5. b \in Ends /\ \A x \in Ends : x <= b
    BY <1>1, <1>4, Bounds
  <1> HIDE DEF b
  <1>6. PICK s \in T : s[1] = a /\ s[2] = b
    BY <1>5
  <1>7. \A t \in T : t[1] < s[1] \/ (t[1] = s[1] /\ t[2] <= s[2])
    <2>1. SUFFICES ASSUME NEW t \in T, ~(t[1] < s[1]) PROVE t[1] = s[1] /\ t[2] <= s[2]
      OBVIOUS
    <2>2. t[1] <= a
      BY <1>3
    <2>3. t[1] = a
      BY <1>1, <1>6, <2>1, <2>2
    <2>4. t[2] <= b
      BY <1>5, <2>3
    <2> QED
      BY <1>6, <2>3, <2>4
  <1> QED
    BY <1>7 DEF Latest

-----------------------------------------------------------------------------
(* The ranges merged.                                                      *)

MergedStep(T, g) == IF T = {} THEN <<>> ELSE Joined(Latest(T), g[T \ {Latest(T)}])
MergedOf(spans) == CHOOSE g : g = [T \in SUBSET spans |-> MergedStep(T, g)]

\* A merged sequence stays one of ranges.
LEMMA JoinedTyped ==
    ASSUME NEW s \in Span, NEW merged \in Seq(Span)
    PROVE  Joined(s, merged) \in Seq(Span)
  <1>1. CASE merged = <<>>
    BY <1>1 DEF Joined
  <1>2. CASE merged # <<>>
    <2>1. Len(merged) \in Nat \ {0} /\ Last(merged) \in Span
      BY <1>2 DEF Last
    <2>2. s \in Days \X Days /\ Last(merged) \in Days \X Days /\ Last(merged)[1] <= Last(merged)[2]
      BY <2>1 DEF Span
    <2>3. Last(merged)[2] \in Nat /\ s[2] \in Nat /\ Last(merged)[1] \in Nat
      BY <2>2, DaysBasics
    <2> DEFINE end == Max({Last(merged)[2], s[2]})
    <2>4. end \in {Last(merged)[2], s[2]} /\ Last(merged)[2] <= end
      BY <2>3, Later
    <2> HIDE DEF end
    <2>5. <<Last(merged)[1], end>> \in Span
      BY <2>2, <2>3, <2>4 DEF Span
    <2>6. Front(merged) \in Seq(Span)
      BY <1>2 DEF Front
    <2>7. Append(Front(merged), <<Last(merged)[1], end>>) \in Seq(Span)
      BY <2>5, <2>6
    <2> QED
      BY <2>7 DEF Joined, end
  <1> QED
    BY <1>1, <1>2

\* The merging is defined: the last range in start order is joined to the merging of the rest.
LEMMA MergedUnfolds ==
    ASSUME NEW spans \in SUBSET Span
    PROVE  /\ Merged(spans) = MergedOf(spans)[spans]
           /\ \A T \in SUBSET spans : MergedOf(spans)[T] = MergedStep(T, MergedOf(spans))
  <1> DEFINE pick == [T \in SUBSET spans |-> Latest(T)]
             none == <<>>
             Lists == Seq(Span)
             F == [s \in spans |-> [merged \in Lists |-> Joined(s, merged)]]
  <1>1. IsFiniteSet(spans)
    BY DaysBasics, FS_Subset
  <1>2. Picks(pick, spans)
    BY LatestIsOne DEF Picks
  <1>3. none \in Lists
    OBVIOUS
  <1>4. F \in [spans -> [Lists -> Lists]]
    BY JoinedTyped
  <1>5. \A s \in spans, merged \in Lists : F[s][merged] = Joined(s, merged)
    OBVIOUS
  <1>6. \A T \in SUBSET spans : pick[T] = Latest(T)
    OBVIOUS
  <1> HIDE DEF pick, F, none, Lists
  <1>7. PICK g : IsFold(g, spans, Lists, none, pick, F)
    BY <1>1, <1>2, <1>3, <1>4, FoldExists
  <1>8. ASSUME NEW T \in SUBSET spans PROVE g[T] = MergedStep(T, g)
    <2>1. T = {} => g[T] = MergedStep(T, g)
      BY <1>7 DEF IsFold, FoldStep, MergedStep, none
    <2>2. ASSUME T # {} PROVE g[T] = MergedStep(T, g)
      <3>1. Latest(T) \in spans /\ g[T \ {Latest(T)}] \in Lists
        BY <1>2, <1>6, <1>7, <2>2 DEF Picks, IsFold
      <3>2. g[T] = F[Latest(T)][g[T \ {Latest(T)}]]
        BY <1>6, <1>7, <2>2 DEF IsFold, FoldStep
      <3>3. g[T] = Joined(Latest(T), g[T \ {Latest(T)}])
        BY <1>5, <3>1, <3>2
      <3> QED
        BY <2>2, <3>3 DEF MergedStep
    <2> QED
      BY <2>1, <2>2
  <1>9. g = [T \in SUBSET spans |-> MergedStep(T, g)]
    BY <1>7, <1>8 DEF IsFold
  <1>10. MergedOf(spans) = [T \in SUBSET spans |-> MergedStep(T, MergedOf(spans))]
    BY <1>9 DEF MergedOf
  <1>11. Merged(spans) = MergedOf(spans)[spans]
    BY DEF Merged, MapThenFoldSet, MergedOf, MergedStep
  <1>12. \A T \in SUBSET spans : MergedOf(spans)[T] = MergedStep(T, MergedOf(spans))
    BY <1>10
  <1> QED
    BY <1>11, <1>12

\* Every day of the ranges of a list is in one of a set of ranges.
Within(list, spans) ==
    \A i \in DOMAIN list : \A d \in list[i][1]..list[i][2] : \E s \in spans : d \in s[1]..s[2]

\* A range joined where it touches or overlaps covers no day that neither covered.
LEMMA JoinedWithin ==
    ASSUME NEW s \in Span, NEW merged \in Seq(Span), NEW spans \in SUBSET Span, Within(merged, spans)
    PROVE  Within(Joined(s, merged), spans \union {s})
  <1> DEFINE joined == Joined(s, merged)
             last == Last(merged)
             end == Max({last[2], s[2]})
  <1>1. joined \in Seq(Span)
    BY JoinedTyped
  <1>2. SUFFICES ASSUME NEW i \in DOMAIN joined, NEW d \in joined[i][1]..joined[i][2]
                 PROVE  \E t \in spans \union {s} : d \in t[1]..t[2]
    BY DEF Within
  <1>3. CASE ~(merged # <<>> /\ s[1] <= last[2] + 1)
    <2>1. joined = Append(merged, s)
      BY <1>3 DEF Joined
    <2>2. (i \in DOMAIN merged /\ joined[i] = merged[i]) \/ joined[i] = s
      BY <2>1
    <2> QED
      BY <1>2, <2>2 DEF Within
  <1>4. CASE merged # <<>> /\ s[1] <= last[2] + 1
    <2>1. Len(merged) \in DOMAIN merged /\ last = merged[Len(merged)]
      BY <1>4 DEF Last
    <2>2. last \in Span
      BY <2>1
    <2>3. last[1] \in Nat /\ last[2] \in Nat /\ s[1] \in Nat /\ s[2] \in Nat
      BY <2>2, DaysBasics
    <2>4. end \in {last[2], s[2]} /\ last[2] <= end
      BY <2>3, Later
    <2>5. Front(merged) \in Seq(Span) /\ Len(Front(merged)) = Len(merged) - 1
          /\ \A j \in 1..Len(merged) - 1 : Front(merged)[j] = merged[j]
      <3> DEFINE m == Len(merged) - 1
      <3>1. m \in Nat /\ m <= Len(merged)
        BY <1>4
      <3> HIDE DEF m
      <3>2. SubSeq(merged, 1, m) \in Seq(Span) /\ Len(SubSeq(merged, 1, m)) = m
        BY <3>1
      <3>3. \A j \in 1..m : SubSeq(merged, 1, m)[j] = merged[j]
        BY <3>1
      <3> QED
        BY <3>2, <3>3 DEF m, Front
    <2> HIDE DEF end
    <2>6. joined = Append(Front(merged), <<last[1], end>>)
      BY <1>4 DEF Joined, end
    <2> HIDE DEF joined, last
    <2>7. (i \in DOMAIN merged /\ joined[i] = merged[i]) \/ joined[i] = <<last[1], end>>
      BY <2>5, <2>6
    <2>8. CASE i \in DOMAIN merged /\ joined[i] = merged[i]
      BY <1>2, <2>8 DEF Within
    <2>9. CASE joined[i] = <<last[1], end>>
      <3>1. last[1] <= d /\ d <= end /\ d \in Int
        BY <1>2, <2>3, <2>4, <2>9
      <3>2. CASE d <= last[2]
        <4>1. d \in merged[Len(merged)][1]..merged[Len(merged)][2]
          BY <2>1, <2>3, <3>1, <3>2
        <4> QED
          BY <2>1, <4>1 DEF Within
      <3>3. CASE d > last[2]
        <4>1. s[1] <= d /\ d <= s[2]
          BY <1>4, <2>3, <2>4, <3>1, <3>3
        <4> QED
          BY <2>3, <3>1, <4>1
      <3> QED
        BY <2>3, <3>1, <3>2, <3>3
    <2> QED
      BY <2>7, <2>8, <2>9
  <1> QED
    BY <1>3, <1>4

\* The merged ranges are ranges, and no day of them is outside the ranges stored.
LEMMA MergedIsStored ==
    ASSUME NEW spans \in SUBSET Span
    PROVE  Merged(spans) \in Seq(Span) /\ Within(Merged(spans), spans)
  <1> DEFINE g == MergedOf(spans)
             P == {T \in SUBSET spans : g[T] \in Seq(Span) /\ Within(g[T], T)}
  <1>1. IsFiniteSet(spans)
    BY DaysBasics, FS_Subset
  <1>2. \A T \in SUBSET spans : g[T] = MergedStep(T, g)
    BY MergedUnfolds
  <1> HIDE DEF g
  <1>3. {} \in P
    <2>1. g[{}] = <<>>
      BY <1>2 DEF MergedStep
    <2>2. <<>> \in Seq(Span) /\ Within(<<>>, {})
      BY DEF Within
    <2>3. {} \in SUBSET spans
      OBVIOUS
    <2> QED
      BY <2>1, <2>2, <2>3
  <1>4. ASSUME NEW T \in SUBSET spans, T # {}
        PROVE  \E x \in T : T \ {x} \in P => T \in P
    <2>1. Latest(T) \in T /\ T \in SUBSET Span
      BY <1>4, LatestIsOne
    <2>2. SUFFICES ASSUME T \ {Latest(T)} \in P PROVE T \in P
      BY <2>1
    <2>3. g[T] = Joined(Latest(T), g[T \ {Latest(T)}])
      BY <1>2, <1>4 DEF MergedStep
    <2> DEFINE x == Latest(T)
               rest == g[T \ {x}]
    <2>4. x \in Span /\ rest \in Seq(Span) /\ Within(rest, T \ {x}) /\ T \ {x} \in SUBSET Span
      BY <2>1, <2>2
    <2>5. (T \ {x}) \union {x} = T
      BY <2>1
    <2>6. g[T] = Joined(x, rest)
      BY <2>3
    <2> HIDE DEF x, rest
    <2>7. Joined(x, rest) \in Seq(Span)
      BY <2>4, JoinedTyped
    <2>8. Within(Joined(x, rest), (T \ {x}) \union {x})
      BY <2>4, JoinedWithin
    <2> QED
      BY <2>5, <2>6, <2>7, <2>8
  <1> HIDE DEF P
  <1>5. SUBSET spans \subseteq P
    BY <1>1, <1>3, <1>4, Peeled
  <1>6. spans \in P
    BY <1>5
  <1> QED
    BY <1>6, MergedUnfolds DEF P, g

-----------------------------------------------------------------------------
(* The gaps between them.                                                  *)

\* A day that is in one of the ranges of a list.
InOne(list, d) == \E i \in DOMAIN list : d \in DaysOf(list[i])
NoneAfter(list, end) == \A i \in DOMAIN list : list[i][2] <= end

\* A gap trimmed holds every trading day it held.
LEMMA TrimmedGap ==
    ASSUME NEW from \in Nat, NEW to \in Nat
    PROVE  /\ Trimmed(from, to) \in Seq(Span)
           /\ NoneAfter(Trimmed(from, to), to)
           /\ \A d \in DaysOf(<<from, to>>) : InOne(Trimmed(from, to), d)
  <1> DEFINE days == DaysOf(<<from, to>>)
  <1>1. days \in SUBSET (0..MaxDay) /\ days \subseteq Days /\ MaxDay \in Nat
        /\ \A d \in days : from <= d /\ d <= to /\ d \in Trading
    BY DaysBasics DEF DaysOf, Days
  <1>2. CASE days = {}
    BY <1>2 DEF Trimmed, NoneAfter
  <1>3. CASE days # {}
    <2>1. Trimmed(from, to) = << <<Min(days), Max(days)>> >>
      BY <1>3 DEF Trimmed
    <2> HIDE DEF days
    <2>2. Min(days) \in days /\ Max(days) \in days /\ \A x \in days : Min(days) <= x /\ x <= Max(days)
      BY <1>1, <1>3, Bounds
    <2> DEFINE gap == <<Min(days), Max(days)>>
    <2>3. gap \in Span /\ gap[2] <= to
      BY <1>1, <2>2 DEF Span
    <2>4. \A d \in days : d \in DaysOf(gap)
      BY <1>1, <2>2 DEF DaysOf
    <2> HIDE DEF gap
    <2>5. Trimmed(from, to) = <<gap>>
      BY <2>1 DEF gap
    <2>6. <<gap>> \in Seq(Span) /\ DOMAIN <<gap>> = {1} /\ <<gap>>[1] = gap
      BY <2>3
    <2> HIDE DEF gap
    <2>7. NoneAfter(Trimmed(from, to), to)
      BY <2>3, <2>5, <2>6 DEF NoneAfter
    <2>8. \A d \in days : InOne(Trimmed(from, to), d)
      BY <2>4, <2>5, <2>6 DEF InOne
    <2> QED
      BY <2>5, <2>6, <2>7, <2>8 DEF days
  <1> QED
    BY <1>2, <1>3

\* A list followed by another has the days of both, and ends no later.
LEMMA Joint ==
    ASSUME NEW s \in Seq(Span), NEW t \in Seq(Span)
    PROVE  /\ s \o t \in Seq(Span)
           /\ \A d : InOne(s, d) \/ InOne(t, d) => InOne(s \o t, d)
           /\ \A end : NoneAfter(s, end) /\ NoneAfter(t, end) => NoneAfter(s \o t, end)
  <1>1. s \o t \in Seq(Span) /\ Len(s \o t) = Len(s) + Len(t)
    OBVIOUS
  <1>2. \A i \in 1..Len(s) : i \in DOMAIN (s \o t) /\ (s \o t)[i] = s[i]
    OBVIOUS
  <1>3. \A i \in 1..Len(t) : Len(s) + i \in DOMAIN (s \o t) /\ (s \o t)[Len(s) + i] = t[i]
    OBVIOUS
  <1>4. \A i \in DOMAIN (s \o t) : (i \in DOMAIN s /\ (s \o t)[i] = s[i])
                                   \/ (i - Len(s) \in DOMAIN t /\ (s \o t)[i] = t[i - Len(s)])
    OBVIOUS
  <1>5. DOMAIN s = 1..Len(s) /\ DOMAIN t = 1..Len(t)
    OBVIOUS
  <1> DEFINE both == s \o t
  <1>6. both = s \o t
    OBVIOUS
  <1> HIDE DEF both
  <1>7. ASSUME NEW d, InOne(s, d) \/ InOne(t, d) PROVE InOne(both, d)
    <2>1. ASSUME NEW i \in DOMAIN s, d \in DaysOf(s[i]) PROVE InOne(both, d)
      BY <1>2, <1>5, <1>6, <2>1 DEF InOne
    <2>2. ASSUME NEW i \in DOMAIN t, d \in DaysOf(t[i]) PROVE InOne(both, d)
      BY <1>3, <1>5, <1>6, <2>2 DEF InOne
    <2> QED
      BY <1>7, <2>1, <2>2 DEF InOne
  <1>8. ASSUME NEW end, NoneAfter(s, end), NoneAfter(t, end) PROVE NoneAfter(both, end)
    BY <1>4, <1>6, <1>8 DEF NoneAfter
  <1> QED
    BY <1>1, <1>6, <1>7, <1>8

\* The walk past a set of the ranges, in the order of their places.
At == [cursor : Nat, found : Seq(Span)]
PassedStep(covered, start, end, T, g) ==
    IF T = {} THEN [cursor |-> start, found |-> <<>>]
    ELSE Passed(g[T \ {Max(T)}], covered[Max(T)], end)
PassedOf(covered, start, end) ==
    CHOOSE g : g = [T \in SUBSET DOMAIN covered |-> PassedStep(covered, start, end, T, g)]
Left(covered, start, end) ==
    FoldLeft(LAMBDA at, s : Passed(at, s, end), [cursor |-> start, found |-> <<>>], covered)

\* Passing a range moves the cursor past it and keeps the gap before it.
LEMMA PassedTyped ==
    ASSUME NEW at \in At, NEW s \in Span, NEW end
    PROVE  Passed(at, s, end) \in At
  <1>1. s[1] \in Nat /\ s[2] \in Nat /\ s[1] >= 1
    BY DaysBasics DEF Span, Days
  <1>2. at.cursor \in Nat /\ at.found \in Seq(Span) /\ s[1] - 1 \in Nat /\ s[2] + 1 \in Nat
    BY <1>1 DEF At
  <1>3. Trimmed(at.cursor, s[1] - 1) \in Seq(Span)
    BY <1>2, TrimmedGap
  <1>4. at.found \o Trimmed(at.cursor, s[1] - 1) \in Seq(Span)
    BY <1>2, <1>3, Joint
  <1> QED
    BY <1>2, <1>4 DEF Passed, At

\* The walk is defined: the range in the last place is passed after the others.
LEMMA PassedUnfolds ==
    ASSUME NEW covered \in Seq(Span), NEW start \in Nat, NEW end
    PROVE  /\ Left(covered, start, end) = PassedOf(covered, start, end)[DOMAIN covered]
           /\ \A T \in SUBSET DOMAIN covered :
                PassedOf(covered, start, end)[T] =
                    PassedStep(covered, start, end, T, PassedOf(covered, start, end))
  <1> DEFINE places == DOMAIN covered
             base == [cursor |-> start, found |-> <<>>]
             pick == [T \in SUBSET places |-> Max(T)]
             F == [i \in places |-> [at \in At |-> Passed(at, covered[i], end)]]
  <1>1. places = 1..Len(covered) /\ IsFiniteSet(places) /\ Len(covered) \in Nat
        /\ \A i \in places : covered[i] \in Span
    BY FS_Interval
  <1>2. \A T \in SUBSET places : T # {} => Max(T) \in T
    <2>1. SUFFICES ASSUME NEW T \in SUBSET places, T # {} PROVE Max(T) \in T
      OBVIOUS
    <2>2. T \in SUBSET (0..Len(covered))
      BY <1>1
    <2> QED
      BY <1>1, <2>1, <2>2, Bounds
  <1>3. Picks(pick, places)
    BY <1>2 DEF Picks
  <1>4. base \in At
    <2>1. <<>> \in Seq(Span)
      OBVIOUS
    <2> QED
      BY <2>1 DEF At
  <1>5. F \in [places -> [At -> At]]
    BY <1>1, PassedTyped
  <1>6. \A i \in places, at \in At : F[i][at] = Passed(at, covered[i], end)
    OBVIOUS
  <1>7. \A T \in SUBSET places : pick[T] = Max(T)
    OBVIOUS
  <1> HIDE DEF base, pick, F, places
  <1>8. PICK g : IsFold(g, places, At, base, pick, F)
    BY <1>1, <1>3, <1>4, <1>5, FoldExists
  <1>9. ASSUME NEW T \in SUBSET places PROVE g[T] = PassedStep(covered, start, end, T, g)
    <2>1. T = {} => g[T] = PassedStep(covered, start, end, T, g)
      BY <1>8 DEF IsFold, FoldStep, PassedStep, base
    <2>2. ASSUME T # {} PROVE g[T] = PassedStep(covered, start, end, T, g)
      <3>1. Max(T) \in places /\ g[T \ {Max(T)}] \in At
        BY <1>2, <1>8, <2>2 DEF IsFold
      <3>2. g[T] = F[Max(T)][g[T \ {Max(T)}]]
        BY <1>7, <1>8, <2>2 DEF IsFold, FoldStep
      <3>3. g[T] = Passed(g[T \ {Max(T)}], covered[Max(T)], end)
        BY <1>6, <3>1, <3>2
      <3> QED
        BY <2>2, <3>3 DEF PassedStep
    <2> QED
      BY <2>1, <2>2
  <1>10. g = [T \in SUBSET places |-> PassedStep(covered, start, end, T, g)]
    BY <1>8, <1>9 DEF IsFold
  <1>11. PassedOf(covered, start, end) =
           [T \in SUBSET places |-> PassedStep(covered, start, end, T, PassedOf(covered, start, end))]
    BY <1>10 DEF PassedOf, places
  <1>12. Left(covered, start, end) = PassedOf(covered, start, end)[DOMAIN covered]
    BY DEF Left, FoldLeft, MapThenFoldSet, PassedOf, PassedStep
  <1>13. \A T \in SUBSET places : PassedOf(covered, start, end)[T] =
                    PassedStep(covered, start, end, T, PassedOf(covered, start, end))
    BY <1>11
  <1> QED
    BY <1>12, <1>13 DEF places

\* Every trading day walked past is in a range passed or in a gap found.
Walked(covered, start, end, T, at) ==
    /\ at \in At
    /\ NoneAfter(at.found, end)
    /\ \A d \in Trading : start <= d /\ d < at.cursor /\ d <= end =>
           (\E i \in T : d \in covered[i][1]..covered[i][2]) \/ InOne(at.found, d)

\* It stays so when one more range is passed.
LEMMA PassedWalks ==
    ASSUME NEW covered \in Seq(Span), NEW start \in Nat, NEW end \in Nat,
           NEW T \in SUBSET DOMAIN covered, NEW i \in DOMAIN covered,
           NEW at, Walked(covered, start, end, T, at)
    PROVE  Walked(covered, start, end, T \union {i}, Passed(at, covered[i], end))
  <1> DEFINE s == covered[i]
             to == s[1] - 1
             gap == Trimmed(at.cursor, to)
             next == Passed(at, s, end)
  <1>1. at \in At /\ at.cursor \in Nat /\ at.found \in Seq(Span)
    BY DEF Walked, At
  <1>2. s \in Span
    OBVIOUS
  <1>3. s[1] \in Nat /\ s[2] \in Nat /\ s[1] >= 1 /\ to \in Nat
    BY <1>2, DaysBasics DEF Span, Days
  <1>4. \A d \in Trading : d \in Nat
    BY DaysBasics
  <1>5. next \in At
    BY <1>1, <1>2, PassedTyped
  <1>6. CASE s[2] < at.cursor \/ s[1] > end
    <2>1. next = at
      BY <1>6 DEF Passed
    <2> HIDE DEF s, to, next
    <2>2. Walked(covered, start, end, T \union {i}, at)
      BY DEF Walked
    <2> QED
      BY <2>1, <2>2 DEF next, s
  <1>7. CASE ~(s[2] < at.cursor \/ s[1] > end)
    <2>1. gap \in Seq(Span) /\ NoneAfter(gap, to) /\ \A d \in DaysOf(<<at.cursor, to>>) : InOne(gap, d)
      BY <1>1, <1>3, TrimmedGap
    <2>2. next.cursor = s[2] + 1
          /\ next.found = IF s[1] > at.cursor THEN at.found \o gap ELSE at.found
      BY <1>7 DEF Passed
    <2> HIDE DEF gap
    <2>3. NoneAfter(gap, end)
      <3>1. to <= end
        BY <1>3, <1>7
      <3>2. \A j \in DOMAIN gap : gap[j][2] \in Nat
        BY <2>1, DaysBasics
      <3> HIDE DEF to
      <3> QED
        BY <1>3, <2>1, <3>1, <3>2 DEF NoneAfter
    <2>4. NoneAfter(next.found, end)
      <3>1. NoneAfter(at.found, end)
        BY DEF Walked
      <3>2. NoneAfter(at.found \o gap, end)
        BY <1>1, <2>1, <2>3, <3>1, Joint
      <3> QED
        BY <2>2, <3>1, <3>2
    <2>5. ASSUME NEW d \in Trading, start <= d, d < next.cursor, d <= end
          PROVE  (\E j \in T \union {i} : d \in covered[j][1]..covered[j][2]) \/ InOne(next.found, d)
      <3>1. d \in Nat /\ d < s[2] + 1
        BY <1>4, <2>2, <2>5
      <3>2. CASE d < at.cursor
        <4>1. (\E j \in T : d \in covered[j][1]..covered[j][2]) \/ InOne(at.found, d)
          BY <2>5, <3>2 DEF Walked
        <4>2. InOne(at.found, d) => InOne(at.found \o gap, d)
          BY <1>1, <2>1, Joint
        <4> QED
          BY <2>2, <4>1, <4>2
      <3>3. CASE ~(d < at.cursor) /\ d < s[1]
        <4>1. s[1] > at.cursor /\ d \in at.cursor..to
          BY <1>1, <1>3, <3>1, <3>3
        <4>2. d \in DaysOf(<<at.cursor, to>>)
          BY <2>5, <4>1 DEF DaysOf
        <4>3. InOne(gap, d)
          BY <2>1, <4>2
        <4>4. InOne(at.found \o gap, d)
          BY <1>1, <2>1, <4>3, Joint
        <4> QED
          BY <2>2, <4>1, <4>4
      <3>4. CASE ~(d < s[1])
        <4>1. d \in covered[i][1]..covered[i][2]
          BY <1>3, <3>1, <3>4
        <4> QED
          BY <4>1
      <3> QED
        BY <3>2, <3>3, <3>4
    <2> HIDE DEF next
    <2> QED
      BY <1>5, <2>4, <2>5 DEF Walked, next, s
  <1> QED
    BY <1>6, <1>7

\* The gaps of a list of ranges and the ranges make up all of start to end.
LEMMA GapsAreTheRest ==
    ASSUME NEW covered \in Seq(Span), NEW start \in Nat, NEW end \in Nat
    PROVE  /\ Gaps(covered, start, end) \in Seq(Span)
           /\ NoneAfter(Gaps(covered, start, end), end)
           /\ \A d \in DaysOf(<<start, end>>) :
                (\E i \in DOMAIN covered : d \in covered[i][1]..covered[i][2])
                \/ InOne(Gaps(covered, start, end), d)
  <1> DEFINE g == PassedOf(covered, start, end)
             places == DOMAIN covered
             P == {T \in SUBSET places : Walked(covered, start, end, T, g[T])}
  <1>1. IsFiniteSet(places) /\ Len(covered) \in Nat /\ places = 1..Len(covered)
    BY FS_Interval
  <1>2. \A T \in SUBSET places : g[T] = PassedStep(covered, start, end, T, g)
    BY PassedUnfolds
  <1>3. Left(covered, start, end) = g[places]
    BY PassedUnfolds
  <1> HIDE DEF g, places
  <1>4. {} \in P
    <2> DEFINE base == [cursor |-> start, found |-> <<>>]
    <2>1. g[{}] = base
      BY <1>2 DEF PassedStep
    <2>2. base \in At /\ base.cursor = start /\ base.found = <<>>
      <3>1. <<>> \in Seq(Span)
        OBVIOUS
      <3> QED
        BY <3>1 DEF At
    <2>3. NoneAfter(<<>>, end)
      BY DEF NoneAfter
    <2> HIDE DEF base
    <2>4. \A d \in Trading : ~(start <= d /\ d < base.cursor)
      BY <2>2, DaysBasics
    <2>5. Walked(covered, start, end, {}, base)
      BY <2>2, <2>3, <2>4 DEF Walked
    <2> QED
      BY <2>1, <2>5
  <1>5. ASSUME NEW T \in SUBSET places, T # {}
        PROVE  \E x \in T : T \ {x} \in P => T \in P
    <2> DEFINE x == Max(T)
    <2>1. x \in T
      <3>1. T \in SUBSET (0..Len(covered))
        BY <1>1
      <3> QED
        BY <1>1, <1>5, <3>1, Bounds
    <2>2. g[T] = Passed(g[T \ {x}], covered[x], end)
      BY <1>2, <1>5 DEF PassedStep
    <2> HIDE DEF x
    <2>3. SUFFICES ASSUME T \ {x} \in P PROVE T \in P
      BY <2>1
    <2>4. Walked(covered, start, end, T \ {x}, g[T \ {x}]) /\ T \ {x} \in SUBSET DOMAIN covered
          /\ x \in DOMAIN covered
      BY <2>1, <2>3 DEF places
    <2>5. Walked(covered, start, end, (T \ {x}) \union {x}, Passed(g[T \ {x}], covered[x], end))
      BY <2>4, PassedWalks
    <2>6. (T \ {x}) \union {x} = T
      BY <2>1
    <2> QED
      BY <2>2, <2>5, <2>6
  <1> HIDE DEF P
  <1>6. places \in P
    <2>1. IsFiniteSet(places) /\ \A T \in SUBSET places : T # {} => \E x \in T : T \ {x} \in P => T \in P
      BY <1>1, <1>5
    <2>2. SUBSET places \subseteq P
      BY <1>4, <2>1, Peeled
    <2> QED
      BY <2>2
  <1> DEFINE left == g[places]
             rest == Trimmed(left.cursor, end)
  <1>7. Walked(covered, start, end, places, left)
    BY <1>6 DEF P
  <1>8. Gaps(covered, start, end) = IF left.cursor <= end THEN left.found \o rest ELSE left.found
    BY <1>3 DEF Gaps, Left
  <1> HIDE DEF left
  <1>9. left.cursor \in Nat /\ left.found \in Seq(Span) /\ NoneAfter(left.found, end)
    BY <1>7 DEF Walked, At
  <1>10. rest \in Seq(Span) /\ NoneAfter(rest, end)
         /\ \A d \in DaysOf(<<left.cursor, end>>) : InOne(rest, d)
    BY <1>9, TrimmedGap
  <1> HIDE DEF rest
  <1>11. left.found \o rest \in Seq(Span) /\ NoneAfter(left.found \o rest, end)
         /\ \A d : InOne(left.found, d) \/ InOne(rest, d) => InOne(left.found \o rest, d)
    BY <1>9, <1>10, Joint
  <1>12. Gaps(covered, start, end) \in Seq(Span) /\ NoneAfter(Gaps(covered, start, end), end)
    BY <1>8, <1>9, <1>11
  <1>13. ASSUME NEW d \in DaysOf(<<start, end>>)
         PROVE  (\E i \in places : d \in covered[i][1]..covered[i][2])
                \/ InOne(Gaps(covered, start, end), d)
    <2>1. d \in Trading /\ d \in Nat /\ start <= d /\ d <= end
      BY DaysBasics DEF DaysOf
    <2>2. CASE d < left.cursor
      <3>1. (\E i \in places : d \in covered[i][1]..covered[i][2]) \/ InOne(left.found, d)
        BY <1>7, <2>1, <2>2 DEF Walked
      <3> QED
        BY <1>8, <1>11, <3>1
    <2>3. CASE ~(d < left.cursor)
      <3>1. left.cursor <= end /\ d \in left.cursor..end
        BY <1>9, <2>1, <2>3
      <3>2. d \in DaysOf(<<left.cursor, end>>)
        BY <2>1, <3>1 DEF DaysOf
      <3> QED
        BY <1>8, <1>10, <1>11, <3>1, <3>2
    <2> QED
      BY <2>2, <2>3
  <1> QED
    BY <1>12, <1>13 DEF places

\* What is missing and what is stored make up all of start to end.
LEMMA MissingIsTheRest ==
    ASSUME NEW kind, Stored(kind) \in SUBSET Span, NEW start \in Nat, NEW end \in Nat
    PROVE  /\ Missing(kind, start, end) \in Seq(Span)
           /\ NoneAfter(Missing(kind, start, end), end)
           /\ \A d \in DaysOf(<<start, end>>) :
                (\E s \in Stored(kind) : d \in DaysOf(s)) \/ InOne(Missing(kind, start, end), d)
  <1> DEFINE spans == Stored(kind)
             covered == Merged(spans)
  <1>1. covered \in Seq(Span) /\ Within(covered, spans)
    BY MergedIsStored
  <1> HIDE DEF covered, spans
  <1>2. CASE start > end
    <2>1. Missing(kind, start, end) = <<>>
      BY <1>2 DEF Missing
    <2>2. \A d \in DaysOf(<<start, end>>) : FALSE
      BY <1>2, DaysBasics DEF DaysOf
    <2>3. <<>> \in Seq(Span) /\ NoneAfter(<<>>, end)
      BY DEF NoneAfter
    <2> QED
      BY <2>1, <2>2, <2>3
  <1>3. CASE ~(start > end)
    <2>1. Missing(kind, start, end) = Gaps(covered, start, end)
      BY <1>3 DEF Missing, covered, spans
    <2>2. /\ Gaps(covered, start, end) \in Seq(Span)
          /\ NoneAfter(Gaps(covered, start, end), end)
          /\ \A d \in DaysOf(<<start, end>>) :
               (\E i \in DOMAIN covered : d \in covered[i][1]..covered[i][2])
               \/ InOne(Gaps(covered, start, end), d)
      BY <1>1, GapsAreTheRest
    <2>3. ASSUME NEW d \in DaysOf(<<start, end>>),
                 NEW i \in DOMAIN covered, d \in covered[i][1]..covered[i][2]
          PROVE  \E s \in spans : d \in DaysOf(s)
      <3>1. PICK s \in spans : d \in s[1]..s[2]
        BY <1>1, <2>3 DEF Within
      <3> QED
        BY <3>1 DEF DaysOf
    <2> QED
      BY <2>1, <2>2, <2>3 DEF spans
  <1> QED
    BY <1>2, <1>3

-----------------------------------------------------------------------------
(* What a stored range promises and what a read has still to ask.          *)

\* A row the source gave of a day that was over.
Given(row) == row.value \in {"first", "revised"}

\* A range of bars was read without a refusal and holds the bar of every trading day; any
\* range holds the dividends of its ex-dates; and no row is of a day still trading.
CacheInv ==
    /\ \A s \in fetched["bars"] : \A d \in DaysOf(s) : d \notin Unpriced /\ Given(rows["bars"][d])
    /\ \A s \in fetched["bars"] \union fetched["actions"] :
         \A d \in DaysOf(s) \intersect ExDates : Given(rows["actions"][d])
    /\ \A k \in Kind, d \in Days : rows[k][d] = NoRow \/ Given(rows[k][d])

StoredIn(ranges, kind) ==
    IF kind = "bars" THEN ranges["bars"] ELSE ranges["bars"] \union ranges["actions"]
Held(ranges, kind, d) == \E s \in StoredIn(ranges, kind) : d \in DaysOf(s)
WantedBy(j) == <<j.span[1], Complete(j.span[2], j.clock)>>

\* Every day wanted is stored, in a gap still to be asked, or behind a refusal; and a day
\* without a price is in such a gap or named.
Accounted(j, ranges) ==
    \A d \in DaysOf(WantedBy(j)) :
        /\ Held(ranges, j.kind, d) \/ InOne(j.gaps, d) \/ j.refused # {}
        /\ j.kind = "bars" /\ d \in Unpriced => InOne(j.gaps, d) \/ d \in j.refused

\* The answer about to be stored is that of the first gap, whole, and of days that are over.
Acceptable(j) ==
    /\ RefusedDays(j.kind, Head(j.gaps)) = {}
    /\ j.kind = "bars" => DOMAIN j.got["bars"] = DaysOf(Head(j.gaps))
    /\ DOMAIN j.got["actions"] = DaysOf(Head(j.gaps)) \intersect ExDates
    /\ \A k \in Kind : \A d \in DOMAIN j.got[k] : d \in Days /\ Given(j.got[k][d])

IsJob(j) ==
    /\ j = [kind |-> j.kind, span |-> j.span, clock |-> j.clock, gaps |-> j.gaps,
            refused |-> j.refused, got |-> j.got]
    /\ j.kind \in Kind /\ j.span \in Span /\ j.clock \in Days /\ j.gaps \in Seq(Span)

JobOK(j, at, ranges, now) ==
    /\ IsJob(j)
    /\ j.clock <= now
    /\ NoneAfter(j.gaps, j.clock - 1)
    /\ at \in {"ask", "store"} => j.gaps # <<>>
    /\ at = "answer" => j.gaps = <<>>
    /\ at \in {"ask", "store", "answer"} => Accounted(j, ranges)
    /\ at = "store" => Acceptable(j)

Typed ==
    /\ today \in Days
    /\ fetched \in [Kind -> SUBSET Span]
    /\ DOMAIN pc = Reader /\ pc = [r \in Reader |-> pc[r]]
    /\ DOMAIN job = Reader /\ job = [r \in Reader |-> job[r]]

CacheJobs == \A r \in Reader : JobOK(job[r], pc[r], fetched, today)

ReadInv == Typed /\ CacheInv /\ CacheJobs

-----------------------------------------------------------------------------
(* One gap less to ask.                                                    *)

\* A day of a list is in its first range or in one of the others.
LEMMA FirstGap ==
    ASSUME NEW list \in Seq(Span), list # <<>>
    PROVE  /\ Head(list) \in Span /\ Tail(list) \in Seq(Span)
           /\ (Tail(list) = <<>> <=> Len(list) = 1)
           /\ \A d : InOne(list, d) => d \in DaysOf(Head(list)) \/ InOne(Tail(list), d)
           /\ \A end : NoneAfter(list, end) => Head(list)[2] <= end /\ NoneAfter(Tail(list), end)
  <1>1. Len(list) \in Nat \ {0} /\ DOMAIN list = 1..Len(list) /\ Head(list) = list[1]
    OBVIOUS
  <1>2. Tail(list) \in Seq(Span) /\ Len(Tail(list)) = Len(list) - 1
        /\ \A i \in 1..Len(list) - 1 : Tail(list)[i] = list[i + 1]
    OBVIOUS
  <1>3. DOMAIN Tail(list) = 1..Len(list) - 1
    BY <1>2
  <1> DEFINE rest == Tail(list)
  <1>4. rest \in Seq(Span) /\ DOMAIN rest = 1..Len(list) - 1
        /\ \A i \in 1..Len(list) - 1 : rest[i] = list[i + 1]
    BY <1>2, <1>3
  <1>5. rest = <<>> <=> Len(list) = 1
    <2>1. Len(rest) = Len(list) - 1
      BY <1>2
    <2> HIDE DEF rest
    <2>2. rest = <<>> <=> Len(rest) = 0
      BY <1>4
    <2> QED
      BY <1>1, <2>1, <2>2
  <1> HIDE DEF rest
  <1>6. ASSUME NEW d, InOne(list, d) PROVE d \in DaysOf(Head(list)) \/ InOne(rest, d)
    <2>1. PICK i \in DOMAIN list : d \in DaysOf(list[i])
      BY <1>6 DEF InOne
    <2>2. CASE i = 1
      BY <1>1, <2>1, <2>2
    <2>3. CASE i # 1
      <3>1. i - 1 \in DOMAIN rest /\ rest[i - 1] = list[i]
        BY <1>1, <1>4, <2>3
      <3> QED
        BY <2>1, <3>1 DEF InOne
    <2> QED
      BY <2>2, <2>3
  <1>7. ASSUME NEW end, NoneAfter(list, end) PROVE Head(list)[2] <= end /\ NoneAfter(rest, end)
    <2>1. list[1][2] <= end
      BY <1>1, <1>7 DEF NoneAfter
    <2>2. \A i \in DOMAIN rest : i + 1 \in DOMAIN list /\ rest[i] = list[i + 1]
      BY <1>1, <1>4
    <2>3. NoneAfter(rest, end)
      BY <1>7, <2>2 DEF NoneAfter
    <2> QED
      BY <1>1, <2>1, <2>3
  <1>8. Head(list) \in Span
    BY <1>1
  <1> QED
    BY <1>4, <1>5, <1>6, <1>7, <1>8 DEF rest

\* A job stays in order when ranges are stored and days end.
LEMMA JobGrows ==
    ASSUME NEW j, NEW at, NEW now \in Days, NEW later \in Days, now <= later,
           NEW ranges \in [Kind -> SUBSET Span], NEW more \in [Kind -> SUBSET Span],
           \A k \in Kind : ranges[k] \subseteq more[k], JobOK(j, at, ranges, now)
    PROVE  JobOK(j, at, more, later)
  <1>1. \A d : Held(ranges, j.kind, d) => Held(more, j.kind, d)
    BY DEF Held, StoredIn, Kind
  <1>2. Accounted(j, ranges) => Accounted(j, more)
    BY <1>1 DEF Accounted
  <1>3. j.clock <= later
    <2>1. j.clock \in Int /\ now \in Int /\ later \in Int /\ j.clock <= now
      BY DaysBasics DEF JobOK, IsJob
    <2> QED
      BY <2>1
  <1> QED
    BY <1>2, <1>3 DEF JobOK

\* A gap refused: what it lacks is behind the refusal, and its unpriced days are named.
LEMMA RefusedJob ==
    ASSUME NEW j, NEW next, NEW now, NEW ranges, JobOK(j, "ask", ranges, now),
           IsJob(next), RefusedDays(j.kind, Head(j.gaps)) # {},
           next.kind = j.kind, next.span = j.span, next.clock = j.clock,
           next.gaps = Tail(j.gaps),
           next.refused = j.refused \union RefusedDays(j.kind, Head(j.gaps))
    PROVE  JobOK(next, IF Len(j.gaps) = 1 THEN "answer" ELSE "ask", ranges, now)
  <1> DEFINE gap == Head(j.gaps)
             days == RefusedDays(j.kind, gap)
  <1>1. j.gaps \in Seq(Span) /\ j.gaps # <<>> /\ NoneAfter(j.gaps, j.clock - 1) /\ j.clock <= now
    BY DEF JobOK, IsJob
  <1>2. (next.gaps = <<>> <=> Len(j.gaps) = 1) /\ NoneAfter(next.gaps, next.clock - 1)
        /\ \A d : InOne(j.gaps, d) => d \in DaysOf(gap) \/ InOne(next.gaps, d)
    BY <1>1, FirstGap
  <1>3. \A d \in DaysOf(gap) : j.kind = "bars" /\ d \in Unpriced => d \in days
    BY DEF RefusedDays, RefusedBars
  <1>4. next.refused # {}
    OBVIOUS
  <1>5. WantedBy(next) = WantedBy(j)
    BY DEF WantedBy
  <1>6. Accounted(j, ranges)
    BY DEF JobOK
  <1> HIDE DEF days, gap
  <1>7. next.refused = j.refused \union days
    BY DEF days, gap
  <1>8. Accounted(next, ranges)
    <2>1. SUFFICES ASSUME NEW d \in DaysOf(WantedBy(j)), j.kind = "bars", d \in Unpriced
                   PROVE  InOne(next.gaps, d) \/ d \in next.refused
      BY <1>4, <1>5 DEF Accounted
    <2>2. InOne(j.gaps, d) \/ d \in j.refused
      BY <1>6, <2>1 DEF Accounted
    <2> QED
      BY <1>2, <1>3, <1>7, <2>1, <2>2
  <1> QED
    BY <1>1, <1>2, <1>8 DEF JobOK

\* A gap answered and stored: its days are held now.
LEMMA StoredJob ==
    ASSUME NEW j, NEW next, NEW now, NEW ranges \in [Kind -> SUBSET Span],
           NEW more \in [Kind -> SUBSET Span], JobOK(j, "store", ranges, now), IsJob(next),
           \A k \in Kind : ranges[k] \subseteq more[k], Head(j.gaps) \in more[j.kind],
           next.kind = j.kind, next.span = j.span, next.clock = j.clock,
           next.gaps = Tail(j.gaps), next.refused = j.refused
    PROVE  JobOK(next, IF Len(j.gaps) = 1 THEN "answer" ELSE "ask", more, now)
  <1> DEFINE gap == Head(j.gaps)
  <1>1. j.gaps \in Seq(Span) /\ j.gaps # <<>> /\ NoneAfter(j.gaps, j.clock - 1) /\ j.clock <= now
        /\ j.kind \in Kind
    BY DEF JobOK, IsJob
  <1>2. (next.gaps = <<>> <=> Len(j.gaps) = 1) /\ NoneAfter(next.gaps, next.clock - 1)
        /\ \A d : InOne(j.gaps, d) => d \in DaysOf(gap) \/ InOne(next.gaps, d)
    BY <1>1, FirstGap
  <1>3. \A d \in DaysOf(gap) : j.kind = "bars" => d \notin Unpriced
    BY DEF JobOK, Acceptable, RefusedDays, RefusedBars
  <1>4. \A d : Held(ranges, j.kind, d) => Held(more, j.kind, d)
    BY DEF Held, StoredIn, Kind
  <1>5. \A d \in DaysOf(gap) : Held(more, j.kind, d)
    BY <1>1 DEF Held, StoredIn, Kind
  <1>6. WantedBy(next) = WantedBy(j)
    BY DEF WantedBy
  <1>7. Accounted(j, ranges)
    BY DEF JobOK
  <1> HIDE DEF gap
  <1>8. ASSUME NEW d \in DaysOf(WantedBy(j))
        PROVE  /\ Held(more, j.kind, d) \/ InOne(next.gaps, d) \/ j.refused # {}
               /\ j.kind = "bars" /\ d \in Unpriced => InOne(next.gaps, d) \/ d \in j.refused
    <2>1. /\ Held(ranges, j.kind, d) \/ InOne(j.gaps, d) \/ j.refused # {}
          /\ j.kind = "bars" /\ d \in Unpriced => InOne(j.gaps, d) \/ d \in j.refused
      BY <1>7 DEF Accounted
    <2> QED
      BY <1>2, <1>3, <1>4, <1>5, <2>1
  <1>9. Accounted(next, more)
    BY <1>6, <1>8 DEF Accounted
  <1> QED
    BY <1>1, <1>2, <1>9 DEF JobOK

\* The days of a gap are over.
LEMMA GapIsOver ==
    ASSUME Typed, NEW j, NEW ranges, JobOK(j, "ask", ranges, today)
    PROVE  /\ j.gaps \in Seq(Span) /\ j.gaps # <<>> /\ Head(j.gaps) \in Span
           /\ \A d \in DaysOf(Head(j.gaps)) : d \in Days /\ d # today
  <1> DEFINE gap == Head(j.gaps)
  <1>1. j.gaps \in Seq(Span) /\ j.gaps # <<>> /\ NoneAfter(j.gaps, j.clock - 1) /\ j.clock <= today
        /\ j.clock \in Days /\ today \in Days
    BY DEF JobOK, IsJob, Typed
  <1>2. gap \in Span /\ gap[2] <= j.clock - 1
    BY <1>1, FirstGap
  <1>3. gap[1] \in Nat /\ gap[2] \in Nat /\ j.clock \in Nat /\ today \in Nat
    BY <1>1, <1>2, DaysBasics
  <1> HIDE DEF gap
  <1>4. ASSUME NEW d \in DaysOf(gap) PROVE d \in Days /\ d # today
    <2>1. d \in Trading /\ d \in Nat /\ d <= gap[2]
      BY <1>3, DaysBasics DEF DaysOf
    <2> QED
      BY <1>1, <1>2, <1>3, <2>1, DaysBasics
  <1> QED
    BY <1>1, <1>2, <1>4 DEF gap

\* A gap answered: what is about to be stored is the gap's, and of days that are over.
LEMMA AnsweredJob ==
    ASSUME Typed, NEW j, NEW next, NEW ranges, JobOK(j, "ask", ranges, today), IsJob(next),
           RefusedDays(j.kind, Head(j.gaps)) = {},
           next.kind = j.kind, next.span = j.span, next.clock = j.clock,
           next.gaps = j.gaps, next.refused = j.refused,
           next.got = Fetched(j.kind, Head(j.gaps))
    PROVE  JobOK(next, "store", ranges, today)
  <1> DEFINE gap == Head(j.gaps)
  <1>1. NoneAfter(j.gaps, j.clock - 1) /\ j.clock <= today /\ j.gaps # <<>>
    BY DEF JobOK
  <1>2. \A d \in DaysOf(gap) : d \in Days /\ d # today
    BY GapIsOver
  <1> HIDE DEF gap
  <1>3. \A d \in DaysOf(gap) : Value(d) \in {"first", "revised"}
    BY <1>2 DEF Value
  <1>4. DOMAIN Bars(gap) = DaysOf(gap) /\ DOMAIN Actions(gap) = DaysOf(gap) \intersect ExDates
    BY DEF Bars, Actions
  <1>5. \A d \in DaysOf(gap) : Bars(gap)[d].value = Value(d)
    BY DEF Bars
  <1>6. \A d \in DaysOf(gap) \intersect ExDates : Actions(gap)[d].value = Value(d)
    BY DEF Actions
  <1>7. next.got["actions"] = Actions(gap)
        /\ next.got["bars"] = IF j.kind = "bars" THEN Bars(gap) ELSE [d \in {} |-> NoRow]
    BY DEF Fetched, Kind, gap
  <1>8. \A d \in DOMAIN next.got["actions"] : d \in Days /\ Given(next.got["actions"][d])
    BY <1>2, <1>3, <1>4, <1>6, <1>7 DEF Given
  <1>9. \A d \in DOMAIN next.got["bars"] : d \in Days /\ Given(next.got["bars"][d])
    <2>1. CASE j.kind = "bars"
      BY <1>2, <1>3, <1>4, <1>5, <1>7, <2>1 DEF Given
    <2>2. CASE j.kind # "bars"
      BY <1>7, <2>2
    <2> QED
      BY <2>1, <2>2
  <1>10. Acceptable(next)
    <2>1. RefusedDays(next.kind, Head(next.gaps)) = {}
      OBVIOUS
    <2>2. next.kind = "bars" => DOMAIN next.got["bars"] = DaysOf(gap)
      BY <1>4, <1>7
    <2>3. DOMAIN next.got["actions"] = DaysOf(gap) \intersect ExDates
      BY <1>4, <1>7
    <2>4. Head(next.gaps) = gap
      BY DEF gap
    <2> QED
      BY <1>8, <1>9, <2>1, <2>2, <2>3, <2>4 DEF Acceptable, Kind
  <1>11. Accounted(next, ranges)
    BY DEF JobOK, Accounted, WantedBy
  <1> QED
    BY <1>1, <1>10, <1>11 DEF JobOK

\* The last day of a range that is over.
LEMMA CompleteIsOver ==
    ASSUME NEW end \in Nat, NEW clock \in Nat \ {0}
    PROVE  Complete(end, clock) \in Nat /\ Complete(end, clock) <= clock - 1
  <1> DEFINE over == clock - 1
  <1>1. over \in Nat
    OBVIOUS
  <1> HIDE DEF over
  <1>2. {end, over} \in SUBSET (0..(end + over)) /\ {end, over} # {} /\ end + over \in Nat
    BY <1>1
  <1>3. Min({end, over}) \in {end, over} /\ \A x \in {end, over} : Min({end, over}) <= x
    BY <1>2, Bounds
  <1> QED
    BY <1>1, <1>3 DEF Complete, over

\* A read begun asks for every day it wants that is not stored.
LEMMA BegunJob ==
    ASSUME Typed, CacheInv, NEW next, IsJob(next), next.clock = today,
           next.gaps = Missing(next.kind, next.span[1], Complete(next.span[2], today))
    PROVE  JobOK(next, IF next.gaps = <<>> THEN "answer" ELSE "ask", fetched, today)
  <1> DEFINE kind == next.kind
             start == next.span[1]
             end == Complete(next.span[2], today)
             spans == Stored(kind)
  <1>1. kind \in Kind /\ start \in Nat /\ next.span[2] \in Nat /\ today \in Nat \ {0}
    BY DaysBasics DEF IsJob, Typed, Days
  <1>2. end \in Nat /\ end <= today - 1
    BY <1>1, CompleteIsOver
  <1>3. spans \in SUBSET Span
    BY <1>1 DEF Typed, Stored, Kind
  <1>4. spans = StoredIn(fetched, kind)
    BY DEF Stored, StoredIn
  <1>5. next.gaps = Missing(kind, start, end) /\ WantedBy(next) = <<start, end>>
    BY DEF WantedBy
  <1>6. kind = "bars" => \A s \in spans : \A d \in DaysOf(s) : d \notin Unpriced
    BY DEF CacheInv, Stored
  <1> HIDE DEF kind, start, end
  <1>7. /\ next.gaps \in Seq(Span) /\ NoneAfter(next.gaps, end)
        /\ \A d \in DaysOf(<<start, end>>) : (\E s \in spans : d \in DaysOf(s)) \/ InOne(next.gaps, d)
    <2>1. Stored(kind) \in SUBSET Span
      BY <1>3
    <2>2. /\ Missing(kind, start, end) \in Seq(Span)
          /\ NoneAfter(Missing(kind, start, end), end)
          /\ \A d \in DaysOf(<<start, end>>) :
               (\E s \in Stored(kind) : d \in DaysOf(s)) \/ InOne(Missing(kind, start, end), d)
      BY <1>1, <1>2, <2>1, MissingIsTheRest
    <2> QED
      BY <1>5, <2>2
  <1> HIDE DEF spans
  <1>8. NoneAfter(next.gaps, next.clock - 1)
    <2>1. \A i \in DOMAIN next.gaps : next.gaps[i][2] \in Nat
      BY <1>7, DaysBasics
    <2>2. \A i \in DOMAIN next.gaps : next.gaps[i][2] <= end
      BY <1>7 DEF NoneAfter
    <2> QED
      BY <1>1, <1>2, <2>1, <2>2 DEF NoneAfter
  <1>9. Accounted(next, fetched)
    BY <1>4, <1>5, <1>6, <1>7 DEF Accounted, Held, kind
  <1>10. next.clock <= today
    BY <1>1
  <1> QED
    BY <1>8, <1>9, <1>10 DEF JobOK

-----------------------------------------------------------------------------
(* The invariant of the reads.                                             *)

\* Nothing is stored and nobody reads.
LEMMA ReadInit == Init => ReadInv
  <1> SUFFICES ASSUME Init PROVE ReadInv
    OBVIOUS
  <1>1. MaxDay \in Nat \ {0} /\ 1 \in Days
    BY DaysBasics DEF Days
  <1>2. Typed
    BY <1>1 DEF Init, Typed
  <1>3. CacheInv
    BY DEF Init, CacheInv, Kind
  <1>4. JobOK(NoJob, "idle", fetched, today)
    <2>1. <<1, 1>> \in Span
      BY <1>1 DEF Span
    <2>2. <<>> \in Seq(Span)
      OBVIOUS
    <2>3. IsJob(NoJob)
      BY <1>1, <2>1, <2>2 DEF IsJob, NoJob, Kind
    <2>4. NoneAfter(NoJob.gaps, NoJob.clock - 1)
      BY DEF NoneAfter, NoJob
    <2>5. NoJob.clock <= today
      BY DEF NoJob, Init
    <2> QED
      BY <2>3, <2>4, <2>5 DEF JobOK
  <1>5. CacheJobs
    BY <1>4 DEF CacheJobs, Init
  <1> QED
    BY <1>2, <1>3, <1>5 DEF ReadInv

\* One reader's step leaves the others' jobs as they were.
LEMMA OthersKept ==
    ASSUME ReadInv, NEW r \in Reader, NEW next, NEW at, NEW ranges \in [Kind -> SUBSET Span],
           \A k \in Kind : fetched[k] \subseteq ranges[k], JobOK(next, at, ranges, today),
           job' = [job EXCEPT ![r] = next], pc' = [pc EXCEPT ![r] = at],
           fetched' = ranges, today' = today
    PROVE  Typed' /\ CacheJobs'
  <1>1. Typed /\ CacheJobs
    BY DEF ReadInv
  <1>2. job' = [q \in Reader |-> IF q = r THEN next ELSE job[q]]
    BY <1>1 DEF Typed
  <1>3. pc' = [q \in Reader |-> IF q = r THEN at ELSE pc[q]]
    BY <1>1 DEF Typed
  <1>4. Typed'
    BY <1>1, <1>2, <1>3 DEF Typed
  <1>5. ASSUME NEW q \in Reader PROVE JobOK(job'[q], pc'[q], ranges, today)
    <2>1. CASE q = r
      BY <1>2, <1>3, <2>1
    <2>2. CASE q # r
      <3>1. JobOK(job[q], pc[q], fetched, today)
        BY <1>1 DEF CacheJobs
      <3>2. today \in Days /\ fetched \in [Kind -> SUBSET Span] /\ today <= today
        BY <1>1, DaysBasics DEF Typed
      <3>3. JobOK(job[q], pc[q], ranges, today)
        BY <3>1, <3>2, JobGrows
      <3>4. job'[q] = job[q] /\ pc'[q] = pc[q]
        BY <1>2, <1>3, <2>2
      <3> QED
        BY <3>3, <3>4
    <2> QED
      BY <2>1, <2>2
  <1>6. CacheJobs'
    BY <1>5 DEF CacheJobs
  <1> QED
    BY <1>4, <1>6

\* A read finds what is missing.
LEMMA BeginKeeps ==
    ASSUME ReadInv, NEW r \in Reader, Begin(r)
    PROVE  ReadInv'
  <1>1. Typed /\ CacheInv /\ today \in Days
    BY DEF ReadInv, Typed
  <1>2. PICK kind \in Kind, span \in Span :
            LET missing == Missing(kind, span[1], Complete(span[2], today))
            IN /\ span[2] <= today
               /\ job' = [job EXCEPT ![r] = [NoJob EXCEPT !.kind = kind, !.span = span,
                                                          !.clock = today, !.gaps = missing]]
               /\ pc' = [pc EXCEPT ![r] = IF missing = <<>> THEN "answer" ELSE "ask"]
    BY DEF Begin
  <1> DEFINE missing == Missing(kind, span[1], Complete(span[2], today))
             next == [NoJob EXCEPT !.kind = kind, !.span = span, !.clock = today, !.gaps = missing]
             at == IF missing = <<>> THEN "answer" ELSE "ask"
  <1>3. missing \in Seq(Span)
    <2>1. Stored(kind) \in SUBSET Span
      BY <1>1 DEF Typed, Stored, Kind
    <2>2. span[1] \in Nat /\ span[2] \in Nat /\ today \in Nat \ {0}
      BY <1>1, DaysBasics DEF Days
    <2>3. Complete(span[2], today) \in Nat
      BY <2>2, CompleteIsOver
    <2> QED
      BY <2>1, <2>2, <2>3, MissingIsTheRest
  <1> HIDE DEF missing
  <1>4. job' = [job EXCEPT ![r] = next] /\ pc' = [pc EXCEPT ![r] = at]
    BY <1>2 DEF missing
  <1>5. next = [kind |-> kind, span |-> span, clock |-> today, gaps |-> missing,
                refused |-> {}, got |-> NoAnswer]
    <2>1. next = [NoJob EXCEPT !.kind = kind, !.span = span, !.clock = today, !.gaps = missing]
      OBVIOUS
    <2> HIDE DEF next
    <2> QED
      BY <2>1 DEF NoJob
  <1> HIDE DEF next, at
  <1>6. IsJob(next)
    BY <1>1, <1>3, <1>5 DEF IsJob
  <1>7. next.gaps = Missing(next.kind, next.span[1], Complete(next.span[2], today))
    BY <1>5 DEF missing
  <1>8. JobOK(next, at, fetched, today)
    <2>1. JobOK(next, IF next.gaps = <<>> THEN "answer" ELSE "ask", fetched, today)
      BY <1>1, <1>5, <1>6, <1>7, BegunJob
    <2>2. at = IF next.gaps = <<>> THEN "answer" ELSE "ask"
      BY <1>5 DEF at
    <2> QED
      BY <2>1, <2>2
  <1>9. fetched' = fetched /\ rows' = rows /\ today' = today
    BY DEF Begin, cache
  <1>10. Typed' /\ CacheJobs'
    BY <1>1, <1>4, <1>8, <1>9, OthersKept DEF Typed
  <1>11. CacheInv'
    BY <1>1, <1>9 DEF CacheInv
  <1> QED
    BY <1>10, <1>11 DEF ReadInv

\* A gap is refused.
LEMMA RefusedKeeps ==
    ASSUME ReadInv, NEW r \in Reader, Refused(r)
    PROVE  ReadInv'
  <1> DEFINE j == job[r]
             days == RefusedDays(j.kind, Head(j.gaps))
             next == [j EXCEPT !.gaps = Tail(@), !.refused = @ \union days]
             at == IF Len(j.gaps) = 1 THEN "answer" ELSE "ask"
  <1>1. Typed /\ CacheInv /\ CacheJobs
    BY DEF ReadInv
  <1>2. pc[r] = "ask" /\ days # {} /\ pc' = [pc EXCEPT ![r] = at]
    BY DEF Refused, ToNextGap
  <1>3. JobOK(j, "ask", fetched, today)
    BY <1>1, <1>2 DEF CacheJobs
  <1>4. job' = [job EXCEPT ![r] = next]
    BY <1>1 DEF Refused, Typed
  <1> HIDE DEF j
  <1>5. IsJob(j) /\ j.gaps # <<>>
    BY <1>3 DEF JobOK
  <1>6. next = [kind |-> j.kind, span |-> j.span, clock |-> j.clock, gaps |-> Tail(j.gaps),
                refused |-> j.refused \union days, got |-> j.got]
    <2>1. next = [j EXCEPT !.gaps = Tail(j.gaps), !.refused = j.refused \union days]
      OBVIOUS
    <2> HIDE DEF next, days
    <2> QED
      BY <1>5, <2>1 DEF IsJob
  <1> HIDE DEF next
  <1>7. Tail(j.gaps) \in Seq(Span)
    BY <1>5, FirstGap DEF IsJob
  <1>8. IsJob(next)
    BY <1>5, <1>6, <1>7 DEF IsJob
  <1>9. JobOK(next, at, fetched, today)
    BY <1>2, <1>3, <1>6, <1>8, RefusedJob
  <1>10. fetched' = fetched /\ rows' = rows /\ today' = today
    BY DEF Refused, cache
  <1> HIDE DEF at
  <1>11. Typed' /\ CacheJobs'
    BY <1>1, <1>2, <1>4, <1>9, <1>10, OthersKept DEF Typed
  <1>12. CacheInv'
    BY <1>1, <1>10 DEF CacheInv
  <1> QED
    BY <1>11, <1>12 DEF ReadInv

\* A gap is answered.
LEMMA AnsweredKeeps ==
    ASSUME ReadInv, NEW r \in Reader, Answered(r)
    PROVE  ReadInv'
  <1> DEFINE j == job[r]
             got == Fetched(j.kind, Head(j.gaps))
             next == [j EXCEPT !.got = got]
  <1>1. Typed /\ CacheInv /\ CacheJobs
    BY DEF ReadInv
  <1>2. pc[r] = "ask" /\ RefusedDays(j.kind, Head(j.gaps)) = {} /\ pc' = [pc EXCEPT ![r] = "store"]
    BY DEF Answered
  <1>3. JobOK(j, "ask", fetched, today)
    BY <1>1, <1>2 DEF CacheJobs
  <1>4. job' = [job EXCEPT ![r] = next]
    BY <1>1 DEF Answered, Typed
  <1> HIDE DEF j, got
  <1>5. IsJob(j)
    BY <1>3 DEF JobOK
  <1>6. next = [kind |-> j.kind, span |-> j.span, clock |-> j.clock, gaps |-> j.gaps,
                refused |-> j.refused, got |-> got]
    BY <1>5 DEF IsJob
  <1> HIDE DEF next
  <1>7. IsJob(next)
    BY <1>5, <1>6 DEF IsJob
  <1>8. JobOK(next, "store", fetched, today)
    BY <1>1, <1>2, <1>3, <1>6, <1>7, AnsweredJob DEF got
  <1>9. fetched' = fetched /\ rows' = rows /\ today' = today
    BY DEF Answered, cache
  <1>10. Typed' /\ CacheJobs'
    BY <1>1, <1>2, <1>4, <1>8, <1>9, OthersKept DEF Typed
  <1>11. CacheInv'
    BY <1>1, <1>9 DEF CacheInv
  <1> QED
    BY <1>10, <1>11 DEF ReadInv

\* What is stored keeps every promise of a stored range, and adds that of the gap.
LEMMA StoreKeepsRows ==
    ASSUME ReadInv, NEW j, Acceptable(j), IsJob(j), j.gaps # <<>>,
           rows' = [k \in Kind |-> [d \in Days |->
                       IF d \in DOMAIN j.got[k] THEN j.got[k][d] ELSE rows[k][d]]],
           fetched' = [fetched EXCEPT ![j.kind] = @ \union {Head(j.gaps)}]
    PROVE  CacheInv'
  <1> DEFINE gap == Head(j.gaps)
             got == j.got
  <1>1. CacheInv /\ fetched \in [Kind -> SUBSET Span] /\ j.kind \in Kind
    BY DEF ReadInv, Typed, IsJob
  <1> HIDE DEF gap
  <1>2. \A s \in fetched'["bars"] : s \in fetched["bars"] \/ (s = gap /\ j.kind = "bars")
    BY <1>1 DEF Kind, gap
  <1>3. \A s \in fetched'["actions"] : s \in fetched["actions"] \/ s = gap
    BY <1>1 DEF Kind, gap
  <1>4. /\ RefusedDays(j.kind, gap) = {}
        /\ j.kind = "bars" => DOMAIN got["bars"] = DaysOf(gap)
        /\ DOMAIN got["actions"] = DaysOf(gap) \intersect ExDates
        /\ \A k \in Kind : \A d \in DOMAIN got[k] : d \in Days /\ Given(got[k][d])
    BY DEF Acceptable, gap
  <1>5. \A k \in Kind, d \in Days : rows'[k][d] = IF d \in DOMAIN got[k] THEN got[k][d] ELSE rows[k][d]
    OBVIOUS
  <1>6. "bars" \in Kind /\ "actions" \in Kind /\ \A span : DaysOf(span) \subseteq Days
    BY DaysBasics DEF Kind, DaysOf
  <1> HIDE DEF got
  <1>7. \A k \in Kind, d \in Days : d \in DOMAIN got[k] \/ Given(rows[k][d]) => Given(rows'[k][d])
    BY <1>4, <1>5
  <1>8. ASSUME NEW s \in fetched'["bars"], NEW d \in DaysOf(s)
        PROVE  d \notin Unpriced /\ Given(rows'["bars"][d])
    <2>1. CASE s \in fetched["bars"]
      BY <1>1, <1>6, <1>7, <2>1 DEF CacheInv
    <2>2. CASE s = gap /\ j.kind = "bars"
      <3>1. d \notin Unpriced
        BY <1>4, <2>2 DEF RefusedDays, RefusedBars
      <3>2. d \in DOMAIN got["bars"]
        BY <1>4, <2>2
      <3> QED
        BY <1>6, <1>7, <3>1, <3>2
    <2>3. s \in fetched["bars"] \/ (s = gap /\ j.kind = "bars")
      BY <1>2, <1>8
    <2> QED
      BY <2>1, <2>2, <2>3
  <1>9. ASSUME NEW s \in fetched'["bars"] \union fetched'["actions"],
               NEW d \in DaysOf(s) \intersect ExDates
        PROVE  Given(rows'["actions"][d])
    <2>1. CASE s \in fetched["bars"] \union fetched["actions"]
      BY <1>1, <1>6, <1>7, <2>1 DEF CacheInv
    <2>2. CASE s = gap
      BY <1>4, <1>6, <1>7, <2>2
    <2>3. s \in fetched["bars"] \union fetched["actions"] \/ s = gap
      BY <1>2, <1>3, <1>9
    <2> QED
      BY <2>1, <2>2, <2>3
  <1>10. \A k \in Kind, d \in Days : rows'[k][d] = NoRow \/ Given(rows'[k][d])
    BY <1>1, <1>4, <1>5 DEF CacheInv
  <1> QED
    BY <1>8, <1>9, <1>10 DEF CacheInv

\* An answer is stored, or conflicts.
LEMMA StoreKeeps ==
    ASSUME ReadInv, NEW r \in Reader, Store(r)
    PROVE  ReadInv'
  <1> DEFINE j == job[r]
             gap == Head(j.gaps)
             next == [j EXCEPT !.gaps = Tail(@), !.got = NoAnswer]
             at == IF Len(j.gaps) = 1 THEN "answer" ELSE "ask"
  <1>1. Typed /\ CacheInv /\ CacheJobs
    BY DEF ReadInv
  <1>2. pc[r] = "store" /\ today' = today
    BY DEF Store
  <1>3. JobOK(j, "store", fetched, today)
    BY <1>1, <1>2 DEF CacheJobs
  <1>4. IsJob(j) /\ j.gaps # <<>> /\ Acceptable(j)
    BY <1>3 DEF JobOK
  <1>5. CASE /\ pc' = [pc EXCEPT ![r] = "conflict"]
             /\ UNCHANGED <<cache, job>>
    <2>1. fetched' = fetched /\ rows' = rows
      BY <1>5 DEF cache
    <2>2. JobOK(j, "conflict", fetched, today)
      BY <1>3 DEF JobOK
    <2>3. job' = [job EXCEPT ![r] = j]
      BY <1>1, <1>5 DEF Typed
    <2> HIDE DEF j
    <2>4. Typed' /\ CacheJobs'
      BY <1>1, <1>2, <1>5, <2>1, <2>2, <2>3, OthersKept DEF Typed
    <2>5. CacheInv'
      BY <1>1, <2>1 DEF CacheInv
    <2> QED
      BY <2>4, <2>5 DEF ReadInv
  <1>6. CASE /\ rows' = [k \in Kind |-> [d \in Days |->
                            IF d \in DOMAIN job[r].got[k] THEN job[r].got[k][d] ELSE rows[k][d]]]
             /\ fetched' = [fetched EXCEPT ![job[r].kind] = @ \union {gap}]
             /\ job' = [job EXCEPT ![r].gaps = Tail(@), ![r].got = NoAnswer]
             /\ pc' = [pc EXCEPT ![r] = ToNextGap(r, {})]
    <2>1. job' = [job EXCEPT ![r] = next]
      BY <1>1, <1>6 DEF Typed
    <2>2. pc' = [pc EXCEPT ![r] = at]
      BY <1>6 DEF ToNextGap
    <2>3. CacheInv'
      BY <1>4, <1>6, StoreKeepsRows
    <2>4. fetched' = [fetched EXCEPT ![j.kind] = @ \union {gap}]
      BY <1>6
    <2> HIDE DEF j
    <2>5. next = [kind |-> j.kind, span |-> j.span, clock |-> j.clock, gaps |-> Tail(j.gaps),
                  refused |-> j.refused, got |-> NoAnswer]
      <3>1. next = [j EXCEPT !.gaps = Tail(j.gaps), !.got = NoAnswer]
        OBVIOUS
      <3> HIDE DEF next
      <3> QED
        BY <1>4, <3>1 DEF IsJob
    <2> HIDE DEF next, gap
    <2>6. Tail(j.gaps) \in Seq(Span) /\ gap \in Span
      BY <1>4, FirstGap DEF IsJob, gap
    <2>7. IsJob(next)
      BY <1>4, <2>5, <2>6 DEF IsJob
    <2>8. /\ fetched \in [Kind -> SUBSET Span] /\ fetched' \in [Kind -> SUBSET Span]
          /\ \A k \in Kind : fetched[k] \subseteq fetched'[k]
          /\ gap \in fetched'[j.kind]
      BY <1>1, <1>4, <2>4, <2>6 DEF Typed, IsJob
    <2>9. JobOK(next, at, fetched', today)
      BY <1>3, <2>5, <2>7, <2>8, StoredJob DEF gap
    <2> HIDE DEF at
    <2>10. Typed' /\ CacheJobs'
      BY <1>2, <2>1, <2>2, <2>8, <2>9, OthersKept
    <2> QED
      BY <2>3, <2>10 DEF ReadInv
  <1> QED
    BY <1>5, <1>6 DEF Store

\* A read ends.
LEMMA EndKeeps ==
    ASSUME ReadInv, NEW r \in Reader, End(r)
    PROVE  ReadInv'
  <1>1. Typed /\ CacheInv /\ today \in Days
    BY DEF ReadInv, Typed
  <1>2. job' = [job EXCEPT ![r] = NoJob] /\ pc' = [pc EXCEPT ![r] = "idle"]
        /\ fetched' = fetched /\ rows' = rows /\ today' = today
    BY DEF End, cache
  <1>3. JobOK(NoJob, "idle", fetched, today)
    <2>1. <<1, 1>> \in Span /\ 1 \in Days /\ 1 <= today
      BY <1>1, DaysBasics DEF Span, Days
    <2>2. <<>> \in Seq(Span)
      OBVIOUS
    <2>3. IsJob(NoJob)
      BY <2>1, <2>2 DEF IsJob, NoJob, Kind
    <2>4. NoneAfter(NoJob.gaps, NoJob.clock - 1)
      BY DEF NoneAfter, NoJob
    <2>5. NoJob.clock <= today
      BY <2>1 DEF NoJob
    <2> QED
      BY <2>3, <2>4, <2>5 DEF JobOK
  <1>4. Typed' /\ CacheJobs'
    BY <1>1, <1>2, <1>3, OthersKept DEF Typed
  <1>5. CacheInv'
    BY <1>1, <1>2 DEF CacheInv
  <1> QED
    BY <1>4, <1>5 DEF ReadInv

\* Every step keeps the invariant.
LEMMA ReadStep == ReadInv /\ [Next]_vars => ReadInv'
  <1> SUFFICES ASSUME ReadInv, [Next]_vars PROVE ReadInv'
    OBVIOUS
  <1>1. CASE DayEnds
    <2>1. today \in Days /\ today + 1 \in Days /\ today <= today + 1 /\ today' = today + 1
      BY <1>1, DaysBasics DEF DayEnds, ReadInv, Typed, Days
    <2>2. fetched' = fetched /\ rows' = rows /\ pc' = pc /\ job' = job
      BY <1>1 DEF DayEnds, cache
    <2>3. ASSUME NEW r \in Reader PROVE JobOK(job[r], pc[r], fetched, today + 1)
      BY <2>1, JobGrows DEF ReadInv, Typed, CacheJobs
    <2>4. CacheJobs'
      BY <2>1, <2>2, <2>3 DEF CacheJobs
    <2>5. CacheInv' /\ Typed'
      BY <2>1, <2>2 DEF ReadInv, CacheInv, Typed
    <2> QED
      BY <2>4, <2>5 DEF ReadInv
  <1>2. CASE \E d \in Days : Revise(d)
    BY <1>2 DEF Revise, cache, ReadInv, Typed, CacheInv, CacheJobs
  <1>3. ASSUME NEW r \in Reader, Begin(r) \/ Refused(r) \/ Answered(r) \/ Store(r) \/ End(r)
        PROVE  ReadInv'
    BY <1>3, BeginKeeps, RefusedKeeps, AnsweredKeeps, StoreKeeps, EndKeeps
  <1>4. CASE UNCHANGED vars
    BY <1>4 DEF vars, ReadInv, Typed, CacheInv, CacheJobs
  <1> QED
    BY <1>1, <1>2, <1>3, <1>4 DEF Next

\* The invariant of the reads holds throughout.
THEOREM ReadsAreInOrder == Spec => []ReadInv
  BY ReadInit, ReadStep, PTL DEF Spec

\* A read that is about to answer finds every row it wants, or names what it lacks.
LEMMA AnswersAreWhole == ReadInv => AnswerIsWhole
  <1> SUFFICES ASSUME ReadInv, NEW r \in Reader, Answering(r)
               PROVE  /\ job[r].refused = {} =>
                          /\ job[r].kind = "bars" => DaysOf(Wanted(r)) \subseteq Cached("bars", Wanted(r))
                          /\ DaysOf(Wanted(r)) \intersect ExDates \subseteq Cached("actions", Wanted(r))
                          /\ \A d \in Cached(job[r].kind, Wanted(r)) :
                               rows[job[r].kind][d].value # "unfinished"
                      /\ job[r].kind = "bars" =>
                           DaysOf(Wanted(r)) \intersect Unpriced \subseteq job[r].refused
    BY DEF AnswerIsWhole
  <1> DEFINE j == job[r]
             wanted == Wanted(r)
  <1>1. CacheInv /\ JobOK(j, "answer", fetched, today)
    BY DEF ReadInv, CacheJobs, Answering
  <1>2. wanted = WantedBy(j)
    BY DEF Wanted, WantedBy
  <1>3. j.kind \in Kind /\ j.gaps = <<>> /\ Accounted(j, fetched)
    BY <1>1 DEF JobOK, IsJob
  <1>4. \A d : ~InOne(j.gaps, d)
    BY <1>3 DEF InOne
  <1>5. \A row : Given(row) => row # NoRow /\ row.value # "unfinished"
    BY DEF Given, NoRow
  <1>6. NoRow.value # "unfinished"
    BY DEF NoRow
  <1>7. \A d \in DaysOf(wanted) : d \in Days
    BY DaysBasics DEF DaysOf
  <1> HIDE DEF j, wanted
  <1>8. ASSUME j.refused = {}, NEW d \in DaysOf(wanted) PROVE Held(fetched, j.kind, d)
    BY <1>2, <1>3, <1>4, <1>8 DEF Accounted
  <1>9. ASSUME j.refused = {}, j.kind = "bars", NEW d \in DaysOf(wanted)
        PROVE  d \in Cached("bars", wanted)
    <2>1. Given(rows["bars"][d])
      BY <1>1, <1>8, <1>9 DEF Held, StoredIn, CacheInv
    <2> QED
      BY <1>5, <2>1 DEF Cached
  <1>10. ASSUME j.refused = {}, NEW d \in DaysOf(wanted) \intersect ExDates
         PROVE  d \in Cached("actions", wanted)
    <2>1. Given(rows["actions"][d])
      BY <1>1, <1>8, <1>10 DEF Held, StoredIn, CacheInv
    <2> QED
      BY <1>5, <2>1 DEF Cached
  <1>11. \A d \in Cached(j.kind, wanted) : rows[j.kind][d].value # "unfinished"
    BY <1>1, <1>3, <1>5, <1>6, <1>7 DEF CacheInv, Cached
  <1>12. ASSUME j.kind = "bars", NEW d \in DaysOf(wanted) \intersect Unpriced
         PROVE  d \in j.refused
    BY <1>2, <1>3, <1>4, <1>12 DEF Accounted
  <1> QED
    BY <1>9, <1>10, <1>11, <1>12 DEF j, wanted

\* Whatever others store and whichever days end meanwhile, a read answers with every row it
\* wants, none of them of a day still trading, or names the days it could not have.
THEOREM ReadsAnswerWhole == Spec => []AnswerIsWhole
  BY ReadsAreInOrder, AnswersAreWhole, PTL

-----------------------------------------------------------------------------
(* What the source gave once it gives again.                               *)

\* The row of a day that the source has not revised, in whatever range it is asked for.
AsGiven(k, d) ==
    IF k = "actions" /\ d \in ProvenDividends THEN [value |-> "first", restored |-> TRUE]
    ELSE [value |-> "first", restored |-> FALSE]

RowsAsGiven == \A k \in Kind, d \in Days : rows[k][d] = NoRow \/ rows[k][d] = AsGiven(k, d)
JobAsGiven(j, at) ==
    /\ at # "conflict"
    /\ at = "store" =>
         \A k \in Kind : \A d \in DOMAIN j.got[k] : d \in Days /\ j.got[k][d] = AsGiven(k, d)

\* While nothing is revised every row, stored or about to be, is the one the source gives.
GivenInv == revised = {} => RowsAsGiven /\ \A r \in Reader : JobAsGiven(job[r], pc[r])

\* A gap's answer is what the source gives of its days in any range, as long as it knows a
\* stock's runs wherever it is asked for a dividend in a proven one.
LEMMA AnswerAsGiven ==
    ASSUME ProvenDividends \subseteq Scaled, revised = {}, NEW kind \in Kind, NEW span \in Span,
           \A d \in DaysOf(span) : d \in Days /\ d # today, NEW k \in Kind,
           NEW d \in DOMAIN Fetched(kind, span)[k]
    PROVE  d \in Days /\ Fetched(kind, span)[k][d] = AsGiven(k, d)
  <1>1. Fetched(kind, span)[k] = IF k = "actions" THEN Actions(span)
                                 ELSE IF kind = "bars" THEN Bars(span) ELSE [e \in {} |-> NoRow]
    BY DEF Fetched
  <1>2. \A e \in DaysOf(span) : Value(e) = "first"
    BY DEF Value
  <1>3. CASE k = "actions"
    <2>1. Fetched(kind, span)[k] = Actions(span)
      BY <1>1, <1>3
    <2>2. d \in DaysOf(span) \intersect ExDates
      BY <2>1 DEF Actions
    <2>3. Actions(span)[d] = [value |-> Value(d), restored |-> KnowsRuns(span) /\ d \in ProvenDividends]
      BY <2>2 DEF Actions
    <2>4. CASE d \in ProvenDividends
      <3>1. KnowsRuns(span) /\ d \in ProvenDividends
        BY <2>2, <2>4 DEF KnowsRuns
      <3>2. (KnowsRuns(span) /\ d \in ProvenDividends) = TRUE
        BY <3>1
      <3>3. Actions(span)[d] = [value |-> "first", restored |-> TRUE]
        BY <1>2, <2>2, <2>3, <3>2, Zenon
      <3> QED
        BY <1>3, <2>1, <2>2, <2>4, <3>3 DEF AsGiven
    <2>5. CASE d \notin ProvenDividends
      <3>1. (KnowsRuns(span) /\ d \in ProvenDividends) = FALSE
        BY <2>5
      <3>2. Actions(span)[d] = [value |-> "first", restored |-> FALSE]
        BY <1>2, <2>2, <2>3, <3>1, Zenon
      <3> QED
        BY <1>3, <2>1, <2>2, <2>5, <3>2 DEF AsGiven
    <2> QED
      BY <2>4, <2>5
  <1>4. CASE k # "actions" /\ kind = "bars"
    <2>1. Fetched(kind, span)[k] = Bars(span)
      BY <1>1, <1>4
    <2>2. d \in DaysOf(span)
      BY <2>1 DEF Bars
    <2>3. Bars(span)[d] = [value |-> "first", restored |-> FALSE]
      BY <1>2, <2>2 DEF Bars
    <2> QED
      BY <1>4, <2>1, <2>2, <2>3 DEF AsGiven
  <1>5. CASE k # "actions" /\ kind # "bars"
    BY <1>1, <1>5
  <1> QED
    BY <1>3, <1>4, <1>5

\* Nothing is stored at first.
LEMMA GivenInit == Init => GivenInv
  BY DEF Init, GivenInv, RowsAsGiven, JobAsGiven, Kind

\* No step stores or answers anything else.
LEMMA GivenStep ==
    ASSUME ProvenDividends \subseteq Scaled, ReadInv, GivenInv, [Next]_vars
    PROVE  GivenInv'
  <1> SUFFICES ASSUME revised' = {}
               PROVE  RowsAsGiven' /\ \A q \in Reader : JobAsGiven(job'[q], pc'[q])
    BY DEF GivenInv
  <1>1. Typed /\ CacheJobs
    BY DEF ReadInv
  <1>2. ~ \E d \in Days : Revise(d)
    BY DEF Revise
  <1>3. revised = {}
    <2>1. CASE UNCHANGED vars
      BY <2>1 DEF vars
    <2>2. CASE Next
      BY <1>2, <2>2 DEF Next, DayEnds, Begin, Refused, Answered, Store, End
    <2> QED
      BY <2>1, <2>2
  <1>4. RowsAsGiven /\ \A q \in Reader : JobAsGiven(job[q], pc[q])
    BY <1>3 DEF GivenInv
  <1>5. ASSUME NEW r \in Reader, NEW at, pc' = [pc EXCEPT ![r] = at], JobAsGiven(job'[r], at),
               \A q \in Reader \ {r} : job'[q] = job[q], RowsAsGiven'
        PROVE  RowsAsGiven' /\ \A q \in Reader : JobAsGiven(job'[q], pc'[q])
    <2>1. \A q \in Reader : pc'[q] = IF q = r THEN at ELSE pc[q]
      BY <1>1, <1>5 DEF Typed
    <2>2. ASSUME NEW q \in Reader PROVE JobAsGiven(job'[q], pc'[q])
      <3>1. CASE q = r
        BY <1>5, <2>1, <3>1
      <3>2. CASE q # r
        <4>1. job'[q] = job[q] /\ pc'[q] = pc[q]
          BY <1>5, <2>1, <3>2
        <4> QED
          BY <1>4, <4>1
      <3> QED
        BY <3>1, <3>2
    <2> QED
      BY <1>5, <2>2
  <1>6. ASSUME NEW r \in Reader, NEW at \in {"idle", "ask", "answer"},
               pc' = [pc EXCEPT ![r] = at], \A q \in Reader \ {r} : job'[q] = job[q], RowsAsGiven'
        PROVE  RowsAsGiven' /\ \A q \in Reader : JobAsGiven(job'[q], pc'[q])
    <2>1. JobAsGiven(job'[r], at)
      BY DEF JobAsGiven
    <2> QED
      BY <1>5, <1>6, <2>1
  <1>7. rows' = rows => RowsAsGiven'
    BY <1>4 DEF RowsAsGiven
  <1>8. CASE UNCHANGED vars
    <2>1. rows' = rows /\ pc' = pc /\ job' = job
      BY <1>8 DEF vars
    <2> QED
      BY <1>4, <1>7, <2>1
  <1>9. CASE DayEnds
    <2>1. rows' = rows /\ pc' = pc /\ job' = job
      BY <1>9 DEF DayEnds, cache
    <2> QED
      BY <1>4, <1>7, <2>1
  <1>10. ASSUME NEW r \in Reader, Begin(r)
         PROVE  RowsAsGiven' /\ \A q \in Reader : JobAsGiven(job'[q], pc'[q])
    <2>1. PICK kind \in Kind, span \in Span :
              LET missing == Missing(kind, span[1], Complete(span[2], today))
              IN /\ span[2] <= today
                 /\ job' = [job EXCEPT ![r] = [NoJob EXCEPT !.kind = kind, !.span = span,
                                                            !.clock = today, !.gaps = missing]]
                 /\ pc' = [pc EXCEPT ![r] = IF missing = <<>> THEN "answer" ELSE "ask"]
      BY <1>10 DEF Begin
    <2>2. PICK at \in {"ask", "answer"} : pc' = [pc EXCEPT ![r] = at]
      BY <2>1
    <2>3. rows' = rows /\ \A q \in Reader \ {r} : job'[q] = job[q]
      BY <1>1, <1>10, <2>1 DEF Begin, cache, Typed
    <2> QED
      BY <1>6, <1>7, <2>2, <2>3
  <1>11. ASSUME NEW r \in Reader, Refused(r)
         PROVE  RowsAsGiven' /\ \A q \in Reader : JobAsGiven(job'[q], pc'[q])
    <2>1. PICK at \in {"ask", "answer"} : pc' = [pc EXCEPT ![r] = at]
      BY <1>11 DEF Refused, ToNextGap
    <2>2. rows' = rows /\ \A q \in Reader \ {r} : job'[q] = job[q]
      BY <1>1, <1>11 DEF Refused, cache, Typed
    <2> QED
      BY <1>6, <1>7, <2>1, <2>2
  <1>12. ASSUME NEW r \in Reader, Answered(r)
         PROVE  RowsAsGiven' /\ \A q \in Reader : JobAsGiven(job'[q], pc'[q])
    <2> DEFINE j == job[r]
               gap == Head(j.gaps)
               kind == j.kind
    <2>1. pc[r] = "ask" /\ pc' = [pc EXCEPT ![r] = "store"] /\ rows' = rows
          /\ job' = [job EXCEPT ![r].got = Fetched(kind, gap)]
      BY <1>12 DEF Answered, cache
    <2>2. JobOK(j, "ask", fetched, today)
      BY <1>1, <2>1 DEF CacheJobs
    <2>3. kind \in Kind /\ gap \in Span /\ \A d \in DaysOf(gap) : d \in Days /\ d # today
      BY <1>1, <2>2, GapIsOver DEF JobOK, IsJob
    <2>4. IsJob(j)
      BY <2>2 DEF JobOK
    <2> DEFINE got == Fetched(kind, gap)
    <2>5. job' = [job EXCEPT ![r] = [j EXCEPT !.got = got]]
      BY <1>1, <2>1 DEF Typed
    <2> HIDE DEF got, kind, gap, j
    <2>6. job'[r].got = got /\ \A q \in Reader \ {r} : job'[q] = job[q]
      BY <1>1, <2>4, <2>5 DEF Typed, IsJob
    <2>7. \A k \in Kind : \A d \in DOMAIN got[k] : d \in Days /\ got[k][d] = AsGiven(k, d)
      BY <1>3, <2>3, AnswerAsGiven DEF got
    <2>8. JobAsGiven(job'[r], "store")
      BY <2>6, <2>7 DEF JobAsGiven
    <2> QED
      BY <1>5, <1>7, <2>1, <2>6, <2>8
  <1>13. ASSUME NEW r \in Reader, Store(r)
         PROVE  RowsAsGiven' /\ \A q \in Reader : JobAsGiven(job'[q], pc'[q])
    <2> DEFINE got == job[r].got
    <2>1. pc[r] = "store"
      BY <1>13 DEF Store
    <2>2. \A k \in Kind : \A d \in DOMAIN got[k] : d \in Days /\ got[k][d] = AsGiven(k, d)
      BY <1>4, <2>1 DEF JobAsGiven
    <2>3. ~Conflicts(got)
      BY <1>4, <2>2 DEF Conflicts, Differs, RowsAsGiven
    <2>4. /\ rows' = [k \in Kind |-> [d \in Days |->
                         IF d \in DOMAIN got[k] THEN got[k][d] ELSE rows[k][d]]]
          /\ job' = [job EXCEPT ![r].gaps = Tail(@), ![r].got = NoAnswer]
          /\ pc' = [pc EXCEPT ![r] = ToNextGap(r, {})]
      BY <1>13, <2>3 DEF Store
    <2>5. PICK at \in {"ask", "answer"} : pc' = [pc EXCEPT ![r] = at]
      BY <2>4 DEF ToNextGap
    <2>6. \A q \in Reader \ {r} : job'[q] = job[q]
      BY <1>1, <2>4 DEF Typed
    <2> HIDE DEF got
    <2>7. RowsAsGiven'
      BY <1>4, <2>2, <2>4 DEF RowsAsGiven
    <2> QED
      BY <1>6, <2>5, <2>6, <2>7
  <1>14. ASSUME NEW r \in Reader, End(r)
         PROVE  RowsAsGiven' /\ \A q \in Reader : JobAsGiven(job'[q], pc'[q])
    <2>1. pc' = [pc EXCEPT ![r] = "idle"] /\ rows' = rows /\ \A q \in Reader \ {r} : job'[q] = job[q]
      BY <1>1, <1>14 DEF End, cache, Typed
    <2> QED
      BY <1>6, <1>7, <2>1
  <1> QED
    BY <1>2, <1>8, <1>9, <1>10, <1>11, <1>12, <1>13, <1>14 DEF Next

\* While the source has revised nothing no fetch conflicts with a stored row, where what it
\* says of a dividend does not depend on the range asked.
THEOREM ConflictsAreRevisions ==
    ASSUME ProvenDividends \subseteq Scaled
    PROVE  Spec => []ConflictMeansRevised
  <1>1. ReadInv /\ GivenInv /\ [Next]_vars => GivenInv'
    BY GivenStep
  <1>2. GivenInv => ConflictMeansRevised
    BY DEF GivenInv, JobAsGiven, ConflictMeansRevised
  <1> QED
    BY <1>1, <1>2, GivenInit, ReadsAreInOrder, PTL DEF Spec
=============================================================================
