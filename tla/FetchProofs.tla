---------------------------- MODULE FetchProofs -----------------------------
(***************************************************************************)
(* Theorems about what a run fetches and hands on (BacktestFetch and       *)
(* Backtest), for any window and any answers of the source, provided that  *)
(* a refusal names no holiday of the window: no range is asked for twice,  *)
(* and the inputs and warnings of a day are what the source and the        *)
(* universe said. And about what the source answers (YahooSource), for any *)
(* trades, splits, dividends and rights issue: the prices traded and the   *)
(* dividends paid, provided that the numbers are precise enough.           *)
(*                                                                         *)
(* A range that was asked was either answered, and then no pending range   *)
(* shares a day with it, or refused, and then it holds a refused day,      *)
(* which no pending range does. The pending ranges share no day with each  *)
(* other, so a refusal within one of them leaves the others clean; and the *)
(* ranges left inside it hold all of its days but those refused.           *)
(*                                                                         *)
(* The factor that makes one affected open read what was traded fits every *)
(* affected day, so all the evidence is one run. If one factor only fits,  *)
(* it is that one.                                                         *)
(***************************************************************************)
EXTENDS Backtest, YahooSource, SumProofs

\* What the proofs assume of the source: a day it names in the window is a trading day.
NoHolidayNamed == Nameable \intersect Window \subseteq Trading

\* The ranges do not share a day.
Apart(r, q) == DaysIn(r) \intersect DaysIn(q) = {}

\* What relates the ranges asked, answered and pending to each other and to the days refused.
SearchInv ==
    /\ phase \in Phase
    /\ pending \subseteq Ranges
    /\ refused \subseteq Trading
    /\ answered \subseteq asked
    /\ phase = "whole" => asked = {} /\ pending = {} /\ answered = {}
    /\ phase \in Ended => pending = {}
    /\ \A r \in pending : Clean(r, refused)
    /\ \A r, q \in pending : r # q => Apart(r, q)
    /\ \A r \in pending, q \in answered : Apart(r, q)
    /\ phase \notin Ended => \A r \in asked : r \in answered \/ ~Clean(r, refused)

\* A range of trading days holds its ends, and the trading days of a part of it.
LEMMA InRange ==
    ASSUME NEW r \in Ranges
    PROVE  r[1] \in DaysIn(r) /\ r[2] \in DaysIn(r)
<1>1. /\ r[1] \in Trading /\ r[2] \in Trading
      /\ r[1] <= r[2]
  BY DEF Ranges
<1>2. Trading \subseteq Int
  BY FetchConstants DEF Window
<1>3. r[1] \in Int /\ r[2] \in Int
  BY <1>1, <1>2
<1> QED
  BY <1>1, <1>3 DEF DaysIn

\* The clean ranges within a range are ranges of its days, hold no refused day and do not
\* share a day: two that shared one would be parts of one longer clean range.
LEMMA CleanRangesAreApart ==
    ASSUME NEW within \in Ranges, NEW days
    PROVE  /\ CleanRanges(within, days) \subseteq Ranges
           /\ \A r \in CleanRanges(within, days) :
                 Clean(r, days) /\ DaysIn(r) \subseteq DaysIn(within)
           /\ \A r, q \in CleanRanges(within, days) : r # q => Apart(r, q)
<1>1. CleanRanges(within, days) \subseteq Ranges
  BY DEF CleanRanges
<1>t. Trading \subseteq Int
  BY FetchConstants DEF Window
<1>w. within[1] \in Int /\ within[2] \in Int
  BY <1>t DEF Ranges
<1>2. ASSUME NEW r \in CleanRanges(within, days)
      PROVE  Clean(r, days) /\ DaysIn(r) \subseteq DaysIn(within)
  <2>1. r \in Ranges /\ within[1] <= r[1] /\ r[2] <= within[2] /\ Clean(r, days)
    BY DEF CleanRanges
  <2>2. r[1] \in Int /\ r[2] \in Int
    BY <2>1, <1>t DEF Ranges
  <2> QED
    BY <2>1, <2>2, <1>t, <1>w DEF DaysIn
<1>3. ASSUME NEW r \in CleanRanges(within, days), NEW q \in CleanRanges(within, days),
             ~Apart(r, q)
      PROVE  r = q
  <2>1. /\ r \in Ranges /\ within[1] <= r[1] /\ r[2] <= within[2] /\ Clean(r, days)
        /\ q \in Ranges /\ within[1] <= q[1] /\ q[2] <= within[2] /\ Clean(q, days)
    BY DEF CleanRanges
  <2>2. /\ r[1] \in Trading /\ r[2] \in Trading /\ q[1] \in Trading /\ q[2] \in Trading
        /\ r[1] \in Int /\ r[2] \in Int /\ q[1] \in Int /\ q[2] \in Int
        /\ r[1] <= r[2] /\ q[1] <= q[2]
    BY <2>1, <1>t DEF Ranges
  <2>3. PICK d \in Trading : r[1] <= d /\ d <= r[2] /\ q[1] <= d /\ d <= q[2]
    BY <1>3, <2>2, <1>t DEF Apart, DaysIn
  <2> DEFINE first == IF r[1] <= q[1] THEN r[1] ELSE q[1]
             last == IF r[2] <= q[2] THEN q[2] ELSE r[2]
             joined == <<first, last>>
  <2>4. joined \in Ranges /\ joined[1] = first /\ joined[2] = last
    BY <2>2 DEF Ranges
  <2>5. within[1] <= first /\ last <= within[2]
    BY <2>1, <2>2, <1>w
  <2>6. DaysIn(joined) \subseteq DaysIn(r) \union DaysIn(q)
    <3>1. ASSUME NEW e \in Trading, first <= e, e <= last
          PROVE  (r[1] <= e /\ e <= r[2]) \/ (q[1] <= e /\ e <= q[2])
      <4>1. e \in Int /\ d \in Int
        BY <1>t
      <4> QED
        BY <3>1, <4>1, <2>2, <2>3
    <3> QED
      BY <3>1, <2>2, <2>4, <1>t DEF DaysIn
  <2>7. Clean(joined, days)
    BY <2>1, <2>6 DEF Clean
  <2>8. first <= r[1] /\ r[2] <= last /\ first <= q[1] /\ q[2] <= last
    BY <2>2
  <2>9. joined = r /\ joined = q
    <3> HIDE DEF first, last
    <3> QED BY <2>4, <2>5, <2>7, <2>8 DEF CleanRanges
  <2> QED
    BY <2>9
<1> QED
  BY <1>1, <1>2, <1>3

-----------------------------------------------------------------------------
\* The whole window is a range of the trading days, and holds them all.
LEMMA WholeIsARange == Whole \in Ranges /\ DaysIn(Whole) = Trading
<1>1. 1 \in Trading /\ LastDay \in Trading /\ 1 <= LastDay /\ LastDay \in Int
  BY FetchConstants
<1>2. \A d \in Trading : d \in 1..LastDay
  BY FetchConstants DEF Window
<1> QED
  BY <1>1, <1>2 DEF Whole, Ranges, DaysIn

\* The first refusal names a day of the window, so the whole window is not clean any more.
LEMMA WholeRefusedKeeps ==
    ASSUME NoHolidayNamed, SearchInv, WholeRefused
    PROVE  SearchInv'
<1>1. PICK days \in Refusal :
        /\ phase' = IF Named(days) = {} THEN "stopped" ELSE "history"
        /\ refused' = Named(days)
        /\ pending' = IF Named(days) = {} THEN {} ELSE CleanRanges(Whole, Named(days))
  BY DEF WholeRefused
<1>2. /\ phase = "whole" /\ asked' = {Whole} /\ answered' = {}
  BY DEF WholeRefused, SearchInv
<1>3. Named(days) \subseteq Trading
  BY DEF Refusal, NoHolidayNamed, Named
<1>4. phase' \in Phase /\ phase' # "whole"
  BY <1>1 DEF Phase
<1>5. CASE Named(days) = {}
  <2>1. pending' = {} /\ refused' = {} /\ phase' \in Ended
    BY <1>1, <1>5 DEF Ended
  <2> QED
    BY <1>2, <1>4, <2>1 DEF SearchInv
<1>6. CASE Named(days) # {}
  <2>1. /\ pending' = CleanRanges(Whole, refused') /\ refused' # {} /\ refused' \subseteq Trading
        /\ phase' \notin Ended
    BY <1>1, <1>3, <1>6 DEF Ended
  <2>2. ~Clean(Whole, refused')
    BY <2>1, WholeIsARange DEF Clean
  <2>3. /\ pending' \subseteq Ranges
        /\ \A r \in pending' : Clean(r, refused')
        /\ \A r, q \in pending' : r # q => Apart(r, q)
    BY <2>1, WholeIsARange, CleanRangesAreApart
  <2> QED
    BY <1>2, <1>4, <2>1, <2>2, <2>3 DEF SearchInv
<1> QED
  BY <1>5, <1>6

\* An answered range leaves the pending ones, with which it shares no day.
LEMMA RangeAnsweredKeeps ==
    ASSUME SearchInv, NEW r \in pending, RangeAnswered(r)
    PROVE  SearchInv'
<1>1. /\ phase = "around" /\ pending' = pending \ {r} /\ refused' = refused
      /\ answered' = answered \union {r} /\ asked' = asked \union {r}
      /\ phase' = AfterAsking(pending')
  BY DEF RangeAnswered
<1>2. /\ phase' \in Phase /\ phase' # "whole" /\ (phase' \in Ended => pending' = {})
      /\ phase \notin Ended
  BY <1>1 DEF AfterAsking, Phase, Ended
<1>3. \A p \in pending', q \in answered' : Apart(p, q)
  BY <1>1 DEF SearchInv
<1>4. \A q \in asked' : q \in answered' \/ ~Clean(q, refused')
  BY <1>1, <1>2 DEF SearchInv
<1> QED
  BY <1>1, <1>2, <1>3, <1>4 DEF SearchInv

\* A refused range gives way to the clean ranges inside it; the days refused are in none of
\* the other ranges, which stay clean.
LEMMA RangeRefusedKeeps ==
    ASSUME SearchInv, NEW r \in pending, RangeRefused(r)
    PROVE  SearchInv'
<1>1. PICK days \in Refusal :
        IF More(r, days) = {}
        THEN phase' = "stopped" /\ pending' = {} /\ UNCHANGED refused
        ELSE /\ refused' = refused \union More(r, days)
             /\ pending' = (pending \ {r}) \union Inside(r, More(r, days))
             /\ phase' = AfterAsking(pending')
  BY DEF RangeRefused
<1>2. phase = "around" /\ asked' = asked \union {r} /\ answered' = answered /\ r \in Ranges
  BY DEF RangeRefused, SearchInv
<1>3. CASE More(r, days) = {}
  <2>1. phase' = "stopped" /\ pending' = {} /\ refused' = refused
    BY <1>1, <1>3
  <2> QED
    BY <1>2, <2>1 DEF SearchInv, Phase, Ended
<1>4. CASE More(r, days) # {}
  <2> DEFINE more == More(r, days)
             inside == CleanRanges(r, more)
  <2>1. /\ refused' = refused \union more /\ pending' = (pending \ {r}) \union inside
        /\ phase' = AfterAsking(pending')
    BY <1>1, <1>4 DEF Inside
  <2>2. more # {} /\ more \subseteq DaysIn(r) /\ more \subseteq Trading
    BY <1>4 DEF More, DaysIn
  <2>3. /\ phase' \in Phase /\ phase' # "whole" /\ (phase' \in Ended => pending' = {})
        /\ phase \notin Ended
    BY <1>2, <2>1 DEF AfterAsking, Phase, Ended
  <2>4. /\ inside \subseteq Ranges
        /\ \A p \in inside : Clean(p, more) /\ DaysIn(p) \subseteq DaysIn(r)
        /\ \A p, q \in inside : p # q => Apart(p, q)
    BY <1>2, CleanRangesAreApart
  <2> HIDE DEF more, inside
  <2>5. ASSUME NEW p \in pending'
        PROVE  Clean(p, refused')
    <3>1. CASE p \in inside
      BY <2>1, <2>4, <3>1 DEF SearchInv, Clean
    <3>2. CASE p \in pending /\ p # r
      BY <2>1, <2>2, <3>2 DEF SearchInv, Clean, Apart
    <3> QED
      BY <2>1, <3>1, <3>2
  <2>6. ASSUME NEW p \in pending', NEW q \in pending', p # q
        PROVE  Apart(p, q)
    <3>1. CASE p \in inside /\ q \in inside
      BY <2>4, <2>6, <3>1
    <3>2. CASE p \in inside /\ q \in pending \ {r}
      BY <2>4, <3>2 DEF SearchInv, Apart
    <3>3. CASE p \in pending \ {r} /\ q \in inside
      BY <2>4, <3>3 DEF SearchInv, Apart
    <3>4. CASE p \in pending \ {r} /\ q \in pending \ {r}
      BY <2>6, <3>4 DEF SearchInv
    <3> QED
      BY <2>1, <3>1, <3>2, <3>3, <3>4
  <2>7. ASSUME NEW p \in pending', NEW q \in answered'
        PROVE  Apart(p, q)
    BY <1>2, <2>1, <2>4 DEF SearchInv, Apart
  <2>8. ASSUME NEW q \in asked'
        PROVE  q \in answered' \/ ~Clean(q, refused')
    <3>1. CASE q = r
      BY <2>1, <2>2, <3>1 DEF Clean
    <3>2. CASE q \in asked
      BY <1>2, <2>1, <2>3, <3>2 DEF SearchInv, Clean
    <3> QED
      BY <1>2, <3>1, <3>2
  <2>9. /\ pending' \subseteq Ranges /\ refused' \subseteq Trading /\ answered' \subseteq asked'
    BY <1>2, <2>1, <2>2, <2>4 DEF SearchInv
  <2> QED
    BY <2>3, <2>5, <2>6, <2>7, <2>8, <2>9 DEF SearchInv
<1> QED
  BY <1>3, <1>4

-----------------------------------------------------------------------------
\* Nothing is asked before the first step.
LEMMA InitSearch == Init => SearchInv
  BY DEF Init, SearchInv, Phase, Ended

\* Every step keeps what relates the ranges to each other.
LEMMA NextSearch ==
    ASSUME NoHolidayNamed, SearchInv, [Next]_vars
    PROVE  SearchInv'
<1>1. CASE WholeAnswered
  <2>1. /\ phase = "whole" /\ phase' = "fetched" /\ answered' = {Whole} /\ asked' = {Whole}
        /\ pending' = {} /\ refused' = refused
    BY <1>1 DEF WholeAnswered, SearchInv
  <2> QED
    BY <2>1 DEF SearchInv, Phase, Ended
<1>2. CASE WholeRefused
  BY <1>2, WholeRefusedKeeps
<1>3. CASE History
  <2>1. /\ phase = "history" /\ phase' = (IF pending = {} THEN "fetched" ELSE "around")
        /\ UNCHANGED <<pending, refused, answered, asked>>
    BY <1>3 DEF History
  <2> QED
    BY <2>1 DEF SearchInv, Phase, Ended
<1>4. ASSUME NEW r \in pending, RangeAnswered(r)
      PROVE  SearchInv'
  BY <1>4, RangeAnsweredKeeps
<1>5. ASSUME NEW r \in pending, RangeRefused(r)
      PROVE  SearchInv'
  BY <1>5, RangeRefusedKeeps
<1>6. CASE Unserved
  BY <1>6 DEF Unserved, SearchInv, Phase, Ended
<1>7. CASE Failed
  BY <1>7 DEF Failed, SearchInv, Phase, Ended
<1>8. CASE UNCHANGED vars
  BY <1>8 DEF vars, SearchInv, Clean, Apart
<1> QED
  BY <1>1, <1>2, <1>3, <1>4, <1>5, <1>6, <1>7, <1>8 DEF Next

\* A pending range has not been asked: it holds a day, no refused one, and no answered one.
LEMMA SearchAsksOnce ==
    ASSUME SearchInv
    PROVE  NoRangeAskedTwice
<1>1. ASSUME NEW r \in pending, r \in asked
      PROVE  FALSE
  <2>1. r[1] \in DaysIn(r)
    BY InRange DEF SearchInv
  <2>2. r \in answered
    BY <1>1 DEF SearchInv
  <2> QED
    BY <2>1, <2>2 DEF SearchInv, Apart
<1> QED
  BY <1>1 DEF NoRangeAskedTwice, SearchInv

\* A run that may not start is one that fails.
LEMMA RunFetches ==
    ASSUME SearchInv, [BacktestNext]_<<vars, window>>
    PROVE  [Next]_vars
<1>1. CASE RefuseStart
  BY <1>1 DEF RefuseStart, SearchInv, Next, Failed
<1>2. CASE Fetch
  BY <1>2 DEF Fetch
<1>3. CASE LookBack
  BY <1>3 DEF LookBack
<1>4. CASE UNCHANGED <<vars, window>>
  BY <1>4
<1> QED
  BY <1>1, <1>2, <1>3, <1>4 DEF BacktestNext

\* "No range is ever asked twice: nothing is retried", whatever the window and the source's
\* answers, as long as a refusal names no holiday of the window.
THEOREM RangesAskedOnce ==
    ASSUME NoHolidayNamed
    PROVE  /\ Spec => []NoRangeAskedTwice
           /\ BacktestSpec => []NoRangeAskedTwice
<1>1. SearchInv /\ [Next]_vars => SearchInv'
  BY NextSearch
<1>2. Spec => []NoRangeAskedTwice
  BY <1>1, InitSearch, SearchAsksOnce, PTL DEF Spec
<1>3. SearchInv /\ [BacktestNext]_<<vars, window>> => SearchInv'
  BY <1>1, RunFetches
<1>4. BacktestInit => SearchInv
  BY InitSearch DEF BacktestInit
<1>5. BacktestSpec => []NoRangeAskedTwice
  BY <1>3, <1>4, SearchAsksOnce, PTL DEF BacktestSpec
<1> QED
  BY <1>2, <1>5

-----------------------------------------------------------------------------
(* What was found: every trading day is refused, still to be asked for, or *)
(* answered.                                                               *)

Decided(d) == d \in refused \/ \E r \in pending \union answered : d \in DaysIn(r)

FoundInv ==
    /\ answered \subseteq Ranges
    /\ \A r \in answered : Clean(r, refused)
    /\ \A r, q \in answered : r # q => Apart(r, q)
    /\ \A d \in bars : \E r \in answered : d \in DaysIn(r)
    /\ phase \in {"history", "around", "fetched"} => \A d \in Trading : Decided(d)
    /\ phase = "whole" => bars = {} /\ refused = {} /\ complete
    /\ phase = "unserved" => bars = {} /\ answered = {} /\ refused = Trading /\ ~complete
    /\ phase \in {"history", "around"} \/ ~complete => refused # {}
    /\ complete \in BOOLEAN

\* The lists of the universe, and what was asked of the days before the window.
WindowInv ==
    /\ DOMAIN lists \subseteq Effective /\ DOMAIN lists # {}
    /\ phase \notin {"whole", "stopped"} => Covered
    /\ lookback \in {"open", "not needed", "read", "refused"}
    /\ lookback # "open" => phase = "fetched"

\* Whatever is not refused of a range is in one of its clean ranges: the one from the earliest
\* day to the latest that a clean range may have around it.
LEMMA CleanRangesCover ==
    ASSUME NEW within \in Ranges, NEW days, NEW d \in DaysIn(within), d \notin days
    PROVE  \E r \in CleanRanges(within, days) : d \in DaysIn(r)
<1>1. Trading \subseteq 1..LastDay /\ LastDay \in Nat /\ \A t \in Trading : t \in Nat
  BY FetchConstants DEF Window
<1>2. /\ within[1] \in Int /\ within[2] \in Int
      /\ d \in Trading /\ d \in Nat /\ within[1] <= d /\ d <= within[2]
  <2>1. within[1] \in Trading /\ within[2] \in Trading
    BY DEF Ranges
  <2>2. d \in Trading /\ d \in within[1]..within[2]
    BY DEF DaysIn
  <2>3. within[1] \in Nat /\ within[2] \in Nat /\ d \in Nat
    BY <1>1, <2>1, <2>2
  <2> QED
    BY <2>2, <2>3
<1> DEFINE Firsts == {a \in Trading : within[1] <= a /\ a <= d /\ Clean(<<a, d>>, days)}
<1>3. d \in Firsts
  BY <1>1, <1>2 DEF Clean, DaysIn
<1>4. PICK a \in Firsts : \A b \in Firsts : a <= b
  <2>1. Firsts \subseteq Trading /\ Trading \subseteq Nat /\ Firsts # {}
    BY <1>1, <1>3
  <2> HIDE DEF Firsts
  <2> QED
    BY <2>1, Least
<1> DEFINE Lasts == {b \in Trading : d <= b /\ b <= within[2] /\ Clean(<<a, b>>, days)}
<1>5. d \in Lasts
  BY <1>2, <1>4
<1>6. PICK b \in Lasts : \A e \in Lasts : e <= b
  <2>1. Lasts \subseteq Trading /\ Trading \subseteq 0..LastDay /\ Lasts # {}
    BY <1>1, <1>5
  <2> HIDE DEF Lasts
  <2> QED
    BY <1>1, <2>1, Greatest
<1> DEFINE r == <<a, b>>
<1>7. /\ a \in Trading /\ b \in Trading /\ a \in Nat /\ b \in Nat /\ within[1] <= a /\ b <= within[2]
      /\ a <= d /\ d <= b /\ Clean(r, days)
  BY <1>1, <1>4, <1>6
<1>8. r \in Ranges /\ d \in DaysIn(r)
  BY <1>1, <1>2, <1>7 DEF Ranges, DaysIn
<1>9. ASSUME NEW q \in Ranges, within[1] <= q[1], q[2] <= within[2], Clean(q, days),
             q[1] <= a, b <= q[2]
      PROVE  q = r
  <2>1. /\ q[1] \in Trading /\ q[2] \in Trading /\ q[1] \in Nat /\ q[2] \in Nat /\ q = <<q[1], q[2]>>
    <3>1. q \in Trading \X Trading
      BY <1>9 DEF Ranges
    <3>2. q[1] \in Trading /\ q[2] \in Trading /\ q = <<q[1], q[2]>>
      BY <3>1
    <3> QED
      BY <1>1, <3>2
  <2>2. DaysIn(<<q[1], d>>) \subseteq DaysIn(q) /\ DaysIn(<<q[1], q[2]>>) \subseteq DaysIn(q)
    BY <1>1, <1>2, <1>7, <1>9, <2>1 DEF DaysIn
  <2>3. q[1] \in Firsts
    BY <1>2, <1>7, <1>9, <2>1, <2>2 DEF Clean
  <2>4. q[1] = a
    BY <1>4, <1>7, <1>9, <2>1, <2>3
  <2>5. q[2] \in Lasts
    BY <1>2, <1>7, <1>9, <2>1, <2>2, <2>4 DEF Clean
  <2>6. q[2] = b
    BY <1>6, <1>7, <1>9, <2>1, <2>5
  <2> QED
    BY <2>1, <2>4, <2>6
<1>10. r \in CleanRanges(within, days)
  <2>1. r[1] = a /\ r[2] = b
    OBVIOUS
  <2> HIDE DEF r
  <2> QED
    BY <1>7, <1>8, <1>9, <2>1 DEF CleanRanges
<1> QED
  BY <1>8, <1>10

\* Before the first step nothing is refused, asked or answered.
LEMMA InitFound == Init => FoundInv
  BY DEF Init, FoundInv

\* Every step decides all it takes from the pending ranges.
LEMMA NextFound ==
    ASSUME NoHolidayNamed, SearchInv, FoundInv, [Next]_vars
    PROVE  FoundInv'
<1>1. CASE WholeAnswered
  <2>1. /\ phase = "whole" /\ phase' = "fetched" /\ answered' = {Whole} /\ pending' = {}
        /\ refused' = {} /\ complete' = TRUE /\ bars' \subseteq Trading
    BY <1>1 DEF WholeAnswered, SearchInv, FoundInv
  <2>2. Whole \in Ranges /\ DaysIn(Whole) = Trading
    BY WholeIsARange
  <2> QED
    BY <2>1, <2>2 DEF FoundInv, Clean, Decided
<1>2. CASE WholeRefused
  <2>1. PICK days \in Refusal :
          /\ phase' = IF Named(days) = {} THEN "stopped" ELSE "history"
          /\ refused' = Named(days)
          /\ pending' = IF Named(days) = {} THEN {} ELSE CleanRanges(Whole, Named(days))
    BY <1>2 DEF WholeRefused
  <2>2. /\ answered' = {} /\ bars' = {} /\ complete' = TRUE
    BY <1>2 DEF WholeRefused, SearchInv, FoundInv
  <2>3. CASE Named(days) = {}
    BY <2>1, <2>2, <2>3 DEF FoundInv
  <2>4. CASE Named(days) # {}
    <3>1. phase' = "history" /\ refused' # {} /\ pending' = CleanRanges(Whole, refused')
      BY <2>1, <2>4
    <3>2. ASSUME NEW d \in Trading, d \notin refused'
          PROVE  \E r \in pending' : d \in DaysIn(r)
      BY <3>1, <3>2, WholeIsARange, CleanRangesCover
    <3>3. \A d \in Trading : Decided(d)'
      BY <3>2 DEF Decided
    <3> QED
      BY <2>2, <3>1, <3>3 DEF FoundInv
  <2> QED
    BY <2>3, <2>4
<1>3. CASE History
  <2>1. /\ phase = "history" /\ phase' = (IF pending = {} THEN "fetched" ELSE "around")
        /\ UNCHANGED <<pending, refused, answered, bars>> /\ complete' \in BOOLEAN
    BY <1>3 DEF History
  <2>2. phase' \in {"fetched", "around"}
    BY <2>1
  <2> QED
    BY <2>1, <2>2 DEF FoundInv, Decided, Clean, Apart
<1>4. ASSUME NEW r \in pending, RangeAnswered(r)
      PROVE  FoundInv'
  <2>1. /\ phase = "around" /\ pending' = pending \ {r} /\ refused' = refused
        /\ answered' = answered \union {r} /\ complete' = complete
        /\ phase' = AfterAsking(pending')
    BY <1>4 DEF RangeAnswered
  <2>2. PICK found \in SUBSET DaysIn(r) : bars' = bars \union found
    BY <1>4 DEF RangeAnswered
  <2>3. phase' \in {"fetched", "around"} /\ r \in Ranges /\ Clean(r, refused)
    BY <2>1 DEF AfterAsking, SearchInv
  <2>4. pending' \union answered' = pending \union answered
    BY <2>1
  <2>5. \A d \in Trading : Decided(d)'
    BY <2>1, <2>4 DEF FoundInv, Decided
  <2>6. \A d \in bars' : \E q \in answered' : d \in DaysIn(q)
    BY <2>1, <2>2 DEF FoundInv
  <2>7. \A p, q \in answered' : p # q => Apart(p, q)
    BY <2>1 DEF FoundInv, SearchInv, Apart
  <2>8. refused # {}
    BY <2>1 DEF FoundInv
  <2>9. answered' \subseteq Ranges /\ \A q \in answered' : Clean(q, refused')
    BY <2>1, <2>3 DEF FoundInv
  <2> QED
    BY <2>1, <2>3, <2>5, <2>6, <2>7, <2>8, <2>9 DEF FoundInv
<1>5. ASSUME NEW r \in pending, RangeRefused(r)
      PROVE  FoundInv'
  <2>1. PICK days \in Refusal :
          IF More(r, days) = {}
          THEN phase' = "stopped" /\ pending' = {} /\ UNCHANGED refused
          ELSE /\ refused' = refused \union More(r, days)
               /\ pending' = (pending \ {r}) \union Inside(r, More(r, days))
               /\ phase' = AfterAsking(pending')
    BY <1>5 DEF RangeRefused
  <2>2. phase = "around" /\ UNCHANGED <<answered, bars, complete>> /\ r \in Ranges /\ refused # {}
    BY <1>5 DEF RangeRefused, SearchInv, FoundInv
  <2>3. CASE More(r, days) = {}
    BY <2>1, <2>2, <2>3 DEF FoundInv, Clean, Apart
  <2>4. CASE More(r, days) # {}
    <3> DEFINE more == More(r, days)
    <3>1. /\ refused' = refused \union more /\ pending' = (pending \ {r}) \union CleanRanges(r, more)
          /\ phase' = AfterAsking(pending') /\ more \subseteq DaysIn(r)
      BY <2>1, <2>4 DEF Inside, More
    <3> HIDE DEF more
    <3>2. phase' \in {"fetched", "around"}
      BY <3>1 DEF AfterAsking
    <3>3. ASSUME NEW d \in Trading PROVE Decided(d)'
      <4>1. Decided(d)
        BY <2>2 DEF FoundInv
      <4>2. CASE d \in refused
        BY <3>1, <4>2 DEF Decided
      <4>3. ASSUME NEW q \in pending \union answered, q # r, d \in DaysIn(q) PROVE Decided(d)'
        BY <2>2, <3>1, <4>3 DEF Decided
      <4>4. CASE d \in DaysIn(r) /\ d \in more
        BY <3>1, <4>4 DEF Decided
      <4>5. CASE d \in DaysIn(r) /\ d \notin more
        <5>1. PICK q \in CleanRanges(r, more) : d \in DaysIn(q)
          BY <2>2, <4>5, CleanRangesCover
        <5> QED
          BY <3>1, <5>1 DEF Decided
      <4> QED
        BY <4>1, <4>2, <4>3, <4>4, <4>5 DEF Decided
    <3>4. \A q \in answered' : Clean(q, refused')
      <4>1. \A q \in answered : Apart(r, q) /\ Clean(q, refused)
        BY DEF SearchInv, FoundInv
      <4> QED
        BY <2>2, <3>1, <4>1 DEF Clean, Apart
    <3>5. \A p, q \in answered' : p # q => Apart(p, q)
      BY <2>2 DEF FoundInv, Apart
    <3> QED
      BY <2>2, <3>1, <3>2, <3>3, <3>4, <3>5 DEF FoundInv
  <2> QED
    BY <2>3, <2>4
<1>6. CASE Unserved
  <2>1. /\ phase' = "unserved" /\ refused' = Trading /\ answered' = {} /\ bars' = {} /\ complete' = FALSE
    BY <1>6 DEF Unserved
  <2>2. Trading # {}
    BY FetchConstants
  <2> QED
    BY <2>1, <2>2 DEF FoundInv
<1>7. CASE Failed
  <2>1. phase' = "stopped" /\ UNCHANGED <<refused, answered, bars, complete>>
    BY <1>7 DEF Failed
  <2> QED
    BY <2>1 DEF FoundInv, Clean, Apart
<1>8. CASE UNCHANGED vars
  BY <1>8 DEF vars, FoundInv, Decided, Clean, Apart
<1> QED
  BY <1>1, <1>2, <1>3, <1>4, <1>5, <1>6, <1>7, <1>8 DEF Next

\* A fetch goes on only for a window that the lists cover, and the look-back is the last of it.
LEMMA InitWindow == BacktestInit => WindowInv
<1> SUFFICES ASSUME BacktestInit PROVE WindowInv
  OBVIOUS
<1>1. PICK effective \in (SUBSET Effective) \ {{}} : lists \in [effective -> BOOLEAN]
  BY DEF BacktestInit
<1>2. DOMAIN lists = effective
  BY <1>1
<1> QED
  BY <1>2 DEF BacktestInit, Init, WindowInv

LEMMA NextWindow ==
    ASSUME SearchInv, WindowInv, [BacktestNext]_<<vars, window>>
    PROVE  WindowInv'
<1>1. CASE RefuseStart
  BY <1>1 DEF RefuseStart, window, WindowInv
<1>2. CASE Fetch
  <2>1. Covered /\ lists' = lists /\ lookback' = lookback /\ Next
    BY <1>2 DEF Fetch, window
  <2>2. Covered' /\ DOMAIN lists' = DOMAIN lists
    BY <2>1 DEF Covered, FirstDay
  <2>3. phase # "fetched"
    <3>1. CASE WholeAnswered \/ WholeRefused \/ History
      BY <3>1 DEF WholeAnswered, WholeRefused, History
    <3>2. CASE \E r \in pending : RangeAnswered(r) \/ RangeRefused(r)
      BY <3>2 DEF RangeAnswered, RangeRefused
    <3>3. CASE Unserved \/ Failed
      BY <3>3 DEF Unserved, Failed, Ended
    <3> QED
      BY <2>1, <3>1, <3>2, <3>3 DEF Next
  <2> QED
    BY <2>1, <2>2, <2>3 DEF WindowInv
<1>3. CASE LookBack
  BY <1>3 DEF LookBack, vars, WindowInv, Covered, FirstDay
<1>4. CASE UNCHANGED <<vars, window>>
  BY <1>4 DEF vars, window, WindowInv, Covered, FirstDay
<1> QED
  BY <1>1, <1>2, <1>3, <1>4 DEF BacktestNext

-----------------------------------------------------------------------------
(* The universe.                                                           *)

\* A missing list is warned of exactly when a day of the window uses the list before it.
LEMMA WarnedWhenUsed ==
    ASSUME WindowInv, Covered
    PROVE  Warned = {gap \in Gaps : \E d \in Window : InForce(d) = gap[1]}
<1> DEFINE Before(d) == {e \in DOMAIN lists : e <= d}
<1>1. /\ DOMAIN lists \subseteq Int /\ IsFiniteSet(DOMAIN lists) /\ DOMAIN lists # {}
      /\ LastDay \in Nat \ {0}
  BY BacktestConstants, FetchConstants, FS_Subset DEF WindowInv
<1>2. \E e \in DOMAIN lists : e <= 1
  <2>1. Min(DOMAIN lists) \in DOMAIN lists
    BY <1>1, Extremes
  <2> QED
    BY <2>1 DEF Covered, FirstDay
<1>3. ASSUME NEW d \in Window PROVE InForce(d) \in Before(d) /\ \A e \in Before(d) : e <= InForce(d)
  <2>1. Before(d) \in SUBSET (DOMAIN lists)
    OBVIOUS
  <2>2. Before(d) # {}
    <3>1. PICK e \in DOMAIN lists : e <= 1
      BY <1>2
    <3>2. e \in Int /\ d \in Int /\ 1 <= d
      BY <1>1 DEF Window
    <3> QED
      BY <3>1, <3>2
  <2>3. IsFiniteSet(Before(d)) /\ Before(d) \subseteq Int
    BY <1>1, <2>1, FS_Subset
  <2>4. InForce(d) = Max(Before(d))
    BY DEF InForce
  <2> HIDE DEF Before
  <2> QED
    BY <2>2, <2>3, <2>4, Extremes
<1>4. ASSUME NEW gap \in Gaps
      PROVE  gap \in Warned <=> \E d \in Window : InForce(d) = gap[1]
  <2> DEFINE e == gap[1]
             l == gap[2]
  <2>1. /\ e \in DOMAIN lists /\ l \in DOMAIN lists /\ e \in Int /\ l \in Int /\ e < l
        /\ \A b \in DOMAIN lists : ~(e < b /\ b < l)
    BY <1>1 DEF Gaps
  <2>2. gap \in Warned <=> 1 < l /\ e <= LastDay
    BY <1>4 DEF Warned
  <2> HIDE DEF e, l
  <2>3. ASSUME 1 < l, e <= LastDay PROVE \E d \in Window : InForce(d) = e
    <3> DEFINE d == IF 1 <= e THEN e ELSE 1
    <3>1. d \in Window /\ d \in Int /\ e <= d /\ d < l
      BY <1>1, <2>1, <2>3 DEF Window
    <3> HIDE DEF d
    <3>2. e \in Before(d)
      BY <2>1, <3>1
    <3>3. InForce(d) \in DOMAIN lists /\ InForce(d) <= d /\ e <= InForce(d) /\ InForce(d) \in Int
      BY <1>1, <1>3, <3>1, <3>2
    <3>4. InForce(d) = e
      BY <2>1, <3>1, <3>3
    <3> QED
      BY <3>1, <3>4
  <2>4. ASSUME NEW d \in Window, InForce(d) = e PROVE 1 < l /\ e <= LastDay
    <3>1. d \in Int /\ 1 <= d /\ d <= LastDay
      BY <1>1 DEF Window
    <3>2. e <= d /\ \A b \in Before(d) : b <= e
      BY <1>3, <2>4
    <3>3. ~(l <= d)
      BY <2>1, <3>2
    <3> QED
      BY <1>1, <2>1, <3>1, <3>2, <3>3
  <2> QED
    BY <2>2, <2>3, <2>4 DEF e
<1>5. Warned \subseteq Gaps
  BY DEF Warned
<1> QED
  BY <1>4, <1>5

-----------------------------------------------------------------------------
(* The spans a warning names.                                              *)

\* No trading day is between two whose places are one apart.
LEMMA NextPlace ==
    ASSUME NEW last \in Trading, NEW d \in Trading, Place(d) = Place(last) + 1
    PROVE  last < d /\ \A t \in Trading : t <= last \/ d <= t
<1> DEFINE Before(e) == {t \in Trading : t < e}
<1>1. /\ IsFiniteSet(Trading) /\ \A t \in Trading : t \in Int
  <2>1. Trading \subseteq 1..LastDay /\ LastDay \in Int
    BY FetchConstants DEF Window
  <2>2. IsFiniteSet(1..LastDay)
    BY <2>1, FS_Interval
  <2>3. IsFiniteSet(Trading)
    BY <2>1, <2>2, FS_Subset
  <2> QED
    BY <2>1, <2>3
<1>2. \A e \in Trading : IsFiniteSet(Before(e)) /\ Cardinality(Before(e)) \in Nat
  <2>1. \A e \in Trading : Before(e) \in SUBSET Trading
    OBVIOUS
  <2> HIDE DEF Before
  <2> QED
    BY <1>1, <2>1, FS_Subset, FS_CardinalityType
<1>3. Cardinality(Before(d)) = Cardinality(Before(last)) + 1
  BY DEF Place
<1>4. last < d
  <2>1. ASSUME d <= last PROVE FALSE
    <3>1. Before(d) \in SUBSET Before(last)
      BY <1>1, <2>1
    <3> HIDE DEF Before
    <3>2. Cardinality(Before(d)) <= Cardinality(Before(last))
      BY <1>2, <3>1, FS_Subset
    <3> QED
      BY <1>2, <1>3, <3>2
  <2> QED
    BY <1>1, <2>1
<1>5. Before(d) = Before(last) \union {last}
  <2>1. Before(last) \union {last} \in SUBSET Before(d) /\ last \notin Before(last)
    BY <1>1, <1>4
  <2> HIDE DEF Before
  <2>2. Cardinality(Before(last) \union {last}) = Cardinality(Before(last)) + 1
    BY <1>2, <2>1, FS_AddElement
  <2> QED
    BY <1>2, <1>3, <2>1, <2>2, FS_Subset
<1>6. ASSUME NEW t \in Trading, ~(d <= t) PROVE t <= last
  <2>1. t \in Before(d)
    BY <1>1, <1>6
  <2> QED
    BY <1>1, <1>5, <2>1
<1> QED
  BY <1>4, <1>6

\* The spans of the days up to d hold the refused ones among them, and end with one.
Shown(spans, d) ==
    /\ spans \in Seq(Seq(Int))
    /\ \A i \in 1..Len(spans) : spans[i] # <<>> /\ spans[i][1] <= Last(spans[i]) /\ Last(spans[i]) <= d
    /\ \A t \in Trading : (t \in refused /\ t <= d)
                            <=> \E i \in 1..Len(spans) : spans[i][1] <= t /\ t <= Last(spans[i])
    /\ spans # <<>> => Last(Last(spans)) \in refused

\* What a day is added to: the last span, or the spans.
LEMMA SpannedIs ==
    ASSUME NEW spans \in Seq(Seq(Int)), NEW d \in Int
    PROVE  LET n == Len(spans)
               more == Spanned(spans, d)
           IN  /\ n \in Nat /\ more \in Seq(Seq(Int))
               /\ \A i \in 1..n - 1 : more[i] = spans[i]
               /\ \/ /\ n > 0 /\ Place(d) = Place(Last(Last(spans))) + 1
                     /\ Len(more) = n /\ more[n] = Append(spans[n], d)
                  \/ Len(more) = n + 1 /\ more[n + 1] = <<d>> /\ (n > 0 => more[n] = spans[n])
<1> DEFINE n == Len(spans)
           more == Spanned(spans, d)
<1>1. n \in Nat /\ DOMAIN spans = 1..n /\ \A i \in 1..n : spans[i] \in Seq(Int)
  OBVIOUS
<1>2. CASE spans # <<>> /\ Place(d) = Place(Last(Last(spans))) + 1
  <2> DEFINE longer == Append(spans[n], d)
  <2>1. n > 0 /\ n \in 1..n
    BY <1>1, <1>2
  <2>2. more = [spans EXCEPT ![n] = longer]
    BY <1>2 DEF Spanned
  <2>3. longer \in Seq(Int)
    BY <1>1, <2>1
  <2> HIDE DEF more, longer, n
  <2>4. /\ DOMAIN more = 1..n /\ more[n] = longer /\ \A i \in 1..n - 1 : more[i] = spans[i]
        /\ \A i \in 1..n : more[i] \in Seq(Int)
    BY <1>1, <2>1, <2>2, <2>3
  <2>5. more = [i \in 1..n |-> more[i]]
    BY <2>2, <2>4
  <2>6. more \in Seq(Seq(Int)) /\ Len(more) = n
    <3>1. more \in [1..n -> Seq(Int)]
      BY <2>4, <2>5
    <3> QED
      BY <1>1, <3>1
  <2> QED
    BY <1>1, <1>2, <2>1, <2>4, <2>6 DEF more, longer, n
<1>3. CASE ~(spans # <<>> /\ Place(d) = Place(Last(Last(spans))) + 1)
  <2> DEFINE one == <<d>>
  <2>1. more = Append(spans, one) /\ one \in Seq(Int)
    BY <1>3 DEF Spanned
  <2> HIDE DEF more, one
  <2>2. /\ more \in Seq(Seq(Int)) /\ Len(more) = n + 1 /\ more[n + 1] = one
        /\ \A i \in 1..n : more[i] = spans[i]
    BY <2>1
  <2>3. /\ \A i \in 1..n - 1 : i \in 1..n
        /\ n > 0 => n \in 1..n
    BY <1>1
  <2> QED
    BY <1>1, <2>2, <2>3 DEF more, one
<1> QED
  BY <1>2, <1>3

\* The next refused day goes on with the last span, and then no trading day is between, or
\* begins one.
LEMMA SpannedShows ==
    ASSUME refused \subseteq Trading, NEW d \in Nat, d + 1 \in refused, NEW spans, Shown(spans, d)
    PROVE  Shown(Spanned(spans, d + 1), d + 1)
<1> DEFINE n == Len(spans)
           e == d + 1
           more == Spanned(spans, e)
<1>1. /\ spans \in Seq(Seq(Int)) /\ n \in Nat /\ e \in Int /\ e \in Trading /\ e \in refused
      /\ \A t \in Trading : t \in Int
  BY FetchConstants DEF Shown, Window
<1>2. ASSUME NEW i \in 1..n
      PROVE  /\ spans[i] \in Seq(Int) /\ spans[i] # <<>> /\ spans[i][1] \in Int /\ Last(spans[i]) \in Int
             /\ spans[i][1] <= Last(spans[i]) /\ Last(spans[i]) <= d
  <2>1. spans[i] \in Seq(Int) /\ spans[i] # <<>> /\ spans[i][1] <= Last(spans[i]) /\ Last(spans[i]) <= d
    BY <1>1 DEF Shown
  <2>2. Len(spans[i]) \in Nat \ {0} /\ 1 \in 1..Len(spans[i]) /\ Len(spans[i]) \in 1..Len(spans[i])
    BY <2>1
  <2> QED
    BY <2>1, <2>2 DEF Last
<1>3. \A t \in Trading : (t \in refused /\ t <= d)
                           <=> \E i \in 1..n : spans[i][1] <= t /\ t <= Last(spans[i])
  BY DEF Shown
<1>4. \A t \in Trading : t <= e => t <= d \/ t = e
  BY <1>1
<1>5. /\ more \in Seq(Seq(Int)) /\ \A i \in 1..n - 1 : more[i] = spans[i]
      /\ \/ /\ n > 0 /\ Place(e) = Place(Last(Last(spans))) + 1
            /\ Len(more) = n /\ more[n] = Append(spans[n], e)
         \/ Len(more) = n + 1 /\ more[n + 1] = <<e>> /\ (n > 0 => more[n] = spans[n])
  <2> HIDE DEF e
  <2> QED
    BY <1>1, SpannedIs
<1> DEFINE Is(s, first, last) == s # <<>> /\ s[1] = first /\ Last(s) = last
<1>6. CASE /\ n > 0 /\ Place(e) = Place(Last(Last(spans))) + 1
           /\ Len(more) = n /\ more[n] = Append(spans[n], e)
  <2> DEFINE s == spans[n]
             last == Last(s)
  <2>1. n \in 1..n /\ s \in Seq(Int) /\ s # <<>> /\ s[1] \in Int /\ last \in Int /\ s[1] <= last /\ last <= d
    <3>1. n \in 1..n
      BY <1>1, <1>6
    <3> QED
      BY <1>2, <3>1
  <2>2. last \in Trading /\ last \in refused
    <3>1. Last(spans) = s /\ spans # <<>>
      BY <1>1, <1>6 DEF Last
    <3> QED
      BY <3>1 DEF Shown
  <2>3. \A t \in Trading : t <= last \/ e <= t
    <3>1. Last(spans) = s
      BY DEF Last
    <3>2. Place(e) = Place(last) + 1
      BY <1>6, <3>1
    <3> HIDE DEF last, e
    <3> QED
      BY <1>1, <2>2, <3>2, NextPlace
  <2>4. Is(more[n], s[1], e)
    <3>1. Len(s) \in Nat \ {0}
      BY <2>1
    <3>2. more[n] = Append(s, e)
      BY <1>6
    <3> DEFINE longer == more[n]
    <3> HIDE DEF more, s, e
    <3>3. longer # <<>> /\ longer[1] = s[1] /\ Len(longer) = Len(s) + 1 /\ longer[Len(s) + 1] = e
      <4>1. longer = Append(s, e)
        BY <3>2
      <4> HIDE DEF longer
      <4>2. DOMAIN s = 1..Len(s) /\ 1 \in 1..Len(s)
        BY <2>1, <3>1
      <4> QED
        BY <2>1, <3>1, <4>1, <4>2
    <3>4. more[n] # <<>> /\ more[n][1] = s[1] /\ Len(more[n]) = Len(s) + 1 /\ more[n][Len(s) + 1] = e
      BY <3>3
    <3> QED
      BY <3>4 DEF Last
  <2>5. \A i \in 1..n - 1 : i \in 1..n /\ more[i] = spans[i] /\ Last(spans[i]) <= e
    <3>1. \A i \in 1..n - 1 : i \in 1..n
      BY <1>1
    <3>2. \A i \in 1..n : Last(spans[i]) <= e
      BY <1>1, <1>2
    <3> QED
      BY <1>5, <3>1, <3>2
  <2>6. \A i \in 1..n : i = n \/ i \in 1..n - 1
    BY <1>1
  <2> HIDE DEF last, e, more, s
  <2>7. s[1] <= e
    BY <2>1 DEF e
  <2>8. \A i \in 1..n : more[i] # <<>> /\ more[i][1] <= Last(more[i]) /\ Last(more[i]) <= e
    <3>1. e <= e
      BY <1>1
    <3> QED
      BY <1>2, <2>4, <2>5, <2>6, <2>7, <3>1
  <2>9. ASSUME NEW t \in Trading
        PROVE  (t \in refused /\ t <= e) <=> \E i \in 1..n : more[i][1] <= t /\ t <= Last(more[i])
    <3>1. ASSUME t \in refused, t <= e PROVE \E i \in 1..n : more[i][1] <= t /\ t <= Last(more[i])
      <4>1. CASE t = e
        <5>1. more[n][1] <= t /\ t <= Last(more[n])
          BY <1>1, <2>4, <2>7, <4>1
        <5> QED
          BY <2>1, <5>1
      <4>2. CASE t <= d
        <5>1. PICK i \in 1..n : spans[i][1] <= t /\ t <= Last(spans[i])
          BY <1>3, <3>1, <4>2
        <5>2. CASE i = n
          <6>1. s[1] <= t /\ Last(more[n]) = e
            BY <2>4, <5>1, <5>2 DEF s
          <6>2. more[n][1] <= t /\ t <= Last(more[n])
            BY <2>4, <3>1, <6>1
          <6> QED
            BY <2>1, <6>2
        <5>3. CASE i \in 1..n - 1
          BY <2>5, <5>1, <5>3
        <5> QED
          BY <2>6, <5>2, <5>3
      <4> QED
        BY <1>4, <3>1, <4>1, <4>2
    <3>2. ASSUME NEW i \in 1..n, more[i][1] <= t, t <= Last(more[i]) PROVE t \in refused /\ t <= e
      <4>1. CASE i = n
        <5>1. s[1] <= t /\ t <= e
          BY <2>4, <3>2, <4>1
        <5>2. CASE t = e
          BY <1>1, <5>1, <5>2
        <5>3. CASE t <= last
          <6>1. t \in refused /\ t <= d
            BY <1>3, <2>1, <5>1, <5>3 DEF last, s
          <6> QED
            BY <5>1, <6>1
        <5> QED
          BY <1>1, <2>3, <5>1, <5>2, <5>3
      <4>2. CASE i \in 1..n - 1
        <5>1. t \in refused /\ t <= d
          BY <1>3, <2>5, <3>2, <4>2
        <5> QED
          BY <1>1, <5>1 DEF e
      <4> QED
        BY <2>6, <4>1, <4>2
    <3> QED
      BY <3>1, <3>2
  <2>10. more # <<>> /\ Last(Last(more)) = e
    <3>1. Last(more) = more[n] /\ more # <<>>
      BY <1>5, <1>6, <2>1 DEF Last
    <3> QED
      BY <2>4, <3>1
  <2>11. Len(more) = n
    BY <1>6
  <2> HIDE DEF n
  <2>12. Shown(more, e)
    BY <1>1, <1>5, <2>8, <2>9, <2>10, <2>11 DEF Shown
  <2> QED
    BY <2>12 DEF more, e
<1>7. CASE Len(more) = n + 1 /\ more[n + 1] = <<e>> /\ (n > 0 => more[n] = spans[n])
  <2>1. \A i \in 1..n : more[i] = spans[i]
    <3>1. \A i \in 1..n : i \in 1..n - 1 \/ (i = n /\ n > 0)
      BY <1>1
    <3> HIDE DEF more
    <3> QED
      BY <1>5, <1>7, <3>1
  <2>2. Is(more[n + 1], e, e)
    <3> DEFINE one == <<e>>
    <3>1. one # <<>> /\ one[1] = e /\ Last(one) = e
      BY DEF Last
    <3>2. more[n + 1] = one
      BY <1>7
    <3> HIDE DEF one, more
    <3> QED
      BY <3>1, <3>2
  <2>3. /\ \A i \in 1..n + 1 : i \in 1..n \/ i = n + 1
        /\ n + 1 \in 1..n + 1 /\ \A i \in 1..n : i \in 1..n + 1
        /\ d <= e /\ e <= e
    BY <1>1
  <2>4. more # <<>> /\ Last(Last(more)) = e
    <3>1. Last(more) = more[n + 1] /\ more # <<>>
      BY <1>1, <1>5, <1>7 DEF Last
    <3> QED
      BY <2>2, <3>1
  <2>5. Len(more) = n + 1
    BY <1>7
  <2>6. \A i \in 1..n : Last(spans[i]) <= e
    BY <1>1, <1>2
  <2> HIDE DEF e, more
  <2>7. \A i \in 1..n + 1 : more[i] # <<>> /\ more[i][1] <= Last(more[i]) /\ Last(more[i]) <= e
    BY <1>2, <2>1, <2>2, <2>3, <2>6
  <2>8. ASSUME NEW t \in Trading
        PROVE  (t \in refused /\ t <= e) <=> \E i \in 1..n + 1 : more[i][1] <= t /\ t <= Last(more[i])
    <3>1. ASSUME t \in refused, t <= e PROVE \E i \in 1..n + 1 : more[i][1] <= t /\ t <= Last(more[i])
      <4>1. CASE t = e
        <5>1. more[n + 1][1] <= t /\ t <= Last(more[n + 1])
          BY <2>2, <2>3, <4>1
        <5> QED
          BY <2>3, <5>1
      <4>2. CASE t <= d
        <5>1. PICK i \in 1..n : spans[i][1] <= t /\ t <= Last(spans[i])
          BY <1>3, <3>1, <4>2
        <5> QED
          BY <2>1, <2>3, <5>1
      <4> QED
        BY <1>4, <3>1, <4>1, <4>2
    <3>2. ASSUME NEW i \in 1..n + 1, more[i][1] <= t, t <= Last(more[i]) PROVE t \in refused /\ t <= e
      <4>1. CASE i = n + 1
        <5>1. t = e
          BY <1>1, <2>2, <3>2, <4>1
        <5> QED
          BY <1>1, <2>3, <5>1
      <4>2. CASE i \in 1..n
        <5>1. t \in refused /\ t <= d
          BY <1>3, <2>1, <3>2, <4>2
        <5> QED
          BY <1>1, <5>1 DEF e
      <4> QED
        BY <2>3, <4>1, <4>2
    <3> QED
      BY <3>1, <3>2
  <2> HIDE DEF n
  <2>9. Shown(more, e)
    BY <1>1, <1>5, <2>4, <2>5, <2>7, <2>8 DEF Shown
  <2> QED
    BY <2>9 DEF more, e
<1> QED
  BY <1>5, <1>6, <1>7

\* Day by day, the spans of the whole window are the refused days.
LEMMA SpansAreRefused ==
    ASSUME refused \subseteq Trading
    PROVE  /\ refused = UNION {Trading \intersect Spans[i][1]..Last(Spans[i]) : i \in DOMAIN Spans}
           /\ Spans # <<>> <=> refused # {}
<1> DEFINE n == LastDay
           V == Seq(Seq(Int))
           Goes(d, spans) == IF d \in refused THEN Spanned(spans, d) ELSE spans
           Is(g) == g = [d \in 0..n |-> IF d = 0 THEN <<>> ELSE Goes(d, g[d - 1])]
           upTo == CHOOSE g : Is(g)
           none == <<>>
<1>1. n \in Nat /\ \A t \in Trading : t \in 1..n
  BY FetchConstants DEF Window
<1>2. \A d \in 1..n, spans \in V : Goes(d, spans) \in V
  <2>1. \A d \in 1..n : d \in Int
    OBVIOUS
  <2> QED
    BY <2>1, SpannedIs
<1> HIDE DEF Goes
<1>3. \E g : Is(g)
  <2> DEFINE F == [p \in (1..n) \X V |-> Goes(p[1], p[2])]
  <2>1. F \in [(1..n) \X V -> V] /\ none \in V
    <3>1. none \in V
      OBVIOUS
    <3> HIDE DEF V
    <3> QED
      BY <1>2, <3>1
  <2>2. \A d \in 1..n, spans \in V : F[<<d, spans>>] = Goes(d, spans)
    <3> HIDE DEF V
    <3> QED
      OBVIOUS
  <2> HIDE DEF F, V, n, none
  <2>3. PICK g : Steps(g, n, V, none, F)
    BY <1>1, <2>1, StepByStep
  <2>4. \A d \in 0..n : d # 0 => d \in 1..n /\ g[d - 1] \in V
    BY <1>1, <2>3 DEF Steps
  <2>5. \A d \in 0..n : g[d] = IF d = 0 THEN none ELSE Goes(d, g[d - 1])
    BY <2>2, <2>3, <2>4 DEF Steps
  <2>6. g = [d \in 0..n |-> IF d = 0 THEN none ELSE Goes(d, g[d - 1])]
    BY <2>3, <2>5 DEF Steps
  <2> QED
    BY <2>6 DEF none
<1>4. Is(upTo)
  <2> HIDE DEF Is
  <2> QED
    BY <1>3
<1>5. Spans = upTo[n]
  BY DEF Spans, Goes
<1> HIDE DEF upTo
<1>6. upTo[0] = none /\ \A d \in 1..n : upTo[d] = Goes(d, upTo[d - 1])
  <2> HIDE DEF n
  <2>1. 0 \in 0..n /\ \A d \in 1..n : d \in 0..n /\ d # 0
    BY <1>1
  <2>2. \A d \in 0..n : upTo[d] = IF d = 0 THEN none ELSE Goes(d, upTo[d - 1])
    BY <1>4
  <2> QED
    BY <2>1, <2>2
<1> HIDE DEF Is, V
<1> DEFINE Good == {d \in Nat : d <= n => Shown(upTo[d], d)}
<1>7. 0 \in Good
  <2>1. none \in Seq(Seq(Int)) /\ Len(none) = 0
    OBVIOUS
  <2>2. \A t \in Trading : ~(t <= 0)
    BY <1>1
  <2>3. Shown(none, 0)
    BY <2>1, <2>2 DEF Shown
  <2> HIDE DEF none
  <2> QED
    BY <1>6, <2>3
<1>8. ASSUME NEW d \in Nat, d \in Good PROVE d + 1 \in Good
  <2>1. SUFFICES ASSUME d + 1 <= n PROVE Shown(upTo[d + 1], d + 1)
    OBVIOUS
  <2>2. d + 1 \in 1..n /\ (d + 1) - 1 = d /\ d <= n
    BY <1>1, <2>1
  <2>3. Shown(upTo[d], d) /\ upTo[d + 1] = Goes(d + 1, upTo[d])
    BY <1>6, <1>8, <2>2
  <2>4. CASE d + 1 \in refused
    BY <2>3, <2>4, SpannedShows DEF Goes
  <2>5. CASE d + 1 \notin refused
    <3> DEFINE spans == upTo[d]
    <3>1. upTo[d + 1] = spans /\ Shown(spans, d)
      BY <2>3, <2>5 DEF Goes
    <3> HIDE DEF spans
    <3>2. \A t \in Trading : t \in refused => (t <= d <=> t <= d + 1)
      BY <1>1, <2>5
    <3>3. \A i \in 1..Len(spans) : Last(spans[i]) <= d + 1
      <4> SUFFICES ASSUME NEW i \in 1..Len(spans) PROVE Last(spans[i]) <= d + 1
        OBVIOUS
      <4>1. spans[i] \in Seq(Int) /\ spans[i] # <<>> /\ Last(spans[i]) <= d
        BY <3>1 DEF Shown
      <4>2. Last(spans[i]) \in Int
        <5>1. Len(spans[i]) \in 1..Len(spans[i])
          BY <4>1
        <5> QED
          BY <4>1, <5>1 DEF Last
      <4> QED
        BY <4>1, <4>2
    <3>4. \A t \in Trading : (t \in refused /\ t <= d + 1)
                               <=> \E i \in 1..Len(spans) : spans[i][1] <= t /\ t <= Last(spans[i])
      BY <3>1, <3>2 DEF Shown
    <3> QED
      BY <3>1, <3>3, <3>4 DEF Shown
  <2> QED
    BY <2>4, <2>5
<1>9. n \in Good
  <2> HIDE DEF Good
  <2> QED
    BY <1>1, <1>7, <1>8, Naturals
<1>10. Shown(Spans, n)
  <2>1. n <= n
    BY <1>1
  <2> QED
    BY <1>5, <1>9, <2>1
<1> DEFINE spans == Spans
           m == Len(spans)
<1>11. spans \in Seq(Seq(Int)) /\ m \in Nat /\ DOMAIN spans = 1..m
  BY <1>10 DEF Shown
<1>12. ASSUME NEW i \in 1..m PROVE spans[i][1] \in Int /\ Last(spans[i]) \in Int
  <2>1. spans[i] \in Seq(Int) /\ spans[i] # <<>>
    BY <1>10, <1>11 DEF Shown
  <2>2. 1 \in 1..Len(spans[i]) /\ Len(spans[i]) \in 1..Len(spans[i])
    BY <2>1
  <2> HIDE DEF spans
  <2> QED
    BY <2>1, <2>2 DEF Last
<1>13. \A t \in Trading : t \in refused <=> \E i \in 1..m : spans[i][1] <= t /\ t <= Last(spans[i])
  BY <1>1, <1>10 DEF Shown
<1>14. spans # <<>> => refused # {}
  BY <1>10 DEF Shown
<1>15. spans = <<>> => m = 0
  OBVIOUS
<1> HIDE DEF spans, m
<1>16. \A t \in Trading : t \in Int
  BY <1>1
<1>17. \A t \in Trading, i \in 1..m : t \in spans[i][1]..Last(spans[i]) <=> spans[i][1] <= t /\ t <= Last(spans[i])
  BY <1>12, <1>16
<1>18. refused = UNION {Trading \intersect spans[i][1]..Last(spans[i]) : i \in DOMAIN spans}
  BY <1>11, <1>13, <1>17
<1>19. spans = <<>> => refused = {}
  BY <1>13, <1>15
<1> QED
  BY <1>14, <1>18, <1>19 DEF spans

-----------------------------------------------------------------------------
(* What a day is handed.                                                   *)

\* A fetch that succeeds knows what each trading day is.
LEMMA DaysDecided ==
    ASSUME SearchInv, FoundInv
    PROVE  EveryDayIsDecided
<1> SUFFICES ASSUME phase = "fetched" PROVE EveryDayIsDecided
  BY DEF EveryDayIsDecided
<1>1. pending = {} /\ refused \subseteq Trading
  BY DEF SearchInv, Ended
<1>2. \A r \in answered : DaysIn(r) \intersect refused = {} /\ DaysIn(r) \subseteq Trading
  BY DEF FoundInv, Clean, DaysIn
<1>3. Trading \ refused = UNION {DaysIn(r) : r \in answered}
  <2>1. ASSUME NEW d \in Trading \ refused PROVE \E r \in answered : d \in DaysIn(r)
    BY <1>1 DEF FoundInv, Decided
  <2> QED
    BY <1>2, <2>1
<1>4. \A r, q \in answered : r = q \/ DaysIn(r) \intersect DaysIn(q) = {}
  BY DEF FoundInv, Apart
<1>5. ASSUME NEW d \in bars, ~Resumed(d), NEW p \in LastBefore(d) PROVE p..d \intersect refused = {}
  <2>1. d \in Trading /\ d \notin refused
    <3>1. PICK r \in answered : d \in DaysIn(r)
      BY DEF FoundInv
    <3> QED
      BY <1>2, <3>1
  <2>2. \A t \in Trading : t \in Int
    BY FetchConstants DEF Window
  <2>3. p \in bars /\ p \in Int
    <3>1. p \in bars
      BY DEF LastBefore
    <3>2. PICK r \in answered : p \in DaysIn(r)
      BY <3>1 DEF FoundInv
    <3> QED
      BY <1>2, <2>2, <3>1, <3>2
  <2>4. \A day \in refused : ~(p <= day /\ day < d)
    BY <1>5 DEF Resumed
  <2>5. \A day \in refused : day \in Int /\ day # d
    BY <1>1, <2>1, <2>2
  <2> QED
    BY <2>1, <2>2, <2>3, <2>4, <2>5
<1> QED
  BY <1>3, <1>2, <1>4, <1>5 DEF EveryDayIsDecided

\* And so do the inputs made of it, and the warnings.
LEMMA InputsAreTrue ==
    ASSUME SearchInv, FoundInv, WindowInv
    PROVE  InputsTellTheTruth
<1> SUFFICES ASSUME Ready PROVE InputsTellTheTruth
  BY DEF InputsTellTheTruth
<1>1. /\ phase \in {"fetched", "unserved"} /\ (phase = "fetched" => lookback # "open")
      /\ refused \subseteq Trading /\ EveryDayIsDecided /\ Covered
  BY DaysDecided DEF Ready, SearchInv, WindowInv
<1>2. ASSUME NEW d \in Trading
      PROVE  /\ MayBeHeld(d) => RefusedOn(d) \/ ActionsOn(d)
             /\ RefusedOn(d) => ~ActionsOn(d) /\ d \notin bars /\ ~ResumedOn(d)
  <2>1. CASE phase = "fetched"
    <3>1. d \in refused \/ \E r \in answered : d \in DaysIn(r)
      BY <2>1 DEF FoundInv, SearchInv, Ended, Decided
    <3>2. d \in refused => \A r \in answered : d \notin DaysIn(r)
      BY DEF FoundInv, Clean
    <3>3. d \in refused => d \notin bars
      BY <3>2 DEF FoundInv
    <3> QED
      BY <2>1, <3>1, <3>2, <3>3 DEF RefusedOn, ActionsOn, ResumedOn
  <2>2. CASE phase = "unserved"
    BY <2>2 DEF FoundInv, RefusedOn, ActionsOn, ResumedOn, MayBeHeld, Buyable
  <2> QED
    BY <1>1, <2>1, <2>2
<1>3. ~Incomplete => (IF lookback = "not needed" THEN 1 ELSE Since)..LastDay \subseteq HistoryDays
  <2> SUFFICES ASSUME ~Incomplete
               PROVE  (IF lookback = "not needed" THEN 1 ELSE Since)..LastDay \subseteq HistoryDays
    OBVIOUS
  <2>1. complete /\ phase = "fetched" /\ lookback \in {"not needed", "read"}
    BY <1>1 DEF Incomplete, WindowInv, FoundInv
  <2>2. LastDay \in Nat /\ Since \in Int
    BY FetchConstants, BacktestConstants
  <2>3. CASE lookback = "not needed"
    BY <2>1, <2>3 DEF HistoryDays, Window
  <2>4. CASE lookback = "read"
    <3>1. HistoryDays = (1..LastDay) \union (Since..0)
      BY <2>1, <2>4 DEF HistoryDays, Window
    <3>2. \A d \in Since..LastDay : d \in 1..LastDay \/ d \in Since..0
      BY <2>2
    <3> QED
      BY <2>4, <3>1, <3>2
  <2> QED
    BY <2>1, <2>3, <2>4
<1>4. phase = "fetched" =>
        LET spans == RefusedWarning
        IN  refused = UNION {Trading \intersect spans[i][1]..Last(spans[i]) : i \in DOMAIN spans}
  <2> SUFFICES ASSUME phase = "fetched"
               PROVE  refused = UNION {Trading \intersect RefusedWarning[i][1]..Last(RefusedWarning[i]) :
                                         i \in DOMAIN RefusedWarning}
    OBVIOUS
  <2>1. RefusedWarning = Spans
    BY DEF RefusedWarning
  <2> QED
    BY <1>1, <2>1, SpansAreRefused
<1>5. DataWarnings <=> (Incomplete \/ \E d \in Trading : RefusedOn(d))
  <2>1. CASE phase = "unserved"
    BY <2>1 DEF DataWarnings, UnavailableWarning, Incomplete
  <2>2. CASE phase = "fetched"
    <3>1. DataWarnings <=> (refused # {} \/ lookback = "refused")
      BY <1>1, <2>2, SpansAreRefused DEF DataWarnings, UnavailableWarning, RefusedWarning, HistoryWarning
    <3>2. (\E d \in Trading : RefusedOn(d)) <=> refused # {}
      BY <1>1, <2>2 DEF RefusedOn
    <3>3. ~complete => refused # {}
      BY DEF FoundInv
    <3> QED
      BY <2>2, <3>1, <3>2, <3>3 DEF Incomplete
  <2> QED
    BY <1>1, <2>1, <2>2
<1>6. Warned = {gap \in Gaps : \E d \in Window : InForce(d) = gap[1]}
  BY <1>1, WarnedWhenUsed
<1> QED
  BY <1>1, <1>2, <1>3, <1>4, <1>5, <1>6 DEF InputsTellTheTruth

\* What the engine and the strategy are handed, and what a run is warned of, is what the source
\* and the universe said, for any window, lists and answers of the source, as long as a refusal
\* names no holiday of the window.
THEOREM InputsAreTruthful ==
    ASSUME NoHolidayNamed
    PROVE  BacktestSpec => []InputsTellTheTruth
<1> DEFINE Inv == SearchInv /\ FoundInv /\ WindowInv
<1>1. BacktestInit => Inv
  BY InitSearch, InitFound, InitWindow DEF BacktestInit
<1>2. Inv /\ [BacktestNext]_<<vars, window>> => Inv'
  BY RunFetches, NextSearch, NextFound, NextWindow
<1>3. Inv => InputsTellTheTruth
  BY InputsAreTrue
<1> HIDE DEF Inv
<1> QED
  BY <1>1, <1>2, <1>3, PTL DEF BacktestSpec

-----------------------------------------------------------------------------
(* Rounding what is nearly a whole number.                                 *)

\* To the nearest, also when the half goes to the even: what is less than half off is undone.
LEMMA HalfEvenIs ==
    ASSUME NEW n \in Int, NEW d \in Nat \ {0}, NEW m \in Int,
           2 * n - 2 * (d * m) < d, 2 * (d * m) - 2 * n < d
    PROVE  HalfEven(n, d) = m
  <1> DEFINE q == n \div d
             r == n % d
             D == 2 * d
             N == 2 * n + d
  <1>1. q \in Int /\ r \in 0..d - 1 /\ n = d * q + r
    BY Quotient, Remainder
  <1>2. D \in Nat \ {0} /\ N \in Int /\ D * m = 2 * (d * m) /\ D * (m + 1) = 2 * (d * m) + D /\ d * m \in Int
    OBVIOUS
  <1>3. D * m <= N /\ N < D * (m + 1)
    BY <1>2
  <1>4. Half(n, d) = N \div D
    BY DEF Half
  <1> HIDE DEF D, N
  <1>5. m <= N \div D /\ N \div D < m + 1 /\ N \div D \in Int
    BY <1>2, <1>3, QuotientIsMost, QuotientIsLess, Quotient
  <1>6. Half(n, d) = m
    BY <1>4, <1>5
  <1>7. 2 * r # d
    <2> HIDE DEF q, r
    <2>1. SUFFICES ASSUME 2 * r = d PROVE FALSE
      OBVIOUS
    <2> DEFINE a == d * q
               b == d * m
    <2>2. a \in Int /\ b \in Int /\ a = d * q /\ b = d * m
      BY <1>1
    <2>3. d * (q + 1) = a + d /\ d * (m + 1) = b + d
      BY <1>1
    <2>4. 2 * n = 2 * a + d
      BY <1>1, <2>1, <2>2
    <2>5. 2 * n - 2 * b < d /\ 2 * b - 2 * n < d
      OBVIOUS
    <2> HIDE DEF a, b
    <2>6. a < b /\ b < a + d
      BY <2>2, <2>4, <2>5
    <2>7. q < m
      <3>1. SUFFICES ASSUME m <= q PROVE FALSE
        BY <1>1
      <3>2. d * m <= d * q
        BY <1>1, <3>1, TimesKeepsOrder
      <3> QED
        BY <2>2, <2>6, <3>2
    <2>8. d * (q + 1) <= d * m
      BY <1>1, <2>7, TimesKeepsOrder
    <2> QED
      BY <2>2, <2>3, <2>6, <2>8
  <1> QED
    BY <1>6, <1>7 DEF HalfEven

\* And it is between what bounds the number divided.
LEMMA HalfBetween ==
    ASSUME NEW n \in Int, NEW d \in Nat \ {0}, NEW low \in Int, NEW high \in Int,
           d * low <= n, n <= d * high
    PROVE  Half(n, d) \in low..high
  <1> DEFINE D == 2 * d
             N == 2 * n + d
  <1>1. /\ D \in Nat \ {0} /\ N \in Int /\ d * low \in Int /\ d * high \in Int
        /\ D * low = 2 * (d * low) /\ D * (high + 1) = 2 * (d * high) + D
    OBVIOUS
  <1>2. D * low <= N /\ N < D * (high + 1)
    BY <1>1
  <1>3. Half(n, d) = N \div D
    BY DEF Half
  <1> HIDE DEF D, N
  <1>4. low <= N \div D /\ N \div D < high + 1 /\ N \div D \in Int
    BY <1>1, <1>2, QuotientIsMost, QuotientIsLess, Quotient
  <1> QED
    BY <1>3, <1>4

-----------------------------------------------------------------------------
(* The grid.                                                               *)

\* The tick at a value less than half a rupiah off a valid price divides the price: the value
\* is in the price's tier, or below the tier that begins there.
LEMMA TickNear ==
    ASSUME NEW tiers \in Seq(Tiers), TicksAccepted(tiers), NEW price \in Nat \ {0},
           IsValidPrice(tiers, price), NEW n \in Int, NEW d \in Nat \ {0},
           2 * n - 2 * (d * price) < d, 2 * (d * price) - 2 * n < d
    PROVE  TickAt(tiers, <<n, d>>) \in Nat \ {0} /\ price % TickAt(tiers, <<n, d>>) = 0
  <1> DEFINE below == {i \in DOMAIN tiers : tiers[i].from * d <= n}
             tick == TickAt(tiers, <<n, d>>)
  <1>1. tick = IF below = {} THEN 1 ELSE tiers[Max(below)].tick
    BY DEF TickAt
  <1>2. /\ Len(tiers) \in Nat \ {0} /\ DOMAIN tiers = 1..Len(tiers)
        /\ \A i \in 1..Len(tiers) : tiers[i].from \in Nat \ {0} /\ tiers[i].tick \in Nat \ {0}
        /\ tiers[1].from = 1
    BY TiersBegin
  <1>3. PICK i \in 1..Len(tiers) :
            /\ tiers[i].from <= price
            /\ \A j \in 1..Len(tiers) : j > i => price < tiers[j].from
            /\ Tick(tiers, price) = tiers[i].tick
    BY TierOfPrice
  <1>4. price % tiers[i].tick = 0
    BY <1>3 DEF IsValidPrice
  <1> DEFINE p == d * price
  <1>5. p \in Nat /\ d * (price + 1) = p + d /\ d * (price - 1) = p - d
    OBVIOUS
  <1>6. 2 * n - 2 * p < d /\ 2 * p - 2 * n < d /\ p = d * price
    OBVIOUS
  <1>7. n < p + d /\ p - d < n
    <2> HIDE DEF p
    <2> QED
      BY <1>5, <1>6
  <1> HIDE DEF p, tick, below
  <1>8. ASSUME NEW j \in 1..Len(tiers), price + 1 <= tiers[j].from PROVE j \notin below
    <2> DEFINE f == tiers[j].from
    <2>0. f \in Int /\ price + 1 <= f
      BY <1>2, <1>8
    <2> HIDE DEF f
    <2>1. d * (price + 1) <= d * f /\ f * d = d * f /\ d * f \in Int
      BY <2>0, TimesKeepsOrder
    <2> QED
      BY <1>5, <1>7, <2>1 DEF below, f
  <1>9. ASSUME NEW j \in 1..Len(tiers), tiers[j].from <= price - 1 PROVE j \in below
    <2> DEFINE f == tiers[j].from
    <2>0. f \in Int /\ f <= price - 1
      BY <1>2, <1>9
    <2> HIDE DEF f
    <2>1. d * f <= d * (price - 1) /\ f * d = d * f /\ d * f \in Int
      BY <2>0, TimesKeepsOrder
    <2> QED
      BY <1>2, <1>5, <1>7, <2>1 DEF below, f
  <1>10. below \in SUBSET (1..Len(tiers)) /\ below \in SUBSET Int
    BY <1>2 DEF below
  <1>11. \A j \in below : j <= i
    BY <1>2, <1>3, <1>8, <1>10
  <1>12. CASE i \in below
    <2>1. Max(below) = i
      BY <1>10, <1>11, <1>12, GreatestIs
    <2> QED
      BY <1>1, <1>2, <1>4, <1>12, <2>1 DEF tick
  <1>13. CASE i \notin below
    <2>1. tiers[i].from = price
      BY <1>2, <1>3, <1>9, <1>13
    <2>2. CASE i = 1
      <3>1. below = {}
        BY <1>10, <1>11, <1>13, <2>2
      <3> QED
        BY <1>1, <3>1 DEF tick
    <2>3. CASE i # 1
      <3>1. i - 1 \in 1..Len(tiers) - 1 /\ (i - 1) + 1 = i /\ i - 1 \in 1..Len(tiers)
        BY <1>2, <2>3
      <3>2. tiers[i - 1].from < tiers[i].from /\ tiers[i].from % tiers[i - 1].tick = 0
        BY <3>1, TiersBegin
      <3>3. i - 1 \in below
        <4>1. tiers[i - 1].from \in Nat /\ tiers[i].from \in Nat
          BY <1>2, <3>1
        <4>2. tiers[i - 1].from <= price - 1
          BY <2>1, <3>2, <4>1
        <4> QED
          BY <1>9, <3>1, <4>2
      <3>4. \A j \in below : j <= i - 1
        BY <1>10, <1>11, <1>13
      <3>5. Max(below) = i - 1
        BY <1>10, <3>3, <3>4, GreatestIs
      <3> QED
        BY <1>1, <1>2, <2>1, <3>1, <3>2, <3>3, <3>5 DEF tick
    <2> QED
      BY <2>2, <2>3
  <1> QED
    BY <1>12, <1>13 DEF tick

\* So the nearest multiple of the tick is the price.
LEMMA NearestIs ==
    ASSUME NEW tiers \in Seq(Tiers), TicksAccepted(tiers), NEW price \in Nat \ {0},
           IsValidPrice(tiers, price), NEW n \in Int, NEW d \in Nat \ {0},
           2 * n - 2 * (d * price) < d, 2 * (d * price) - 2 * n < d
    PROVE  Nearest(tiers, <<n, d>>) = price
  <1> DEFINE tick == TickAt(tiers, <<n, d>>)
             k == price \div tick
             D == d * tick
  <1>1. tick \in Nat \ {0} /\ price % tick = 0
    BY TickNear
  <1>2. Nearest(tiers, <<n, d>>) = tick * HalfEven(n, d * tick)
    BY DEF Nearest
  <1> HIDE DEF tick
  <1>3. k \in Int /\ price = tick * k
    BY <1>1, Quotient, Remainder
  <1> HIDE DEF k
  <1>4. D \in Nat \ {0} /\ D * k = d * price
    BY <1>1, <1>3
  <1>5. d <= D
    <2>1. d * 1 <= d * tick
      BY <1>1, TimesKeepsOrder
    <2> QED
      BY <2>1
  <1>6. d * price \in Int
    OBVIOUS
  <1> HIDE DEF D
  <1>7. 2 * n - 2 * (D * k) < D /\ 2 * (D * k) - 2 * n < D
    BY <1>4, <1>5, <1>6
  <1>8. HalfEven(n, D) = k
    BY <1>3, <1>4, <1>7, HalfEvenIs
  <1> QED
    BY <1>2, <1>3, <1>8 DEF D

\* The grid of a day is accepted tiers from GridStart on, and not known before.
LEMMA GridIs ==
    ASSUME NEW day \in Int
    PROVE  /\ day >= GridStart => GridOn(day) \in Seq(Tiers) /\ TicksAccepted(GridOn(day)) /\ GridOn(day) # <<>>
           /\ day < GridStart => GridOn(day) = <<>>
  <1> DEFINE V == Range(Verified.values)
  <1>1. /\ Verified \in Dated(Seq(Tiers)) /\ IsDated(Verified)
        /\ GridStart \in Int /\ FiveTiersFrom \in Int
        /\ GridStart <= FiveTiersFrom /\ FiveTiersFrom <= First(Verified)
        /\ \A tiers \in {FiveTiers, ThreeTiers} \cup V : TicksAccepted(tiers)
        /\ FiveTiers \in Seq(Tiers) /\ ThreeTiers \in Seq(Tiers)
    BY FactorConstants
  <1>2. First(Verified) \in Int
    BY <1>1 DEF Dated, IsDated, First
  <1>3. ASSUME First(Verified) <= day PROVE On(Verified, day) \in V /\ On(Verified, day) \in Seq(Tiers)
    <2>1. Verified \in Dated(V)
      <3>1. Verified.values \in Seq(Seq(Tiers)) /\ Verified.starts \in Seq(Int)
            /\ Verified = [starts |-> Verified.starts, values |-> Verified.values]
        BY <1>1 DEF Dated
      <3>2. Verified.values \in Seq(V)
        BY <3>1 DEF Range
      <3> QED
        BY <3>1, <3>2 DEF Dated
    <2>2. On(Verified, day) \in V
      BY <1>1, <1>3, <2>1, RowOfDay
    <2>3. V \subseteq Seq(Tiers)
      BY <1>1 DEF Dated, Range
    <2> QED
      BY <2>2, <2>3
  <1>4. \A tiers \in Seq(Tiers) : TicksAccepted(tiers) => tiers # <<>>
    BY DEF TicksAccepted
  <1> HIDE DEF V
  <1> QED
    BY <1>1, <1>2, <1>3, <1>4 DEF GridOn

-----------------------------------------------------------------------------
(* The days in order.                                                      *)

OrderStep(T, g) == IF T = {} THEN <<>> ELSE <<Min(T)>> \o g[T \ {Min(T)}]
OrderOf(S) == CHOOSE g : g = [T \in SUBSET S |-> OrderStep(T, g)]

\* A list with a first element put before it.
LEMMA PutBefore ==
    ASSUME NEW V, NEW x \in V, NEW s \in Seq(V)
    PROVE  /\ <<x>> \o s \in Seq(V) /\ Len(<<x>> \o s) = Len(s) + 1
           /\ (<<x>> \o s)[1] = x
           /\ \A i \in 1..Len(s) : (<<x>> \o s)[i + 1] = s[i]
  <1>1. <<x>> \o s \in Seq(V)
    OBVIOUS
  <1>2. Len(<<x>> \o s) = Len(s) + 1 /\ (<<x>> \o s)[1] = x
    OBVIOUS
  <1>3. ASSUME NEW i \in 1..Len(s) PROVE (<<x>> \o s)[i + 1] = s[i]
    OBVIOUS
  <1> QED
    BY <1>1, <1>2, <1>3

\* Each day of the set once, the earlier first.
LEMMA InOrderIs ==
    ASSUME NEW S \in SUBSET Int, IsFiniteSet(S)
    PROVE  /\ InOrder(S) \in Seq(S)
           /\ \A x \in S : \E i \in 1..Len(InOrder(S)) : InOrder(S)[i] = x
           /\ \A i, j \in 1..Len(InOrder(S)) : i < j => InOrder(S)[i] < InOrder(S)[j]
  <1> DEFINE pick == [T \in SUBSET S |-> Min(T)]
             none == <<>>
             V == Seq(S)
             F == [x \in S |-> [v \in V |-> <<x>> \o v]]
  <1>1. \A T \in SUBSET S : T # {} => Min(T) \in T /\ \A x \in T : Min(T) <= x
    <2>1. \A T \in SUBSET S : IsFiniteSet(T) /\ T \in SUBSET Int
      BY FS_Subset
    <2> QED
      BY <2>1, Extremes
  <1>2. Picks(pick, S)
    BY <1>1 DEF Picks
  <1>3. none \in V
    OBVIOUS
  <1>4. F \in [S -> [V -> V]]
    BY PutBefore
  <1>5. \A x \in S, v \in V : F[x][v] = <<x>> \o v
    OBVIOUS
  <1>6. \A T \in SUBSET S : pick[T] = Min(T)
    OBVIOUS
  <1> HIDE DEF pick, F, none
  <1>7. PICK g : IsFold(g, S, V, none, pick, F)
    BY <1>2, <1>3, <1>4, FoldExists
  <1>8. ASSUME NEW T \in SUBSET S PROVE g[T] = OrderStep(T, g)
    <2>1. T = {} => g[T] = OrderStep(T, g)
      BY <1>7 DEF IsFold, FoldStep, OrderStep, none
    <2>2. ASSUME T # {} PROVE g[T] = OrderStep(T, g)
      <3>1. Min(T) \in S /\ g[T \ {Min(T)}] \in V
        BY <1>1, <1>7, <2>2 DEF IsFold
      <3>2. g[T] = F[Min(T)][g[T \ {Min(T)}]]
        BY <1>6, <1>7, <2>2 DEF IsFold, FoldStep
      <3> QED
        BY <1>5, <2>2, <3>1, <3>2 DEF OrderStep
    <2> QED
      BY <2>1, <2>2
  <1>9. g = [T \in SUBSET S |-> OrderStep(T, g)]
    BY <1>7, <1>8 DEF IsFold
  <1> DEFINE h == OrderOf(S)
  <1>10. h = [T \in SUBSET S |-> OrderStep(T, h)]
    BY <1>9 DEF OrderOf
  <1>11. InOrder(S) = h[S]
    BY DEF InOrder, MapThenFoldSet, OrderOf, OrderStep
  <1> HIDE DEF h
  <1> DEFINE Sorted(T) ==
                /\ h[T] \in Seq(T)
                /\ \A x \in T : \E i \in 1..Len(h[T]) : h[T][i] = x
                /\ \A i, j \in 1..Len(h[T]) : i < j => h[T][i] < h[T][j]
             P == {T \in SUBSET S : Sorted(T)}
  <1>12. {} \in P
    <2>1. h[{}] = <<>> /\ Len(<<>>) = 0 /\ <<>> \in Seq({})
      BY <1>10 DEF OrderStep
    <2>2. Sorted({})
      BY <2>1
    <2> QED
      BY <2>2
  <1>13. ASSUME NEW T \in SUBSET S, T # {} PROVE \E x \in T : T \ {x} \in P => T \in P
    <2> DEFINE x == Min(T)
               U == T \ {x}
               s == h[U]
    <2>1. x \in T /\ (\A y \in T : x <= y) /\ T \in SUBSET Int /\ U \in SUBSET S
      BY <1>1, <1>13
    <2>2. h[T] = <<x>> \o s
      BY <1>10, <1>13 DEF OrderStep
    <2> HIDE DEF x, s
    <2>3. SUFFICES ASSUME U \in P PROVE Sorted(T)
      BY <2>1
    <2>4. /\ s \in Seq(U)
          /\ \A y \in U : \E i \in 1..Len(s) : s[i] = y
          /\ \A i, j \in 1..Len(s) : i < j => s[i] < s[j]
      BY <2>3 DEF s
    <2>5. s \in Seq(T) /\ Len(s) \in Nat /\ \A i \in 1..Len(s) : s[i] \in U
      BY <2>4
    <2> DEFINE t == <<x>> \o s
    <2>6. t \in Seq(T) /\ Len(t) = Len(s) + 1 /\ t[1] = x /\ \A i \in 1..Len(s) : t[i + 1] = s[i]
      BY <2>1, <2>5, PutBefore
    <2>7. h[T] = t
      BY <2>2
    <2> HIDE DEF t
    <2>8. ASSUME NEW y \in T PROVE \E i \in 1..Len(t) : t[i] = y
      <3>1. CASE y = x
        BY <2>5, <2>6, <3>1
      <3>2. CASE y # x
        <4>1. PICK i \in 1..Len(s) : s[i] = y
          BY <2>4, <3>2
        <4>2. i + 1 \in 1..Len(t) /\ t[i + 1] = y
          BY <2>5, <2>6, <4>1
        <4> QED
          BY <4>2
      <3> QED
        BY <3>1, <3>2
    <2>9. ASSUME NEW i \in 1..Len(t), NEW j \in 1..Len(t), i < j PROVE t[i] < t[j]
      <3>1. j - 1 \in 1..Len(s) /\ (j - 1) + 1 = j
        BY <2>5, <2>6, <2>9
      <3>2. t[j] = s[j - 1] /\ s[j - 1] \in U
        BY <2>5, <2>6, <3>1
      <3>3. CASE i = 1
        <4>1. t[j] \in Int /\ t[j] # x /\ x <= t[j] /\ x \in Int /\ t[i] = x
          BY <2>1, <2>6, <3>2, <3>3
        <4> QED
          BY <4>1
      <3>4. CASE i # 1
        <4>1. i - 1 \in 1..Len(s) /\ (i - 1) + 1 = i /\ i - 1 < j - 1
          BY <2>5, <2>6, <2>9, <3>4
        <4>2. t[i] = s[i - 1]
          BY <2>6, <4>1
        <4> QED
          BY <2>4, <3>1, <3>2, <4>1, <4>2
      <3> QED
        BY <3>3, <3>4
    <2> QED
      BY <2>6, <2>7, <2>8, <2>9
  <1> HIDE DEF P
  <1>14. SUBSET S \subseteq P
    BY <1>12, <1>13, Peeled
  <1>15. S \in P
    BY <1>14
  <1> QED
    BY <1>11, <1>15 DEF P

-----------------------------------------------------------------------------
(* What the source reads of a day.                                         *)

\* What really happened, as it is from the start on.
FactsInv ==
    /\ splits \in Splits /\ rights \in Rights /\ dividends \in Dividends
    /\ traded \in [Days -> Rows]
    /\ \A day \in Days : GridOn(day) # <<>> =>
        \A price \in Range(traded[day].prices) : IsValidPrice(GridOn(day), price)
    /\ today = MaxDay

\* Yahoo's numbers for the day are divided by the rights issue.
Affected(day) == day < rights.day /\ rights.day <= today
Positive == (Nat \ {0}) \X (Nat \ {0})

LEMMA DayIsRead ==
    ASSUME FactsInv, NEW day \in Days
    PROVE  LET prices == traded[day].prices
           IN  /\ prices \in Seq(Nat \ {0}) /\ 1 \in DOMAIN prices
               /\ DOMAIN ReversedPrices(day) = DOMAIN prices
               /\ Factor(day) \in SplitFactors
               /\ \A i \in DOMAIN prices :
                    /\ prices[i] \in Nat \ {0} /\ prices[i] \in Amount /\ prices[i] \in Range(prices)
                    /\ Affected(day) => ReversedPrices(day)[i] = Seen(prices[i], Factor(day), rights.by)
                    /\ ~Affected(day) => ReversedPrices(day)[i] = Seen(prices[i], Factor(day), <<1, 1>>)
  <1> DEFINE row == traded[day]
             prices == traded[day].prices
  <1>1. row \in Rows
    BY DEF FactsInv
  <1>2. prices \in Seq(Nat \ {0}) /\ prices # <<>>
    BY <1>1, SourceConstants
  <1>3. 1 \in DOMAIN prices /\ DOMAIN prices = 1..Len(prices)
    BY <1>2
  <1>4. Factor(day) \in SplitFactors
    <2> DEFINE later == {ex \in DOMAIN splits : day < ex /\ ex <= MaxDay}
    <2>1. Factor(day) = ProductOf(splits, later)
      BY DEF FactsInv, Factor
    <2>2. splits \in Splits
      BY DEF FactsInv
    <2>3. Factor(day) \in {ProductOf(splits, {ex \in DOMAIN splits : d < ex /\ ex <= MaxDay}) : d \in Days}
      BY <2>1
    <2> QED
      BY <2>2, <2>3 DEF SplitFactors
  <1>5. DOMAIN ReversedPrices(day) = DOMAIN prices
    BY DEF ReversedPrices
  <1>6. ASSUME NEW i \in DOMAIN prices
        PROVE  /\ prices[i] \in Nat \ {0} /\ prices[i] \in Amount /\ prices[i] \in Range(prices)
               /\ Affected(day) => ReversedPrices(day)[i] = Seen(prices[i], Factor(day), rights.by)
               /\ ~Affected(day) => ReversedPrices(day)[i] = Seen(prices[i], Factor(day), <<1, 1>>)
    <2>1. prices[i] \in Nat \ {0}
      BY <1>2
    <2>2. prices[i] \in Range(prices)
      BY DEF Range
    <2>3. prices[i] \in Amount
      BY <1>1, <2>2 DEF Amount
    <2>4. ReversedPrices(day)[i] = Times(Recorded(prices[i], day), Factor(day))
      BY DEF ReversedPrices
    <2>5. Adjustment(day) = Times(Factor(day), IF Affected(day) THEN rights.by ELSE <<1, 1>>)
      BY DEF Adjustment, Factor, Affected
    <2>6. Affected(day) => Times(Recorded(prices[i], day), Factor(day)) = Seen(prices[i], Factor(day), rights.by)
      BY <2>5 DEF Recorded, Seen
    <2>7. ~Affected(day) => Times(Recorded(prices[i], day), Factor(day)) = Seen(prices[i], Factor(day), <<1, 1>>)
      BY <2>5 DEF Recorded, Seen
    <2> QED
      BY <2>1, <2>2, <2>3, <2>4, <2>6, <2>7
  <1> QED
    BY <1>2, <1>3, <1>4, <1>5, <1>6

\* The same of a dividend.
LEMMA DividendIsRead ==
    ASSUME FactsInv, NEW day \in Days, NEW amount
    PROVE  /\ Affected(day) =>
                Times(Recorded(amount, day), Factor(day)) = Seen(amount, Factor(day), rights.by)
           /\ ~Affected(day) =>
                Times(Recorded(amount, day), Factor(day)) = Seen(amount, Factor(day), <<1, 1>>)
  <1>1. Adjustment(day) = Times(Factor(day), IF Affected(day) THEN rights.by ELSE <<1, 1>>)
    BY DEF Adjustment, Factor, Affected
  <1> QED
    BY <1>1 DEF Recorded, Seen

\* A day that no rights issue came after is read as it was.
LEMMA OthersAreWhole ==
    ASSUME FactsInv, PreciseWhole, NEW day \in Days, ~Affected(day)
    PROVE  /\ AllWhole(ReversedPrices(day))
           /\ [i \in DOMAIN ReversedPrices(day) |->
                  HalfEven(ReversedPrices(day)[i][1], ReversedPrices(day)[i][2])] = traded[day].prices
  <1> DEFINE prices == traded[day].prices
             found == ReversedPrices(day)
  <1>1. /\ prices \in Seq(Nat \ {0}) /\ DOMAIN found = DOMAIN prices /\ Factor(day) \in SplitFactors
        /\ \A i \in DOMAIN prices : prices[i] \in Amount /\ found[i] = Seen(prices[i], Factor(day), <<1, 1>>)
    BY DayIsRead
  <1>2. \A i \in DOMAIN prices : IsWhole(found[i]) /\ HalfEven(found[i][1], found[i][2]) = prices[i]
    BY <1>1 DEF PreciseWhole
  <1> HIDE DEF prices, found
  <1>3. AllWhole(found)
    BY <1>1, <1>2 DEF AllWhole, Range
  <1>4. [i \in DOMAIN found |-> HalfEven(found[i][1], found[i][2])] = prices
    BY <1>1, <1>2
  <1> QED
    BY <1>3, <1>4 DEF prices, found

\* How far off: less than half a rupiah is near enough for the grid.
LEMMA OffIs ==
    ASSUME NEW n \in Int, NEW d \in Nat \ {0}, NEW amount \in Nat
    PROVE  /\ Off(<<n, d>>, amount) \in Nat
           /\ n - amount * d <= Off(<<n, d>>, amount) /\ amount * d - n <= Off(<<n, d>>, amount)
           /\ Off(<<n, d>>, amount) = n - amount * d \/ Off(<<n, d>>, amount) = amount * d - n
  <1> DEFINE p == amount * d
  <1>1. p \in Nat
    OBVIOUS
  <1>2. Off(<<n, d>>, amount) = IF n - p < 0 THEN -(n - p) ELSE n - p
    BY DEF Off
  <1> HIDE DEF p
  <1>3. /\ Off(<<n, d>>, amount) \in Nat
        /\ n - p <= Off(<<n, d>>, amount) /\ p - n <= Off(<<n, d>>, amount)
        /\ Off(<<n, d>>, amount) = n - p \/ Off(<<n, d>>, amount) = p - n
    BY <1>1, <1>2
  <1> QED
    BY <1>3 DEF p

LEMMA NearestOf ==
    ASSUME NEW tiers \in Seq(Tiers), TicksAccepted(tiers), NEW price \in Nat \ {0},
           IsValidPrice(tiers, price), NEW n \in Int, NEW d \in Nat \ {0},
           2 * Off(<<n, d>>, price) < d
    PROVE  Nearest(tiers, <<n, d>>) = price
  <1> DEFINE p == price * d
             off == Off(<<n, d>>, price)
  <1>1. off \in Nat /\ n - p <= off /\ p - n <= off
    BY OffIs
  <1>2. p \in Nat /\ d * price = p /\ 2 * off < d
    OBVIOUS
  <1> HIDE DEF p, off
  <1>3. 2 * n - 2 * p < d /\ 2 * p - 2 * n < d
    BY <1>1, <1>2
  <1>4. 2 * n - 2 * (d * price) < d /\ 2 * (d * price) - 2 * n < d
    BY <1>2, <1>3
  <1> QED
    BY <1>4, NearestIs

-----------------------------------------------------------------------------
(* The factor that makes a day's open read what was traded.                *)

TrueFactor(day) ==
    <<traded[day].prices[1] * ReversedPrices(day)[1][2], ReversedPrices(day)[1][1]>>

\* What is assumed of the numbers says so of one open, and of one other price.
LEMMA OneIsTried ==
    ASSUME NEW by, PreciseFits(by), NEW open \in Amount, NEW split \in SplitFactors,
           NEW value, value = Seen(open, split, by)
    PROVE  /\ value \in Positive
           /\ open >= Max({Half(value[1], value[2]), 1})
           /\ open <= 2 * (value[1] \div value[2] + 1)
           /\ 50 * open * value[2] < 100 * value[1] + value[2]
  BY DEF PreciseFits, Positive

LEMMA OneFits ==
    ASSUME NEW by, PreciseFits(by), NEW open \in Amount, NEW split \in SplitFactors,
           NEW other \in Amount, NEW splitToo \in SplitFactors,
           NEW value, value = Seen(open, split, by),
           NEW restored, restored = Times(Seen(other, splitToo, by), <<open * value[2], value[1]>>)
    PROVE  Off(restored, other) <= restored[2] \div 100
  BY DEF PreciseFits

\* It fits every day that the rights issue came after, and makes it read what was traded.
LEMMA TrueFits ==
    ASSUME FactsInv, NEW day \in Days, Affected(day), PreciseFits(rights.by),
           NEW other \in Days, Affected(other), other >= GridStart
    PROVE  /\ Fits(GridOn(other), ReversedPrices(other), TrueFactor(day))
           /\ \A i \in DOMAIN ReversedPrices(other) :
                Nearest(GridOn(other), Times(ReversedPrices(other)[i], TrueFactor(day)))
                    = traded[other].prices[i]
  <1> DEFINE open == traded[day].prices[1]
             value == ReversedPrices(day)[1]
             tiers == GridOn(other)
             f == TrueFactor(day)
             found == ReversedPrices(other)
             prices == traded[other].prices
  <1>1. open \in Amount /\ open \in Nat \ {0} /\ value = Seen(open, Factor(day), rights.by) /\ Factor(day) \in SplitFactors
    BY DayIsRead
  <1>2. /\ DOMAIN found = DOMAIN prices /\ Factor(other) \in SplitFactors
        /\ \A i \in DOMAIN prices :
             /\ prices[i] \in Nat \ {0} /\ prices[i] \in Amount /\ prices[i] \in Range(prices)
             /\ found[i] = Seen(prices[i], Factor(other), rights.by)
    BY DayIsRead
  <1>3. f = <<open * value[2], value[1]>>
    BY DEF TrueFactor
  <1>4. tiers \in Seq(Tiers) /\ TicksAccepted(tiers) /\ tiers # <<>>
    <2>1. other \in Int
      BY DEF Days
    <2> QED
      BY <2>1, GridIs
  <1>5. \A price \in Range(prices) : IsValidPrice(tiers, price)
    BY <1>4 DEF FactsInv
  <1> HIDE DEF open, value, tiers, f, found, prices
  <1>6. ASSUME NEW i \in DOMAIN prices
        PROVE  LET restored == Times(found[i], f)
               IN  /\ restored[1] \in Int /\ restored[2] \in Nat \ {0}
                   /\ restored = <<restored[1], restored[2]>>
                   /\ Off(restored, prices[i]) <= restored[2] \div 100
                   /\ Nearest(tiers, restored) = prices[i]
    <2> DEFINE restored == Times(found[i], f)
    <2>0. value \in Positive /\ found[i] \in Positive
      BY <1>1, <1>2, OneIsTried
    <2>1. Off(restored, prices[i]) <= restored[2] \div 100
      <3> DEFINE by == rights.by
                 split == Factor(day)
                 splitToo == Factor(other)
                 amount == prices[i]
      <3>1. /\ open \in Amount /\ split \in SplitFactors /\ value = Seen(open, split, by)
            /\ amount \in Amount /\ splitToo \in SplitFactors
            /\ restored = Times(Seen(amount, splitToo, by), <<open * value[2], value[1]>>)
            /\ PreciseFits(by)
        BY <1>1, <1>2, <1>3
      <3> HIDE DEF by, split, splitToo, amount, restored
      <3>2. Off(restored, amount) <= restored[2] \div 100
        BY <3>1, OneFits
      <3> QED
        BY <3>2 DEF amount
    <2>2. PICK a \in Nat \ {0}, b \in Nat \ {0} : found[i] = <<a, b>>
      BY <2>0 DEF Positive
    <2>3. PICK x \in Nat \ {0}, y \in Nat \ {0} : value = <<x, y>>
      BY <2>0 DEF Positive
    <2> DEFINE n == a * (open * y)
               d == b * x
    <2>4. restored = <<n, d>>
      BY <1>3, <2>2, <2>3 DEF Times
    <2>5. n \in Int /\ d \in Nat \ {0}
      BY <1>1, <2>2, <2>3
    <2> HIDE DEF n, d, restored
    <2>6. prices[i] \in Nat \ {0} /\ Off(<<n, d>>, prices[i]) \in Nat
      BY <1>2, <2>5, OffIs
    <2>7. Off(<<n, d>>, prices[i]) <= d \div 100
      BY <2>1, <2>4
    <2>8. 2 * Off(<<n, d>>, prices[i]) < d
      BY <2>5, <2>6, <2>7
    <2>9. Nearest(tiers, <<n, d>>) = prices[i]
      BY <1>2, <1>4, <1>5, <2>5, <2>8, NearestOf
    <2> QED
      BY <2>4, <2>5, <2>7, <2>9 DEF restored
  <1>7. ASSUME NEW price \in Range(found)
        PROVE  LET restored == Times(price, f)
                   off == restored[1] - Nearest(tiers, restored) * restored[2]
               IN  off <= restored[2] \div 100 /\ -off <= restored[2] \div 100
    <2>1. PICK i \in DOMAIN prices : price = found[i]
      BY <1>2 DEF Range
    <2> DEFINE restored == Times(price, f)
    <2>2. /\ restored[1] \in Int /\ restored[2] \in Nat \ {0}
          /\ restored = <<restored[1], restored[2]>>
          /\ Off(restored, prices[i]) <= restored[2] \div 100
          /\ Nearest(tiers, restored) = prices[i]
      BY <1>6, <2>1
    <2> DEFINE n == restored[1]
               d == restored[2]
               p == prices[i] * d
    <2>3. n \in Int /\ d \in Nat \ {0} /\ prices[i] \in Nat
      BY <1>2, <2>2
    <2>4. Off(restored, prices[i]) = Off(<<n, d>>, prices[i])
      BY <2>2
    <2> HIDE DEF n, d
    <2>5. n - p <= Off(<<n, d>>, prices[i]) /\ p - n <= Off(<<n, d>>, prices[i]) /\ Off(<<n, d>>, prices[i]) \in Nat
      BY <2>3, OffIs
    <2>6. p \in Int /\ Off(<<n, d>>, prices[i]) <= d \div 100 /\ d \div 100 \in Int
      BY <2>2, <2>3, <2>4 DEF d
    <2> HIDE DEF p
    <2>7. n - p <= d \div 100 /\ -(n - p) <= d \div 100
      BY <2>3, <2>5, <2>6
    <2> QED
      BY <2>2, <2>7 DEF n, d, p
  <1>8. Fits(tiers, found, f)
    BY <1>4, <1>7 DEF Fits
  <1>9. \A i \in DOMAIN found : Nearest(tiers, Times(found[i], f)) = prices[i]
    BY <1>2, <1>6
  <1> QED
    BY <1>8, <1>9 DEF tiers, f, found, prices

\* And it is one of those tried.
LEMMA TrueIsTried ==
    ASSUME FactsInv, NEW day \in Days, Affected(day), PreciseFits(rights.by), day >= GridStart
    PROVE  TrueFactor(day) \in Candidates([day |-> day, prices |-> ReversedPrices(day)])
  <1> DEFINE open == traded[day].prices[1]
             value == ReversedPrices(day)[1]
             tiers == GridOn(day)
             row == [day |-> day, prices |-> ReversedPrices(day)]
  <1>1. open \in Amount /\ open \in Nat \ {0} /\ value = Seen(open, Factor(day), rights.by)
        /\ Factor(day) \in SplitFactors /\ open \in Range(traded[day].prices)
    BY DayIsRead
  <1>2. /\ value \in Positive
        /\ open >= Max({Half(value[1], value[2]), 1})
        /\ open <= 2 * (value[1] \div value[2] + 1)
        /\ 50 * open * value[2] < 100 * value[1] + value[2]
    BY <1>1, OneIsTried
  <1>3. tiers \in Seq(Tiers) /\ TicksAccepted(tiers) /\ tiers # <<>>
    <2>1. day \in Int
      BY DEF Days
    <2> QED
      BY <2>1, GridIs
  <1>4. IsValidPrice(tiers, open)
    BY <1>1, <1>3 DEF FactsInv
  <1>5. open % TickAt(tiers, <<open, 1>>) = 0
    <2>1. 2 * open - 2 * (1 * open) < 1 /\ 2 * (1 * open) - 2 * open < 1
      BY <1>1
    <2> QED
      BY <1>1, <1>3, <1>4, <2>1, TickNear
  <1>6. Fits(tiers, ReversedPrices(day), TrueFactor(day))
    BY TrueFits
  <1> DEFINE least == Max({Half(value[1], value[2]), 1})
             most == 2 * (value[1] \div value[2] + 1)
             tried == {g \in least..most : g % TickAt(tiers, <<g, 1>>) = 0 /\ 50 * g * value[2] < 100 * value[1] + value[2]}
  <1>7. open \in least..most
    <2>1. PICK a \in Nat \ {0}, b \in Nat \ {0} : value = <<a, b>>
      BY <1>2 DEF Positive
    <2>2. Half(value[1], value[2]) \in Int /\ most \in Int
      BY <2>1 DEF Half
    <2>3. {Half(value[1], value[2]), 1} \in SUBSET Int /\ IsFiniteSet({Half(value[1], value[2]), 1})
      <3> DEFINE half == Half(value[1], value[2])
      <3>1. half \in Int
        BY <2>2
      <3> HIDE DEF half
      <3>2. IsFiniteSet({1}) /\ {half, 1} = {1} \cup {half}
        BY FS_Singleton
      <3>3. IsFiniteSet({1} \cup {half})
        BY <3>2, FS_AddElement
      <3>4. {half, 1} \in SUBSET Int /\ IsFiniteSet({half, 1})
        BY <3>1, <3>2, <3>3
      <3> QED
        BY <3>4 DEF half
    <2>4. least \in Int
      BY <2>3, Extremes
    <2> QED
      BY <1>1, <1>2, <2>2, <2>4
  <1>8. open \in tried
    BY <1>2, <1>5, <1>7
  <1>9. Candidates(row) = {f \in {<<g * value[2], value[1]>> : g \in tried} : Fits(tiers, row.prices, f)}
    BY DEF Candidates
  <1>10. TrueFactor(day) = <<open * value[2], value[1]>>
    BY DEF TrueFactor
  <1> HIDE DEF tried, open, value, tiers
  <1>11. TrueFactor(day) \in {<<g * value[2], value[1]>> : g \in tried}
    BY <1>8, <1>10
  <1> QED
    BY <1>6, <1>9, <1>11

-----------------------------------------------------------------------------
(* The runs: rows that one factor fits are one run.                        *)

RunStep(rows, i, g) ==
    IF i = 0 THEN [runs |-> <<>>, members |-> <<>>, passing |-> {}]
    ELSE Joined(g[i - 1], rows[Len(rows) + 1 - i])

LEMMA FindRunsIs ==
    ASSUME NEW V, NEW rows \in Seq(V), NEW f,
           rows # <<>> => f \in Candidates(rows[Len(rows)]),
           \A k \in 1..Len(rows) : Fits(GridOn(rows[k].day), rows[k].prices, f)
    PROVE  /\ rows = <<>> => FindRuns(rows) = <<>>
           /\ rows # <<>> => \E passing \in SUBSET Candidates(rows[Len(rows)]) :
                                f \in passing /\ FindRuns(rows) = <<Close(rows, passing)>>
  <1> DEFINE n == Len(rows)
             none == [runs |-> <<>>, members |-> <<>>, passing |-> {}]
             FitsIn(k, h) == Fits(GridOn(rows[k].day), rows[k].prices, h)
             joined(i) == [k \in 1..i |-> rows[n - i + k]]
             left(i) == {h \in Candidates(rows[n]) : \A k \in n + 1 - i..n - 1 : FitsIn(k, h)}
             g == [i \in 0..n |->
                     IF i = 0 THEN none ELSE [runs |-> <<>>, members |-> joined(i), passing |-> left(i)]]
  <1>1. n \in Nat /\ (rows = <<>> <=> n = 0) /\ \A k \in 1..n : rows[k] \in V
    OBVIOUS
  <1>2. Closed(none) = <<>>
    BY DEF Closed
  <1>3. ASSUME NEW i \in 1..n PROVE joined(i) \in Seq(V) /\ Len(joined(i)) = i /\ joined(i) # <<>>
    <2>1. \A k \in 1..i : n - i + k \in 1..n
      BY <1>1
    <2> QED
      BY <1>1, <2>1
  <1>8. /\ g[0] = none
        /\ \A i \in 1..n : g[i] = [runs |-> <<>>, members |-> joined(i), passing |-> left(i)]
    BY <1>1
  <1>4. ASSUME NEW i \in 1..n PROVE g[i] = RunStep(rows, i, g)
    <2> DEFINE row == rows[n + 1 - i]
               before == g[i - 1]
               still == {h \in before.passing : Fits(GridOn(row.day), row.prices, h)}
    <2>1. RunStep(rows, i, g) = Joined(before, row)
      BY <1>1 DEF RunStep
    <2>2. g[i] = [runs |-> <<>>, members |-> joined(i), passing |-> left(i)]
      BY <1>1
    <2>3. CASE i = 1
      <3>1. before = none /\ still = {} /\ row = rows[n]
        BY <1>1, <2>3
      <3>2. Joined(before, row) = [runs |-> Closed(before), members |-> <<row>>, passing |-> Candidates(row)]
        BY <3>1 DEF Joined
      <3>3. joined(i) = <<row>>
        BY <1>1, <2>3, <3>1
      <3>4. left(i) = Candidates(row)
        BY <1>1, <2>3, <3>1
      <3> HIDE DEF joined, left, still, before, none
      <3> QED
        BY <1>2, <2>1, <2>2, <3>1, <3>2, <3>3, <3>4
    <2>4. CASE i # 1
      <3>1. i - 1 \in 1..n /\ n + 1 - i \in 1..n - 1 /\ n + 1 - (i - 1) = n + 1 - i + 1
        BY <1>1, <2>4
      <3>2. before = [runs |-> <<>>, members |-> joined(i - 1), passing |-> left(i - 1)]
        <4> HIDE DEF g, joined, left
        <4> QED
          BY <1>8, <3>1
      <3>3. left(i) = still
        <4>1. \A k \in n + 1 - i..n - 1 : k = n + 1 - i \/ k \in n + 1 - (i - 1)..n - 1
          BY <1>1, <3>1
        <4>2. n + 1 - i \in n + 1 - i..n - 1 /\ n + 1 - (i - 1)..n - 1 \subseteq n + 1 - i..n - 1
          BY <1>1, <3>1
        <4>3. still = {h \in left(i - 1) : FitsIn(n + 1 - i, h)}
          <5>1. before.passing = left(i - 1)
            <6> HIDE DEF left, before
            <6> QED
              BY <3>2
          <5> HIDE DEF left, before
          <5> QED
            BY <5>1
        <4> HIDE DEF FitsIn, still
        <4> QED
          BY <4>1, <4>2, <4>3
      <3>4. f \in left(i)
        <4>1. \A k \in n + 1 - i..n - 1 : k \in 1..n
          BY <1>1
        <4> QED
          BY <1>1, <4>1
      <3>5. joined(i) = <<row>> \o joined(i - 1)
        <4> DEFINE s == joined(i - 1)
                   t == <<row>> \o s
        <4>1. s \in Seq(V) /\ Len(s) = i - 1 /\ row \in V
          BY <1>1, <1>3, <3>1
        <4>2. \A k \in 1..i - 1 : s[k] = rows[n - (i - 1) + k]
          OBVIOUS
        <4> HIDE DEF s
        <4>3. t \in Seq(V) /\ Len(t) = i /\ t[1] = row /\ \A k \in 1..i - 1 : t[k + 1] = s[k]
          BY <4>1, PutBefore
        <4> HIDE DEF t
        <4>4. ASSUME NEW k \in 1..i PROVE t[k] = rows[n - i + k]
          <5>1. CASE k = 1
            <6>1. n - i + 1 = n + 1 - i
              BY <1>1
            <6> QED
              BY <4>3, <5>1, <6>1
          <5>2. CASE k # 1
            <6>1. k - 1 \in 1..i - 1 /\ (k - 1) + 1 = k /\ n - (i - 1) + (k - 1) = n - i + k
              BY <1>1, <5>2
            <6>2. t[k] = s[k - 1]
              BY <4>3, <6>1
            <6>3. s[k - 1] = rows[n - (i - 1) + (k - 1)]
              BY <4>2, <6>1
            <6> QED
              BY <6>1, <6>2, <6>3
          <5> QED
            BY <5>1, <5>2
        <4>5. t = [k \in 1..i |-> t[k]]
          BY <4>3
        <4> QED
          BY <4>4, <4>5 DEF t, s
      <3>6. Joined(before, row) = [runs |-> before.runs, members |-> <<row>> \o before.members, passing |-> still]
        BY <3>3, <3>4 DEF Joined
      <3> HIDE DEF joined, left, still, before, row
      <3> QED
        BY <2>1, <2>2, <3>2, <3>3, <3>5, <3>6
    <2> QED
      BY <2>3, <2>4
  <1>5. g = [i \in 0..n |-> RunStep(rows, i, g)]
    <2>1. g[0] = RunStep(rows, 0, g)
      BY <1>1 DEF RunStep
    <2>2. \A i \in 0..n : g[i] = RunStep(rows, i, g)
      <3> HIDE DEF g
      <3> QED
        BY <1>1, <1>4, <2>1
    <2> QED
      BY <2>2
  <1> DEFINE walk == CHOOSE h : h = [i \in 0..n |-> RunStep(rows, i, h)]
  <1>6. walk = [i \in 0..n |-> RunStep(rows, i, walk)]
    <2> HIDE DEF g
    <2> QED
      BY <1>5
  <1>7. FindRuns(rows) = Closed(walk[n])
    BY DEF FindRuns, RunStep
  <1>9. \A i \in 0..n : g[i] = RunStep(rows, i, g) /\ walk[i] = RunStep(rows, i, walk)
    <2> HIDE DEF g, walk
    <2> QED
      BY <1>5, <1>6
  <1> HIDE DEF walk, g
  <1> DEFINE P == {i \in Nat : i <= n => walk[i] = g[i]}
  <1>10. Nat \subseteq P
    <2>1. 0 \in P
      BY <1>1, <1>9 DEF RunStep
    <2>2. ASSUME NEW i \in Nat, i \in P PROVE i + 1 \in P
      <3>1. SUFFICES ASSUME i + 1 <= n PROVE walk[i + 1] = g[i + 1]
        OBVIOUS
      <3>2. i + 1 \in 0..n /\ i + 1 # 0 /\ (i + 1) - 1 = i /\ walk[i] = g[i]
        BY <1>1, <2>2, <3>1
      <3>3. RunStep(rows, i + 1, walk) = RunStep(rows, i + 1, g)
        BY <3>2 DEF RunStep
      <3> QED
        BY <1>9, <3>2, <3>3
    <2> HIDE DEF P
    <2> QED
      BY <2>1, <2>2, Naturals
  <1>11. walk[n] = g[n]
    BY <1>1, <1>10
  <1>12. CASE n = 0
    BY <1>1, <1>2, <1>7, <1>8, <1>11, <1>12
  <1>13. CASE n # 0
    <2>1. n \in 1..n
      BY <1>1, <1>13
    <2>2. g[n] = [runs |-> <<>>, members |-> joined(n), passing |-> left(n)]
      BY <1>8, <2>1
    <2>3. joined(n) = rows
      <3>1. \A k \in 1..n : n - n + k = k
        BY <1>1
      <3>2. joined(n) = [k \in 1..n |-> rows[k]]
        BY <3>1
      <3> QED
        BY <1>1, <3>2
    <2>4. f \in left(n) /\ left(n) \in SUBSET Candidates(rows[n])
      <3>1. \A k \in n + 1 - n..n - 1 : k \in 1..n
        BY <1>1
      <3> QED
        BY <1>1, <1>13, <3>1
    <2>5. Closed(g[n]) = <<Close(rows, left(n))>>
      <3>1. rows # <<>>
        BY <1>1, <1>13
      <3> HIDE DEF joined, left
      <3>2. g[n].runs = <<>> /\ g[n].members = rows /\ g[n].passing = left(n)
        BY <2>2, <2>3
      <3>3. Closed(g[n]) = <<Close(rows, left(n))>> \o <<>>
        BY <3>1, <3>2 DEF Closed
      <3> QED
        BY <3>3
    <2> QED
      BY <1>1, <1>7, <1>11, <1>13, <2>4, <2>5
  <1> QED
    BY <1>12, <1>13

-----------------------------------------------------------------------------
(* The refined factor: between the factors its prices say.                 *)

LEMMA ImageFinite ==
    ASSUME NEW g, IsFiniteSet(DOMAIN g)
    PROVE  IsFiniteSet({g[x] : x \in DOMAIN g})
  <1> DEFINE S == DOMAIN g
             T == {g[x] : x \in S}
             h == [x \in S |-> g[x]]
  <1>1. h \in Surjection(S, T)
    BY DEF Surjection
  <1> HIDE DEF h, T
  <1>2. IsFiniteSet(T)
    BY <1>1, FS_Surjection
  <1> QED
    BY <1>2 DEF T

\* Finitely many factors are tried.
LEMMA TriedFinite ==
    ASSUME NEW row, row.prices[1] \in Positive
    PROVE  IsFiniteSet(Candidates(row))
  <1> DEFINE open == row.prices[1]
             tiers == GridOn(row.day)
             least == Max({Half(open[1], open[2]), 1})
             most == 2 * (open[1] \div open[2] + 1)
             tried == {g \in least..most : g % TickAt(tiers, <<g, 1>>) = 0 /\ 50 * g * open[2] < 100 * open[1] + open[2]}
             h == [g \in tried |-> <<g * open[2], open[1]>>]
  <1>1. PICK a \in Nat \ {0}, b \in Nat \ {0} : open = <<a, b>>
    BY DEF Positive
  <1>2. Half(open[1], open[2]) \in Int /\ most \in Int
    BY <1>1 DEF Half
  <1>3. least \in Int
    <2> DEFINE half == Half(open[1], open[2])
    <2>1. half \in Int
      BY <1>2
    <2> HIDE DEF half
    <2>2. IsFiniteSet({1}) /\ {half, 1} = {1} \cup {half}
      BY FS_Singleton
    <2>3. IsFiniteSet({1} \cup {half})
      BY <2>2, FS_AddElement
    <2>4. {half, 1} \in SUBSET Int /\ IsFiniteSet({half, 1}) /\ {half, 1} # {}
      BY <2>1, <2>2, <2>3
    <2>5. Max({half, 1}) \in {half, 1}
      BY <2>4, Extremes
    <2> QED
      BY <2>1, <2>5 DEF half
  <1> HIDE DEF least, most
  <1>4. IsFiniteSet(tried)
    <2>1. IsFiniteSet(least..most)
      BY <1>2, <1>3, FS_Interval
    <2> QED
      BY <2>1, FS_Subset
  <1> HIDE DEF tried
  <1>5. IsFiniteSet({h[g] : g \in DOMAIN h})
    <2>1. DOMAIN h = tried
      OBVIOUS
    <2> HIDE DEF h
    <2> QED
      BY <1>4, <2>1, ImageFinite
  <1>6. Candidates(row) \subseteq {h[g] : g \in DOMAIN h}
    <2>1. Candidates(row) = {f \in {<<g * open[2], open[1]>> : g \in tried} : Fits(tiers, row.prices, f)}
      BY DEF Candidates, tried, least, most
    <2> HIDE DEF open, tiers
    <2>2. \A g \in tried : <<g * open[2], open[1]>> \in {h[x] : x \in DOMAIN h}
      OBVIOUS
    <2> HIDE DEF h
    <2> QED
      BY <2>1, <2>2
  <1> QED
    BY <1>5, <1>6, FS_Subset

\* The rows of the evidence: days that the rights issue came after, as they are read.
IsRow(row) ==
    /\ row.day \in Days /\ row.day >= GridStart /\ Affected(row.day)
    /\ row.prices = ReversedPrices(row.day)

LEMMA RefineIs ==
    ASSUME FactsInv, PreciseFits(rights.by), NEW V, NEW members \in Seq(V), members # <<>>,
           \A k \in 1..Len(members) : IsRow(members[k]), NEW day \in Days, Affected(day)
    PROVE  \E low, high \in RefinedFactors(rights.by) : \E refined \in low..high :
                Refine(members, TrueFactor(day)) = <<refined, FactorUnit>>
  <1> DEFINE f == TrueFactor(day)
             by == rights.by
             part(row, i) ==
                <<row.day, i, Half(Nearest(GridOn(row.day), Times(row.prices[i], f))
                                      * row.prices[i][2] * FactorUnit, row.prices[i][1])>>
             parts(row) == {part(row, i) : i \in DOMAIN row.prices}
             all == UNION {parts(row) : row \in Range(members)}
             third == [p \in all |-> p[3]]
             values == {third[p] : p \in DOMAIN third}
  <1>1. Refine(members, f) = <<Half(SumFunctionOnSet(third, all), Cardinality(all)), FactorUnit>>
    BY DEF Refine, SumFunction
  <1>2. Len(members) \in Nat \ {0} /\ DOMAIN members = 1..Len(members)
    OBVIOUS
  <1>3. ASSUME NEW row, IsRow(row), NEW i \in DOMAIN row.prices
        PROVE  part(row, i)[3] \in RefinedFactors(by) /\ part(row, i)[3] \in Int
    <2> DEFINE other == row.day
               amount == traded[other].prices[i]
               value == row.prices[i]
               split == Factor(other)
    <2>1. other \in Days /\ Affected(other) /\ other >= GridStart /\ row.prices = ReversedPrices(other)
      BY <1>3 DEF IsRow
    <2>2. i \in DOMAIN traded[other].prices
      BY <2>1, DayIsRead
    <2>3. amount \in Amount /\ split \in SplitFactors /\ value = Seen(amount, split, by) /\ amount \in Nat \ {0}
      BY <2>1, <2>2, DayIsRead
    <2>4. Nearest(GridOn(other), Times(value, f)) = amount
      BY <2>1, TrueFits
    <2>5. part(row, i)[3] = Half(amount * value[2] * FactorUnit, value[1])
      BY <2>4
    <2>6. value \in Positive
      BY <2>3, OneIsTried
    <2>7. Half(amount * value[2] * FactorUnit, value[1]) = Refined(amount, value)
      BY DEF Refined
    <2> HIDE DEF amount, value, split, other
    <2>8. Refined(amount, value) \in RefinedFactors(by)
      BY <2>3 DEF RefinedFactors
    <2>9. Refined(amount, value) \in Int
      <3>1. PICK a \in Nat \ {0}, b \in Nat \ {0} : value = <<a, b>>
        BY <2>6 DEF Positive
      <3>2. amount * b * FactorUnit \in Int
        BY <2>3, FactorConstants
      <3> DEFINE n == amount * b * FactorUnit
      <3>3. Refined(amount, value) = (2 * n + a) \div (2 * a)
        BY <3>1 DEF Refined, Half
      <3>4. 2 * n + a \in Int /\ 2 * a \in Nat \ {0}
        BY <3>2
      <3> QED
        BY <3>3, <3>4, Quotient
    <2> QED
      BY <2>5, <2>7, <2>8, <2>9
  <1>4. \A row \in Range(members) : IsRow(row)
    BY <1>2 DEF Range
  <1>5. \A p \in all : p[3] \in RefinedFactors(by) /\ p[3] \in Int
    <2> HIDE DEF part
    <2> QED
      BY <1>3, <1>4
  <1>6. IsFiniteSet(all)
    <2> DEFINE each == [k \in 1..Len(members) |-> parts(members[k])]
               sets == {each[k] : k \in DOMAIN each}
    <2>1. ASSUME NEW row, IsRow(row) PROVE IsFiniteSet(parts(row))
      <3> DEFINE h == [i \in DOMAIN row.prices |-> part(row, i)]
      <3>1. IsFiniteSet(DOMAIN row.prices)
        <4>1. row.day \in Days /\ row.prices = ReversedPrices(row.day)
          BY <2>1 DEF IsRow
        <4>2. DOMAIN row.prices = 1..Len(traded[row.day].prices) /\ Len(traded[row.day].prices) \in Nat
          BY <4>1, DayIsRead
        <4> QED
          BY <4>2, FS_Interval
      <3>2. DOMAIN h = DOMAIN row.prices /\ parts(row) = {h[i] : i \in DOMAIN h}
        BY Zenon
      <3> HIDE DEF h, parts
      <3> QED
        BY <3>1, <3>2, ImageFinite
    <2>2. IsFiniteSet(sets)
      <3>1. DOMAIN each = 1..Len(members)
        OBVIOUS
      <3>2. IsFiniteSet(1..Len(members))
        BY <1>2, FS_Interval
      <3> HIDE DEF each
      <3> QED
        BY <3>1, <3>2, ImageFinite
    <2>3. sets = {parts(row) : row \in Range(members)}
      <3> HIDE DEF parts
      <3> QED
        BY <1>2 DEF Range
    <2>4. \A T \in sets : IsFiniteSet(T)
      <3> HIDE DEF parts, sets
      <3> QED
        BY <1>4, <2>1, <2>3
    <2>5. all = UNION sets
      BY <2>3
    <2> HIDE DEF sets, all, each, parts
    <2> QED
      BY <2>2, <2>4, <2>5, FS_UNION
  <1>7. all # {}
    <2> DEFINE row == members[1]
    <2>1. row \in Range(members) /\ IsRow(row)
      BY <1>2 DEF Range
    <2>2. 1 \in DOMAIN row.prices
      <3>1. row.day \in Days /\ row.prices = ReversedPrices(row.day)
        BY <2>1 DEF IsRow
      <3> QED
        BY <3>1, DayIsRead
    <2>3. part(row, 1) \in parts(row)
      BY <2>2
    <2> HIDE DEF part, parts, row
    <2> QED
      BY <2>1, <2>3
  <1>8. \A p \in all : third[p] = p[3]
    BY Zenon
  <1>9. values \in SUBSET Int /\ IsFiniteSet(values) /\ values # {} /\ values \subseteq RefinedFactors(by)
    <2>1. DOMAIN third = all
      BY Zenon
    <2> HIDE DEF third, all
    <2>2. IsFiniteSet(values)
      BY <1>6, <2>1, ImageFinite
    <2> QED
      BY <1>5, <1>7, <1>8, <2>1, <2>2
  <1>10. DOMAIN third = all
    BY Zenon
  <1> HIDE DEF third, all, part, parts
  <1> DEFINE low == Min(values)
             high == Max(values)
             sum == SumFunctionOnSet(third, all)
             count == Cardinality(all)
             refined == Half(sum, count)
  <1>11. /\ low \in values /\ high \in values
         /\ \A x \in values : low <= x /\ x <= high
    <2> HIDE DEF values
    <2> QED
      BY <1>9, Extremes
  <1>12. low \in RefinedFactors(by) /\ high \in RefinedFactors(by) /\ low \in Int /\ high \in Int
    <2> HIDE DEF values, low, high
    <2> QED
      BY <1>9, <1>11
  <1>13. ASSUME NEW p \in all PROVE third[p] \in low..high
    <2>1. third[p] \in values
      BY <1>10
    <2> HIDE DEF values, low, high
    <2>2. low <= third[p] /\ third[p] <= high /\ third[p] \in Int
      BY <1>9, <1>11, <2>1
    <2> QED
      BY <1>12, <2>2
  <1>14. count \in Nat \ {0}
    BY <1>6, <1>7, FS_CardinalityType, FS_EmptySet
  <1> HIDE DEF low, high
  <1>15. sum \in Int /\ count * low <= sum /\ sum <= count * high
    BY <1>6, <1>12, <1>13, SumBetween
  <1> HIDE DEF sum, count
  <1>16. refined \in low..high
    BY <1>12, <1>14, <1>15, HalfBetween
  <1>17. Refine(members, f) = <<refined, FactorUnit>>
    BY <1>1 DEF sum, count
  <1> QED
    BY <1>12, <1>16, <1>17

-----------------------------------------------------------------------------
(* The evidence: every day the rights issue shows on.                      *)

LEMMA EvidenceIs ==
    ASSUME FactsInv, PreciseWhole
    PROVE  LET rows == EvidenceOf(GridStart..today)
           IN  /\ rows \in Seq(Range(rows)) /\ Len(rows) \in Nat
               /\ \A k \in 1..Len(rows) : IsRow(rows[k]) /\ rows[k] = [day |-> rows[k].day, prices |-> ReversedPrices(rows[k].day)]
               /\ \A i, j \in 1..Len(rows) : i < j => rows[i].day < rows[j].day
               /\ \A day \in Days : day >= GridStart /\ ~Placeholder(day) /\ ~AllWhole(ReversedPrices(day)) =>
                    \E k \in 1..Len(rows) : rows[k].day = day
  <1> DEFINE chosen == {day \in GridStart..today : ~Placeholder(day) /\ ~AllWhole(ReversedPrices(day))}
             order == InOrder(chosen)
             rows == [i \in DOMAIN order |-> [day |-> order[i], prices |-> ReversedPrices(order[i])]]
  <1>1. EvidenceOf(GridStart..today) = rows
    BY DEF EvidenceOf
  <1>2. GridStart \in Nat \ {0} /\ MaxDay \in Nat /\ today = MaxDay
    BY FactorConstants, SourceConstants DEF FactsInv
  <1>3. chosen \in SUBSET Int /\ IsFiniteSet(chosen)
    <2>1. IsFiniteSet(GridStart..today) /\ GridStart..today \in SUBSET Int
      BY <1>2, FS_Interval
    <2> QED
      BY <2>1, FS_Subset
  <1>4. ASSUME NEW day \in chosen PROVE day \in Days /\ day >= GridStart /\ Affected(day)
    <2>1. day \in Days /\ day >= GridStart
      BY <1>2 DEF Days
    <2>2. ~AllWhole(ReversedPrices(day))
      OBVIOUS
    <2> QED
      BY <2>1, <2>2, OthersAreWhole
  <1>5. \A day \in Days : day >= GridStart /\ ~Placeholder(day) /\ ~AllWhole(ReversedPrices(day)) => day \in chosen
    BY <1>2 DEF Days
  <1> HIDE DEF chosen
  <1>6. /\ order \in Seq(chosen)
        /\ \A x \in chosen : \E i \in 1..Len(order) : order[i] = x
        /\ \A i, j \in 1..Len(order) : i < j => order[i] < order[j]
    BY <1>3, InOrderIs
  <1> HIDE DEF order
  <1>7. Len(order) \in Nat /\ DOMAIN order = 1..Len(order) /\ \A i \in 1..Len(order) : order[i] \in chosen
    BY <1>6
  <1>8. /\ DOMAIN rows = 1..Len(order)
        /\ \A i \in 1..Len(order) : rows[i] = [day |-> order[i], prices |-> ReversedPrices(order[i])]
    BY <1>7
  <1>9. rows \in Seq(Range(rows)) /\ Len(rows) = Len(order)
    <2>1. rows = [i \in 1..Len(order) |-> rows[i]] /\ \A i \in 1..Len(order) : rows[i] \in Range(rows)
      BY <1>7, <1>8 DEF Range
    <2> HIDE DEF rows
    <2> QED
      BY <1>7, <2>1
  <1> HIDE DEF rows
  <1>10. ASSUME NEW k \in 1..Len(rows)
         PROVE  IsRow(rows[k]) /\ rows[k] = [day |-> rows[k].day, prices |-> ReversedPrices(rows[k].day)]
    <2>1. order[k] \in chosen /\ rows[k] = [day |-> order[k], prices |-> ReversedPrices(order[k])]
      BY <1>7, <1>8, <1>9
    <2>2. rows[k].day = order[k] /\ rows[k].prices = ReversedPrices(order[k])
      BY <2>1
    <2>3. order[k] \in Days /\ order[k] >= GridStart /\ Affected(order[k])
      BY <1>4, <2>1
    <2> QED
      BY <2>1, <2>2, <2>3 DEF IsRow
  <1>11. \A k \in 1..Len(rows) : rows[k].day = order[k]
    BY <1>8, <1>9
  <1>12. \A i, j \in 1..Len(rows) : i < j => rows[i].day < rows[j].day
    BY <1>6, <1>9, <1>11
  <1>13. \A day \in chosen : \E k \in 1..Len(rows) : rows[k].day = day
    BY <1>6, <1>9, <1>11
  <1> QED
    BY <1>1, <1>5, <1>7, <1>9, <1>10, <1>12, <1>13

-----------------------------------------------------------------------------
(* The runs that are found.                                                *)

\* A factor between two refined ones.
IsRefined(factor) ==
    \E low, high \in RefinedFactors(rights.by) : \E refined \in low..high : factor = <<refined, FactorUnit>>

\* The runs cover days that the rights issue came after, and a proven factor undoes it.
Sound(found) ==
    \A run \in found, day \in Days : run.first <= day /\ day <= run.last =>
        Affected(day) /\ day >= GridStart /\ (run.factor # Unproven => IsRefined(run.factor))
\* They cover every day it shows on.
Complete(found) ==
    \A day \in Days : day >= GridStart /\ ~Placeholder(day) /\ ~AllWhole(ReversedPrices(day)) =>
        Covering(found, day) # {}

LEMMA FoundIs ==
    ASSUME FactsInv, PreciseNumbers
    PROVE  LET found == Range(FindRuns(EvidenceOf(GridStart..today))) IN Sound(found) /\ Complete(found)
  <1> DEFINE rows == EvidenceOf(GridStart..today)
             found == Range(FindRuns(rows))
             n == Len(rows)
  <1>1. PreciseWhole /\ PreciseFits(rights.by)
    BY DEF PreciseNumbers, FactsInv
  <1>2. /\ rows \in Seq(Range(rows)) /\ n \in Nat
        /\ \A k \in 1..n : IsRow(rows[k]) /\ rows[k] = [day |-> rows[k].day, prices |-> ReversedPrices(rows[k].day)]
        /\ \A i, j \in 1..n : i < j => rows[i].day < rows[j].day
        /\ \A day \in Days : day >= GridStart /\ ~Placeholder(day) /\ ~AllWhole(ReversedPrices(day)) =>
             \E k \in 1..n : rows[k].day = day
    BY <1>1, EvidenceIs
  <1> HIDE DEF rows, n
  <1>3. n = Len(rows) /\ (rows = <<>> <=> n = 0)
    BY <1>2 DEF n
  <1>4. CASE n = 0
    <2>1. FindRuns(rows) = <<>>
      <3> DEFINE f == <<1, 1>>
      <3>1. rows = <<>> /\ 1..Len(rows) = {}
        BY <1>3, <1>4
      <3>2. /\ rows # <<>> => f \in Candidates(rows[Len(rows)])
            /\ \A k \in 1..Len(rows) : Fits(GridOn(rows[k].day), rows[k].prices, f)
        BY <3>1
      <3> HIDE DEF f
      <3> QED
        BY <1>2, <3>1, <3>2, FindRunsIs
    <2>2. found = {}
      BY <2>1 DEF Range
    <2>3. Sound(found)
      BY <2>2 DEF Sound
    <2>4. Complete(found)
      BY <1>2, <1>4 DEF Complete
    <2> QED
      BY <2>3, <2>4 DEF rows
  <1>5. CASE n # 0
    <2> DEFINE newest == rows[n].day
               f == TrueFactor(newest)
    <2>1. n \in 1..n /\ 1 \in 1..n
      BY <1>2, <1>5
    <2>2. newest \in Days /\ newest >= GridStart /\ Affected(newest)
      BY <1>2, <2>1 DEF IsRow
    <2>3. rows[n] = [day |-> newest, prices |-> ReversedPrices(newest)]
      BY <1>2, <2>1
    <2> HIDE DEF newest
    <2>4. f \in Candidates(rows[n])
      BY <1>1, <2>2, <2>3, TrueIsTried
    <2>5. ASSUME NEW k \in 1..n PROVE Fits(GridOn(rows[k].day), rows[k].prices, f)
      <3>1. rows[k].day \in Days /\ rows[k].day >= GridStart /\ Affected(rows[k].day) /\ rows[k].prices = ReversedPrices(rows[k].day)
        BY <1>2 DEF IsRow
      <3> QED
        BY <1>1, <2>2, <3>1, TrueFits
    <2> HIDE DEF f
    <2>6. PICK passing \in SUBSET Candidates(rows[n]) : f \in passing /\ FindRuns(rows) = <<Close(rows, passing)>>
      BY <1>2, <1>3, <1>5, <2>4, <2>5, FindRunsIs
    <2> DEFINE run == Close(rows, passing)
    <2>7. found = {run}
      BY <2>6 DEF Range
    <2>8. run.first = rows[1].day /\ run.last = rows[n].day
      BY <1>3 DEF Close, Last
    <2>9. ASSUME run.factor # Unproven PROVE IsRefined(run.factor)
      <3>1. Cardinality(passing) = 1 /\ run.factor = Refine(rows, CHOOSE h \in passing : TRUE)
        BY <2>9 DEF Close
      <3>2. IsFiniteSet(passing)
        <4>1. rows[n].prices[1] \in Positive
          <5>1. rows[n].prices = ReversedPrices(newest)
            BY <2>3
          <5>2. traded[newest].prices[1] \in Amount /\ Factor(newest) \in SplitFactors
                /\ ReversedPrices(newest)[1] = Seen(traded[newest].prices[1], Factor(newest), rights.by)
            BY <2>2, DayIsRead
          <5>3. ReversedPrices(newest)[1] \in Positive
            BY <1>1, <5>2, OneIsTried
          <5> QED
            BY <5>1, <5>3
        <4>2. IsFiniteSet(Candidates(rows[n]))
          BY <4>1, TriedFinite
        <4> QED
          BY <4>2, FS_Subset
      <3>3. passing = {f}
        BY <2>6, <3>1, <3>2, FS_Singleton
      <3>4. run.factor = Refine(rows, f)
        BY <3>1, <3>3
      <3>5. \E low, high \in RefinedFactors(rights.by) : \E refined \in low..high : Refine(rows, f) = <<refined, FactorUnit>>
        <4>1. \A k \in 1..Len(rows) : IsRow(rows[k])
          BY <1>2, <1>3
        <4>2. rows # <<>>
          BY <1>3, <1>5
        <4> QED
          BY <1>1, <1>2, <2>2, <4>1, <4>2, RefineIs DEF f
      <3> HIDE DEF run
      <3> QED
        BY <3>4, <3>5 DEF IsRefined
    <2> HIDE DEF run
    <2>10. \A k \in 1..n : rows[1].day <= rows[k].day /\ rows[k].day <= rows[n].day
      <3>1. ASSUME NEW k \in 1..n PROVE rows[1].day <= rows[k].day /\ rows[k].day <= rows[n].day
        <4>0. IsRow(rows[1]) /\ IsRow(rows[k]) /\ IsRow(rows[n])
          BY <1>2, <2>1
        <4>1. rows[1].day \in Int /\ rows[k].day \in Int /\ rows[n].day \in Int
          BY <4>0 DEF IsRow, Days
        <4>2. k = 1 \/ rows[1].day < rows[k].day
          BY <1>2, <2>1
        <4>3. k = n \/ rows[k].day < rows[n].day
          BY <1>2, <2>1
        <4> QED
          BY <4>1, <4>2, <4>3
      <3> QED
        BY <3>1
    <2>11. ASSUME NEW day \in Days, run.first <= day, day <= run.last
           PROVE  Affected(day) /\ day >= GridStart
      <3>0. IsRow(rows[1]) /\ IsRow(rows[n])
        BY <1>2, <2>1
      <3>1. rows[1].day >= GridStart /\ rows[1].day \in Int /\ rows[n].day \in Int /\ Affected(rows[n].day)
        BY <3>0 DEF IsRow, Days
      <3>2. day \in Int /\ GridStart \in Int
        BY FactorConstants DEF Days
      <3>3. rows[n].day < rights.day /\ rights.day <= today
        BY <3>1 DEF Affected
      <3>4. rights.day \in Int
        BY SourceConstants DEF FactsInv
      <3> QED
        BY <2>8, <2>11, <3>1, <3>2, <3>3, <3>4 DEF Affected
    <2>12. Sound(found)
      BY <2>7, <2>9, <2>11 DEF Sound
    <2>13. Complete(found)
      <3>1. ASSUME NEW day \in Days, day >= GridStart, ~Placeholder(day), ~AllWhole(ReversedPrices(day))
            PROVE  run \in Covering(found, day)
        <4>1. PICK k \in 1..n : rows[k].day = day
          BY <1>2, <3>1
        <4> QED
          BY <2>7, <2>8, <2>10, <4>1 DEF Covering
      <3> QED
        BY <3>1 DEF Complete
    <2> QED
      BY <2>12, <2>13 DEF rows
  <1> QED
    BY <1>4, <1>5

-----------------------------------------------------------------------------
(* The answers.                                                            *)

\* A refined factor makes an affected day read what was traded, and a dividend what was paid.
LEMMA RestoredIs ==
    ASSUME FactsInv, PreciseNumbers, NEW day \in Days, Affected(day), day >= GridStart,
           NEW factor, IsRefined(factor)
    PROVE  /\ RestorePrices(ReversedPrices(day), factor, day) = traded[day].prices
           /\ day \in DOMAIN dividends =>
                IsPaid(RestoreDividend(Times(Recorded(dividends[day], day), Factor(day)), factor), dividends[day])
  <1> DEFINE prices == traded[day].prices
             found == ReversedPrices(day)
             tiers == GridOn(day)
             by == rights.by
             split == Factor(day)
  <1>1. PreciseFits(by) /\ PreciseRefined(by)
    BY DEF PreciseNumbers, FactsInv
  <1>2. PICK low \in RefinedFactors(by), high \in RefinedFactors(by) :
            \E refined \in low..high : factor = <<refined, FactorUnit>>
    BY DEF IsRefined
  <1>3. PICK refined \in low..high : factor = <<refined, FactorUnit>>
    BY <1>2
  <1>4. /\ DOMAIN found = DOMAIN prices /\ split \in SplitFactors /\ prices \in Seq(Nat \ {0})
        /\ \A i \in DOMAIN prices :
             /\ prices[i] \in Nat \ {0} /\ prices[i] \in Amount /\ prices[i] \in Range(prices)
             /\ found[i] = Seen(prices[i], split, by)
    BY DayIsRead
  <1>5. tiers \in Seq(Tiers) /\ TicksAccepted(tiers) /\ tiers # <<>>
    <2>1. day \in Int
      BY DEF Days
    <2> QED
      BY <2>1, GridIs
  <1>6. \A price \in Range(prices) : IsValidPrice(tiers, price)
    BY <1>5 DEF FactsInv
  <1>7. /\ \A amount \in Amount :
             2 * Off(Times(Seen(amount, split, by), factor), amount) < Times(Seen(amount, split, by), factor)[2]
        /\ \A d \in Dividends : \A amount \in Range(d) :
             IsPaid(RestoreDividend(Seen(amount, split, by), factor), amount)
    BY <1>1, <1>3, <1>4 DEF PreciseRefined
  <1> HIDE DEF prices, found, tiers, split, by
  <1>8. ASSUME NEW i \in DOMAIN prices PROVE Nearest(tiers, Times(found[i], factor)) = prices[i]
    <2> DEFINE amount == prices[i]
               value == Seen(amount, split, by)
    <2>1. value \in Positive /\ amount \in Amount /\ amount \in Nat \ {0} /\ found[i] = value
      BY <1>1, <1>4, OneIsTried
    <2>2. PICK a \in Nat \ {0}, b \in Nat \ {0} : value = <<a, b>>
      BY <2>1 DEF Positive
    <2>3. refined \in Int /\ FactorUnit \in Nat \ {0}
      BY FactorConstants
    <2> DEFINE n == a * refined
               d == b * FactorUnit
    <2>4. Times(value, factor) = <<n, d>>
      BY <1>3, <2>2 DEF Times
    <2>5. n \in Int /\ d \in Nat \ {0}
      BY <2>2, <2>3
    <2>6. 2 * Off(Times(value, factor), amount) < Times(value, factor)[2]
      BY <1>7, <2>1
    <2> HIDE DEF n, d, value
    <2>7. 2 * Off(<<n, d>>, amount) < d
      BY <2>4, <2>6
    <2>8. IsValidPrice(tiers, amount)
      BY <1>4, <1>6
    <2> HIDE DEF amount
    <2>9. Nearest(tiers, <<n, d>>) = amount
      BY <1>5, <2>1, <2>5, <2>7, <2>8, NearestOf
    <2> QED
      BY <2>1, <2>4, <2>9 DEF amount
  <1>9. RestorePrices(found, factor, day) = prices
    <2>1. RestorePrices(found, factor, day) = [i \in DOMAIN found |-> Nearest(tiers, Times(found[i], factor))]
      BY DEF RestorePrices, tiers
    <2>2. prices = [i \in DOMAIN prices |-> prices[i]]
      BY <1>4
    <2> QED
      BY <1>4, <1>8, <2>1, <2>2
  <1>10. ASSUME day \in DOMAIN dividends
         PROVE  IsPaid(RestoreDividend(Times(Recorded(dividends[day], day), Factor(day)), factor), dividends[day])
    <2>1. dividends \in Dividends /\ dividends[day] \in Range(dividends)
      BY <1>10 DEF FactsInv, Range
    <2>2. Times(Recorded(dividends[day], day), Factor(day)) = Seen(dividends[day], split, by)
      BY DividendIsRead DEF split, by
    <2> QED
      BY <1>7, <2>1, <2>2
  <1> QED
    BY <1>9, <1>10 DEF found, prices

\* The runs of the whole history, once they are read.
RunsInv == runs = {} \/ runs = {FindRuns(EvidenceOf(GridStart..today))}

\* The runs an answer goes by are right, and none are needed when every day is whole.
LEMMA RunsForIs ==
    ASSUME FactsInv, PreciseNumbers, RunsInv, NEW range \in SUBSET Days
    PROVE  /\ RunsRead(range) = runs \/ RunsRead(range) = {FindRuns(EvidenceOf(GridStart..today))}
           /\ Sound(RunsFor(range))
           /\ WholeRange(range) \/ Complete(RunsFor(range))
  <1> DEFINE history == FindRuns(EvidenceOf(GridStart..today))
             all == {history}
  <1>1. RunsRead(range) = runs \/ RunsRead(range) = all
    BY DEF RunsRead
  <1>2. WholeRange(range) \/ RunsRead(range) = all
    BY DEF RunsRead, RunsInv
  <1> HIDE DEF history
  <1>3. CASE WholeRange(range)
    <2>1. RunsFor(range) = {}
      BY <1>3 DEF RunsFor
    <2> QED
      BY <1>1, <1>3, <2>1 DEF Sound, history
  <1>4. CASE ~WholeRange(range)
    <2>1. RunsFor(range) = Range(history)
      BY <1>2, <1>4 DEF RunsFor
    <2>2. Sound(Range(history)) /\ Complete(Range(history))
      BY FoundIs DEF history
    <2> QED
      BY <1>1, <2>1, <2>2 DEF history
  <1> QED
    BY <1>3, <1>4

\* A bar is answered with what was traded, or on a day that shows nothing.
LEMMA BarIs ==
    ASSUME FactsInv, PreciseNumbers, NEW found, Sound(found), NEW day \in Days,
           Amounts(found, day) # <<>>
    PROVE  Amounts(found, day) = traded[day].prices \/ ScaledToWhole(day)
  <1>1. CASE ~Affected(day)
    <2>1. PreciseWhole
      BY DEF PreciseNumbers
    <2> QED
      BY <1>1, <2>1, OthersAreWhole DEF Amounts
  <1>2. CASE Affected(day) /\ AllWhole(ReversedPrices(day))
    BY <1>2 DEF ScaledToWhole, Affected
  <1>3. CASE Affected(day) /\ ~AllWhole(ReversedPrices(day))
    <2>1. Proven(found, day) # {}
      BY <1>3 DEF Amounts
    <2> DEFINE run == CHOOSE run \in Proven(found, day) : TRUE
    <2>2. run \in Proven(found, day)
      BY <2>1
    <2>3. Amounts(found, day) = RestorePrices(ReversedPrices(day), run.factor, day)
      BY <1>3, <2>1 DEF Amounts
    <2> HIDE DEF run
    <2>4. run \in found /\ run.first <= day /\ day <= run.last /\ run.factor # Unproven
      BY <2>2 DEF Proven, Covering
    <2>5. IsRefined(run.factor) /\ day >= GridStart
      BY <2>4 DEF Sound
    <2> QED
      BY <1>3, <2>3, <2>5, RestoredIs
  <1> QED
    BY <1>1, <1>2, <1>3

\* A dividend that is not refused is answered as it was paid, but on a day without evidence.
LEMMA PaymentIs ==
    ASSUME FactsInv, PreciseNumbers, NEW found, Sound(found), NEW day \in Days \cap DOMAIN dividends,
           Covering(found, day) \ Proven(found, day) = {},
           Complete(found) \/ AllWhole(ReversedPrices(day))
    PROVE  \/ IsPaid(Payment(found, day), dividends[day])
           \/ ScaledToWhole(day) \/ day < GridStart \/ Placeholder(day)
  <1>1. CASE Proven(found, day) = {}
    <2>1. Payment(found, day) = Times(Recorded(dividends[day], day), Factor(day))
      BY <1>1 DEF Payment
    <2>2. CASE ~Affected(day)
      <3>1. Payment(found, day) = Seen(dividends[day], Factor(day), <<1, 1>>)
        BY <2>1, <2>2, DividendIsRead
      <3>2. dividends \in Dividends /\ dividends[day] \in Range(dividends) /\ Factor(day) \in SplitFactors
        BY DayIsRead DEF FactsInv, Range
      <3> QED
        BY <3>1, <3>2 DEF PreciseNumbers, PreciseWhole
    <2>3. CASE Affected(day)
      <3>1. Covering(found, day) = {}
        BY <1>1
      <3>2. AllWhole(ReversedPrices(day)) \/ Placeholder(day) \/ ~(day >= GridStart)
        BY <3>1 DEF Complete
      <3>3. day \in Int /\ GridStart \in Int
        BY FactorConstants DEF Days
      <3> QED
        BY <2>3, <3>2, <3>3 DEF ScaledToWhole, Affected
    <2> QED
      BY <2>2, <2>3
  <1>2. CASE Proven(found, day) # {}
    <2> DEFINE run == CHOOSE run \in Proven(found, day) : TRUE
    <2>1. run \in Proven(found, day)
      BY <1>2
    <2>2. Payment(found, day) = RestoreDividend(Times(Recorded(dividends[day], day), Factor(day)), run.factor)
      BY <1>2 DEF Payment
    <2> HIDE DEF run
    <2>3. run \in found /\ run.first <= day /\ day <= run.last /\ run.factor # Unproven
      BY <2>1 DEF Proven, Covering
    <2>4. IsRefined(run.factor) /\ day >= GridStart /\ Affected(day)
      BY <2>3 DEF Sound
    <2> QED
      BY <2>2, <2>4, RestoredIs
  <1> QED
    BY <1>1, <1>2

-----------------------------------------------------------------------------
(* The answers of a run of the program.                                    *)

BarsInv == \A bar \in told : bar.day \in Days /\ (bar.prices = traded[bar.day].prices \/ ScaledToWhole(bar.day))
PaidInv ==
    \A payment \in paid :
        /\ payment.day \in Days
        /\ \/ IsPaid(payment.amount, dividends[payment.day])
           \/ ScaledToWhole(payment.day) \/ payment.day < GridStart \/ Placeholder(payment.day)
SourceInv == FactsInv /\ RunsInv /\ BarsInv /\ PaidInv

\* What is read stays what it is.
LEMMA ReadsStay ==
    ASSUME UNCHANGED <<traded, splits, rights, dividends, today>>
    PROVE  /\ FactsInv => FactsInv'
           /\ EvidenceOf(GridStart..today)' = EvidenceOf(GridStart..today)
           /\ \A day : ScaledToWhole(day)' = ScaledToWhole(day) /\ Placeholder(day)' = Placeholder(day)
  <1>1. \A day : ReversedPrices(day)' = ReversedPrices(day)
    BY DEF ReversedPrices, Recorded, Adjustment, Factor
  <1>2. \A day : Placeholder(day)' = Placeholder(day)
    BY DEF Placeholder
  <1>3. FactsInv => FactsInv'
    BY DEF FactsInv
  <1>4. EvidenceOf(GridStart..today)' = EvidenceOf(GridStart..today)
    BY <1>1, <1>2 DEF EvidenceOf
  <1>5. \A day : ScaledToWhole(day)' = ScaledToWhole(day)
    BY <1>1 DEF ScaledToWhole
  <1> QED
    BY <1>2, <1>3, <1>4, <1>5

LEMMA SourceInit == YInit => SourceInv
  BY DEF YInit, SourceInv, FactsInv, RunsInv, BarsInv, PaidInv

LEMMA SourceStays ==
    ASSUME SourceInv, UNCHANGED yvars
    PROVE  SourceInv'
  <1>1. UNCHANGED <<traded, splits, rights, dividends, today>> /\ UNCHANGED <<runs, told, paid>>
    BY DEF yvars, facts
  <1>2. /\ FactsInv'
        /\ EvidenceOf(GridStart..today)' = EvidenceOf(GridStart..today)
        /\ \A day : ScaledToWhole(day)' = ScaledToWhole(day) /\ Placeholder(day)' = Placeholder(day)
    BY <1>1, ReadsStay DEF SourceInv
  <1>3. RunsInv'
    BY <1>1, <1>2 DEF SourceInv, RunsInv
  <1>4. BarsInv'
    BY <1>1, <1>2 DEF SourceInv, BarsInv
  <1>5. PaidInv'
    BY <1>1, <1>2 DEF SourceInv, PaidInv
  <1> QED
    BY <1>2, <1>3, <1>4, <1>5 DEF SourceInv

LEMMA SourceNext ==
    ASSUME SourceInv, PreciseNumbers, YNext
    PROVE  SourceInv'
  <1>1. PICK start \in 1..today, end \in 1..today :
            start <= end /\ (ReadBars(start..end) \/ CorporateActions(start..end))
    BY DEF YNext
  <1> DEFINE range == start..end
             found == RunsFor(range)
  <1>2. range \in SUBSET Days
    BY SourceConstants DEF SourceInv, FactsInv, Days
  <1> HIDE DEF range
  <1>3. Read(range)
    BY <1>1 DEF ReadBars, CorporateActions, range
  <1>4. UNCHANGED <<traded, splits, rights, dividends, today>> /\ runs' = RunsRead(range)
    BY <1>3 DEF Read, facts
  <1>5. /\ FactsInv'
        /\ EvidenceOf(GridStart..today)' = EvidenceOf(GridStart..today)
        /\ \A day : ScaledToWhole(day)' = ScaledToWhole(day) /\ Placeholder(day)' = Placeholder(day)
    BY <1>4, ReadsStay DEF SourceInv
  <1>6. /\ RunsRead(range) = runs \/ RunsRead(range) = {FindRuns(EvidenceOf(GridStart..today))}
        /\ Sound(found)
        /\ WholeRange(range) \/ Complete(found)
    BY <1>2, RunsForIs DEF SourceInv
  <1> HIDE DEF found
  <1>7. RunsInv'
    BY <1>4, <1>5, <1>6 DEF SourceInv, RunsInv
  <1>8. ASSUME ReadBars(range) PROVE SourceInv'
    <2> DEFINE traders == {day \in range : IsTradingDay(Calendar, day)}
               answers == {[day |-> day, prices |-> Amounts(found, day)] : day \in traders}
    <2>1. /\ paid' = paid
          /\ told' = told \/ (told' = told \cup answers /\ \A bar \in answers : bar.prices # <<>>)
      BY <1>8 DEF ReadBars, found
    <2>2. ASSUME NEW bar \in answers, bar.prices # <<>>
          PROVE  bar.day \in Days /\ (bar.prices = traded[bar.day].prices \/ ScaledToWhole(bar.day))
      <3>1. PICK day \in traders : bar = [day |-> day, prices |-> Amounts(found, day)]
        BY <2>2
      <3>2. day \in Days /\ bar.day = day /\ bar.prices = Amounts(found, day)
        BY <1>2, <3>1
      <3> QED
        BY <1>6, <2>2, <3>2, BarIs DEF SourceInv
    <2> HIDE DEF answers
    <2>3. \A bar \in told' : bar.day \in Days /\ (bar.prices = traded[bar.day].prices \/ ScaledToWhole(bar.day))
      BY <2>1, <2>2 DEF SourceInv, BarsInv
    <2>4. BarsInv'
      BY <1>4, <1>5, <2>3 DEF BarsInv
    <2>5. PaidInv'
      BY <1>4, <1>5, <2>1 DEF SourceInv, PaidInv
    <2> QED
      BY <1>5, <1>7, <2>4, <2>5 DEF SourceInv
  <1>9. ASSUME CorporateActions(range) PROVE SourceInv'
    <2> DEFINE due == range \cap DOMAIN dividends
               payments == {[day |-> day, amount |-> Payment(found, day)] : day \in due}
               right(payment) ==
                    \/ IsPaid(payment.amount, dividends[payment.day])
                    \/ ScaledToWhole(payment.day) \/ payment.day < GridStart \/ Placeholder(payment.day)
    <2>1. /\ told' = told
          /\ paid' = paid \/ (paid' = paid \cup payments /\
                \A day \in due, run \in found : run \notin Covering(found, day) \ Proven(found, day))
      BY <1>9 DEF CorporateActions, found
    <2>2. ASSUME NEW payment \in payments,
                 \A day \in due, run \in found : run \notin Covering(found, day) \ Proven(found, day)
          PROVE  payment.day \in Days /\ right(payment)
      <3>1. PICK day \in due : payment = [day |-> day, amount |-> Payment(found, day)]
        OBVIOUS
      <3>2. day \in Days \cap DOMAIN dividends /\ payment.day = day /\ payment.amount = Payment(found, day) /\ day \in range
        BY <1>2, <3>1
      <3>3. Covering(found, day) \ Proven(found, day) = {}
        BY <2>2 DEF Covering
      <3>4. Complete(found) \/ AllWhole(ReversedPrices(day))
        BY <1>6, <3>2 DEF WholeRange
      <3> QED
        BY <1>6, <3>2, <3>3, <3>4, PaymentIs DEF SourceInv
    <2> HIDE DEF payments, due
    <2>3. \A payment \in paid' : payment.day \in Days /\ right(payment)
      BY <2>1, <2>2 DEF SourceInv, PaidInv
    <2>4. PaidInv'
      BY <1>4, <1>5, <2>3 DEF PaidInv
    <2>5. BarsInv'
      BY <1>4, <1>5, <2>1 DEF SourceInv, BarsInv
    <2> QED
      BY <1>5, <1>7, <2>4, <2>5 DEF SourceInv
  <1> QED
    BY <1>1, <1>8, <1>9 DEF range

LEMMA SourceAlways ==
    ASSUME PreciseNumbers
    PROVE  YSpec => []SourceInv
  <1>1. SourceInv /\ [YNext]_yvars => SourceInv'
    BY SourceNext, SourceStays
  <1> QED
    BY <1>1, SourceInit, PTL DEF YSpec

\* Every bar answered holds the prices the stock traded at, whichever ranges are asked for and
\* in which order, for any splits and rights issue, when the numbers are precise enough for
\* the roundings not to matter (unadjust, find_runs, YahooDataSource._runs_for).
THEOREM BarsAreReadAsTraded ==
    ASSUME PreciseNumbers
    PROVE  YSpec => []ReadAsTraded
  <1>1. SourceInv => ReadAsTraded
    BY DEF SourceInv, BarsInv, ReadAsTraded
  <1> QED
    BY <1>1, SourceAlways, PTL

\* And every dividend answered is what was paid, but on a day without evidence (actions_in).
THEOREM DividendsAreAsPaid ==
    ASSUME PreciseNumbers
    PROVE  YSpec => []DividendsAsPaid
  <1>1. SourceInv => DividendsAsPaid
    BY DEF SourceInv, PaidInv, DividendsAsPaid
  <1> QED
    BY <1>1, SourceAlways, PTL
=============================================================================
