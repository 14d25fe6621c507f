-------------------------- MODULE StrategiesProofs --------------------------
(***************************************************************************)
(* The figures an investor asks for are what they say they are: the ends   *)
(* of a price band and the costs of a trade are exact, a projection is     *)
(* never put off by more money, and the run-rate is what was paid. And the *)
(* stocks that dividend-growth picks grew, as a holder of them saw it, and *)
(* every strategy spends the cash once, whatever its roundings. And the    *)
(* settings a run goes by are the operator's (ConfigFile). Proved for all  *)
(* accepted tables, histories, portfolios, settings and edits of the file. *)
(***************************************************************************)
EXTENDS Strategies, Figures, ConfigFile, SumProofs, SequenceTheorems

-----------------------------------------------------------------------------
(* Ticks and bands.                                                        *)

\* A multiple of the divisor at or below a number is at or below what is left without the rest.
LEMMA MultipleBelow ==
    ASSUME NEW a \in Nat, NEW b \in Nat \ {0}, NEW m \in Nat, m % b = 0, m <= a
    PROVE  m <= a - (a % b) /\ (a - (a % b)) % b = 0 /\ a - (a % b) \in Nat
  <1> DEFINE q == a \div b
             k == m \div b
  <1>1. q \in Int /\ a = b * q + (a % b) /\ a % b \in 0..b - 1
    BY Quotient, Remainder
  <1>2. k \in Int /\ m = b * k
    BY Quotient, Remainder
  <1>3. k <= q
    BY <1>2, QuotientIsMost
  <1> HIDE DEF q, k
  <1>4. b * k <= b * q
    BY <1>1, <1>2, <1>3, TimesKeepsOrder
  <1>5. a - (a % b) = b * q
    BY <1>1
  <1>6. (b * q) % b = 0
    BY <1>1, MultiplesLeaveNothing
  <1> QED
    BY <1>1, <1>2, <1>4, <1>5, <1>6

LEMMA MultipleAbove ==
    ASSUME NEW a \in Nat, NEW b \in Nat \ {0}, a % b # 0
    PROVE  /\ a + b - (a % b) \in Nat /\ a + b - (a % b) > a /\ (a + b - (a % b)) % b = 0
           /\ \A m \in Nat : m % b = 0 /\ a <= m => a + b - (a % b) <= m
  <1> DEFINE q == a \div b
  <1>1. q \in Int /\ a = b * q + (a % b) /\ a % b \in 0..b - 1
    BY Quotient, Remainder
  <1> HIDE DEF q
  <1>2. a + b - (a % b) = b * (q + 1)
    <2>1. b * (q + 1) = b * q + b
      BY <1>1
    <2> QED
      BY <1>1, <2>1
  <1>3. (b * (q + 1)) % b = 0
    BY <1>1, MultiplesLeaveNothing
  <1>4. ASSUME NEW m \in Nat, m % b = 0, a <= m PROVE a + b - (a % b) <= m
    <2> DEFINE k == m \div b
    <2>1. k \in Int /\ m = b * k
      BY <1>4, Quotient, Remainder
    <2> HIDE DEF k
    <2>2. ~ (k <= q)
      <3>1. SUFFICES ASSUME k <= q PROVE FALSE
        OBVIOUS
      <3>2. b * k <= b * q
        BY <1>1, <2>1, <3>1, TimesKeepsOrder
      <3> QED
        BY <1>1, <1>4, <2>1, <3>2
    <2>3. q + 1 <= k
      BY <1>1, <2>1, <2>2
    <2>4. b * (q + 1) <= b * k
      BY <1>1, <2>1, <2>3, TimesKeepsOrder
    <2> QED
      BY <1>2, <2>1, <2>4
  <1> QED
    BY <1>1, <1>2, <1>3, <1>4

\* Rounded down to a tick a price is the highest on a tick, also where it leaves its tier.
LEMMA DownIsHighest ==
    ASSUME NEW tiers \in Seq(Tiers), TicksAccepted(tiers), NEW price \in Nat \ {0}
    PROVE  LET down == RoundDown(tiers, price)
           IN  /\ down \in 0..price
               /\ down > 0 => IsValidPrice(tiers, down)
               /\ \A x \in 1..price : IsValidPrice(tiers, x) => x <= down
  <1>1. PICK i \in 1..Len(tiers) :
            /\ tiers[i].from <= price
            /\ \A j \in 1..Len(tiers) : j > i => price < tiers[j].from
            /\ Tick(tiers, price) = tiers[i].tick
    BY TierOfPrice
  <1>2. PICK t \in Nat \ {0}, from \in Nat \ {0} :
            t = tiers[i].tick /\ from = tiers[i].from /\ from <= price
    BY <1>1, TiersBegin
  <1> DEFINE down == price - (price % t)
  <1>3. RoundDown(tiers, price) = down
    BY <1>1, <1>2 DEF RoundDown
  <1>4. price % t \in 0..t - 1
    OBVIOUS
  <1>5. down % t = 0 /\ down \in Nat
    <2>1. 0 % t = 0 /\ 0 <= price
      BY <1>2
    <2>2. 0 \in Nat /\ price \in Nat
      OBVIOUS
    <2> QED
      BY <1>2, <2>1, <2>2, MultipleBelow
  <1>6. i # 1 => from % t = 0 /\ from <= down
    <2>1. SUFFICES ASSUME i # 1 PROVE from % t = 0 /\ from <= down
      OBVIOUS
    <2>2. i - 1 \in 1..Len(tiers) - 1 /\ (i - 1) + 1 = i
      BY <2>1, TiersBegin
    <2>3. from % t = 0
      BY <1>2, <2>2, TiersBegin
    <2> QED
      BY <1>2, <2>3, MultipleBelow
  <1>7. ASSUME down > 0 PROVE IsValidPrice(tiers, down)
    <2>1. from <= down
      <3>1. CASE i = 1
        BY <1>2, <1>5, <1>7, <3>1, TiersBegin
      <3> QED
        BY <1>6, <3>1
    <2>2. \A j \in 1..Len(tiers) : j > i => down < tiers[j].from
      <3> TAKE j \in 1..Len(tiers)
      <3>1. tiers[j].from \in Nat /\ (j > i => price < tiers[j].from)
        BY <1>1, TiersBegin
      <3>2. down <= price
        BY <1>2, <1>4
      <3> QED
        BY <1>2, <1>5, <3>1, <3>2
    <2>3. down \in Nat \ {0}
      BY <1>5, <1>7
    <2> HIDE DEF down
    <2>4. Tick(tiers, down) = t
      BY <1>2, <2>1, <2>2, <2>3, TierIs
    <2> QED
      BY <1>5, <2>4 DEF IsValidPrice
  <1>8. ASSUME NEW x \in 1..price, IsValidPrice(tiers, x) PROVE x <= down
    <2>1. CASE from <= x
      <3>1. \A j \in 1..Len(tiers) : j > i => x < tiers[j].from
        <4> TAKE j \in 1..Len(tiers)
        <4>1. tiers[j].from \in Nat /\ (j > i => price < tiers[j].from)
          BY <1>1, TiersBegin
        <4> QED
          BY <4>1
      <3>2. x \in Nat \ {0} /\ i \in 1..Len(tiers) /\ tiers[i].from <= x /\ tiers[i].tick = t
        BY <1>2, <2>1
      <3> HIDE DEF down
      <3>3. Tick(tiers, x) = tiers[i].tick
        BY <3>1, <3>2, TierIs
      <3>4. x % t = 0
        BY <1>8, <3>2, <3>3 DEF IsValidPrice
      <3> QED
        BY <1>2, <3>4, MultipleBelow DEF down
    <2>2. CASE x < from
      <3>1. i # 1
        BY <1>2, <2>2, TiersBegin
      <3> QED
        BY <1>2, <1>5, <1>6, <2>2, <3>1
    <2> QED
      BY <1>2, <2>1, <2>2
  <1>9. down \in 0..price
    BY <1>2, <1>4, <1>5
  <1> HIDE DEF down
  <1> QED
    BY <1>3, <1>7, <1>8, <1>9

\* Rounded up to a tick a price is the lowest on a tick, also where it reaches the next tier.
LEMMA UpIsLowest ==
    ASSUME NEW tiers \in Seq(Tiers), TicksAccepted(tiers), NEW price \in Nat \ {0}
    PROVE  LET up == RoundUp(tiers, price)
           IN  /\ up \in Nat /\ price <= up
               /\ IsValidPrice(tiers, up)
               /\ \A x \in Nat : price <= x /\ IsValidPrice(tiers, x) => up <= x
  <1>1. PICK i \in 1..Len(tiers) :
            /\ tiers[i].from <= price
            /\ \A j \in 1..Len(tiers) : j > i => price < tiers[j].from
            /\ Tick(tiers, price) = tiers[i].tick
    BY TierOfPrice
  <1>2. PICK t \in Nat \ {0} : t = tiers[i].tick /\ tiers[i].from \in Nat
    BY <1>1, TiersBegin
  <1> DEFINE up == RoundUp(tiers, price)
  <1>3. price % t = 0 => up = price
    BY <1>1, <1>2 DEF RoundUp
  <1>4. price % t # 0 => up = price + t - (price % t)
    BY <1>1, <1>2 DEF RoundUp
  <1> HIDE DEF up
  <1>5. /\ up \in Nat /\ price <= up /\ up % t = 0
        /\ \A m \in Nat : m % t = 0 /\ price <= m => up <= m
    <2>1. CASE price % t = 0
      BY <1>3, <2>1
    <2>2. CASE price % t # 0
      <3>1. /\ price + t - (price % t) \in Nat /\ price + t - (price % t) > price
            /\ (price + t - (price % t)) % t = 0
            /\ \A m \in Nat : m % t = 0 /\ price <= m => price + t - (price % t) <= m
        BY <2>2, MultipleAbove
      <3>2. up = price + t - (price % t)
        BY <1>4, <2>2
      <3> QED
        BY <3>1, <3>2
    <2> QED
      BY <2>1, <2>2
  <1>6. ASSUME NEW x \in Nat, price <= x, \A j \in 1..Len(tiers) : j > i => x < tiers[j].from
        PROVE  Tick(tiers, x) = t
    <2>1. x \in Nat \ {0} /\ tiers[i].from <= x
      BY <1>1, <1>2, <1>6
    <2> QED
      BY <1>2, <1>6, <2>1, TierIs
  <1>7. i # Len(tiers) => /\ i + 1 \in 1..Len(tiers) /\ tiers[i + 1].from \in Nat
                          /\ up <= tiers[i + 1].from
                          /\ tiers[i + 1].from % tiers[i + 1].tick = 0
    <2>1. SUFFICES ASSUME i # Len(tiers)
                   PROVE  /\ i + 1 \in 1..Len(tiers) /\ tiers[i + 1].from \in Nat
                          /\ up <= tiers[i + 1].from
                          /\ tiers[i + 1].from % tiers[i + 1].tick = 0
      OBVIOUS
    <2>2. i \in 1..Len(tiers) - 1 /\ i + 1 \in 1..Len(tiers) /\ i + 1 > i
      BY <2>1, TiersBegin
    <2>3. tiers[i + 1].from \in Nat /\ tiers[i + 1].from % t = 0 /\ price < tiers[i + 1].from
      BY <1>1, <1>2, <2>2, TiersBegin
    <2>4. tiers[i + 1].from % tiers[i + 1].tick = 0
      BY <2>2, TiersBegin
    <2> QED
      BY <1>5, <2>2, <2>3, <2>4
  <1>8. \A x \in Nat : i # Len(tiers) /\ x < tiers[i + 1].from =>
                            \A j \in 1..Len(tiers) : j > i => x < tiers[j].from
    <2> TAKE x \in Nat
    <2>1. SUFFICES ASSUME i # Len(tiers), x < tiers[i + 1].from, NEW j \in 1..Len(tiers), j > i
                   PROVE  x < tiers[j].from
      OBVIOUS
    <2>2. i + 1 = j \/ i + 1 < j
      BY <2>1
    <2>3. tiers[i + 1].from <= tiers[j].from /\ tiers[j].from \in Nat /\ tiers[i + 1].from \in Nat
      BY <1>7, <2>1, <2>2, TiersRise, TiersBegin
    <2> QED
      BY <2>1, <2>3
  <1>9. IsValidPrice(tiers, up)
    <2>1. CASE i # Len(tiers) /\ up = tiers[i + 1].from
      <3>1. up \in Nat \ {0} /\ i + 1 \in 1..Len(tiers)
        BY <1>5, <1>7, <2>1
      <3>2. \A j \in 1..Len(tiers) : j > i + 1 => up < tiers[j].from
        BY <2>1, <3>1, TiersRise
      <3>3. tiers[i + 1].from <= up
        BY <1>7, <2>1
      <3>4. Tick(tiers, up) = tiers[i + 1].tick
        BY <3>1, <3>2, <3>3, TierIs
      <3> QED
        BY <1>7, <2>1, <3>4 DEF IsValidPrice
    <2>2. CASE i = Len(tiers) \/ up # tiers[i + 1].from
      <3>1. \A j \in 1..Len(tiers) : j > i => up < tiers[j].from
        <4>1. CASE i = Len(tiers)
          BY <4>1
        <4>2. CASE i # Len(tiers)
          <5>1. up < tiers[i + 1].from
            BY <1>5, <1>7, <2>2, <4>2
          <5> QED
            BY <1>5, <1>8, <4>2, <5>1
        <4> QED
          BY <4>1, <4>2
      <3>2. Tick(tiers, up) = t
        BY <1>5, <1>6, <3>1
      <3> QED
        BY <1>5, <3>2 DEF IsValidPrice
    <2> QED
      BY <2>1, <2>2
  <1>10. ASSUME NEW x \in Nat, price <= x, IsValidPrice(tiers, x) PROVE up <= x
    <2>1. CASE i # Len(tiers) /\ tiers[i + 1].from <= x
      BY <1>5, <1>7, <2>1
    <2>2. CASE i = Len(tiers) \/ x < tiers[i + 1].from
      <3>1. \A j \in 1..Len(tiers) : j > i => x < tiers[j].from
        BY <1>8, <2>2
      <3>2. Tick(tiers, x) = t
        BY <1>6, <1>10, <3>1
      <3>3. x % t = 0
        BY <1>10, <3>2 DEF IsValidPrice
      <3> QED
        BY <1>5, <1>10, <3>3
    <2> QED
      BY <1>7, <2>1, <2>2
  <1> QED
    BY <1>5, <1>9, <1>10 DEF up

\* A reference is in a tier of an accepted band, so that some way up is allowed.
LEMMA TopIsAbove ==
    ASSUME NEW band \in BandTables, BandsAccepted(band), NEW reference \in References,
           reference >= band.minPrice
    PROVE  /\ band.minPrice \in Nat \ {0}
           /\ Bottom(band, reference) \in Int
           /\ Top(band, reference) \in Int /\ Top(band, reference) >= 100
  <1> DEFINE T == {i \in DOMAIN band.tiers : i = Len(band.tiers) \/ reference <= band.tiers[i].upTo}
  <1>1. /\ band.minPrice \in Int /\ band.minPrice >= 1 /\ reference \in Nat
        /\ band.tiers \in Seq(BandTiers) /\ Len(band.tiers) > 0
    <2>1. band \in [minPrice : Int, tiers : Seq(BandTiers)] /\ reference \in Nat
      BY FiguresConstants
    <2> QED
      BY <2>1 DEF BandsAccepted
  <1>2. T \in SUBSET Nat /\ Len(band.tiers) \in T
    BY <1>1
  <1>3. PICK i \in T : \A k \in T : i <= k
    BY <1>2, Least
  <1>4. Min(T) = i /\ i \in 1..Len(band.tiers)
    <2>1. T \in SUBSET Int /\ i \in 1..Len(band.tiers)
      BY <1>1, <1>2
    <2> HIDE DEF T
    <2> QED
      BY <1>3, <2>1, LeastIs
  <1>5. PICK tier \in BandTiers : tier = band.tiers[i]
    BY <1>1, <1>4
  <1>6. BandTier(band, reference) = tier
    BY <1>4, <1>5 DEF BandTier
  <1>7. tier.up \in Int /\ tier.down \in Int /\ tier.up > 0
    <2>1. tier \in Range(band.tiers)
      BY <1>1, <1>4, <1>5 DEF Range
    <2> QED
      BY <1>5, <2>1 DEF BandsAccepted, BandTiers
  <1>8. reference * (100 - tier.down) \in Int /\ reference * (100 + tier.up) \in Int
    BY <1>1, <1>7
  <1>9. reference * (100 + tier.up) >= 100
    <2>1. 100 * 1 <= 100 * reference
      BY <1>1
    <2>2. reference * 100 <= reference * (100 + tier.up)
      BY <1>1, <1>7, TimesKeepsOrder
    <2> QED
      BY <1>1, <1>8, <2>1, <2>2
  <1>10. Bottom(band, reference) \in Int
    BY <1>1, <1>6, <1>7, <1>8 DEF Bottom
  <1>11. Top(band, reference) \in Int /\ Top(band, reference) >= 100
    <2>1. CASE tier.inRupiah
      <3>1. Top(band, reference) = 100 * (reference + tier.up)
        BY <1>6, <2>1 DEF Top
      <3> QED
        BY <1>1, <1>7, <3>1
    <2>2. CASE ~ tier.inRupiah
      <3>1. Top(band, reference) = reference * (100 + tier.up)
        BY <1>6, <2>2 DEF Top
      <3> QED
        BY <1>8, <1>9, <3>1
    <2> QED
      BY <2>1, <2>2
  <1> QED
    BY <1>1, <1>10, <1>11

\* The greater of two numbers.
LEMMA GreaterOf ==
    ASSUME NEW a \in Int, NEW b \in Int
    PROVE  Max({a, b}) = IF a >= b THEN a ELSE b
  <1>1. CASE a >= b
    BY <1>1, GreatestIs
  <1>2. CASE ~ (a >= b)
    BY <1>2, GreatestIs
  <1> QED
    BY <1>1, <1>2

\* What BandIsExact says of a question about accepted tables.
LEMMA BandOfTables ==
    ASSUME NEW tiers \in TickTables, TicksAccepted(tiers),
           NEW band \in BandTables, BandsAccepted(band), NEW reference \in References,
           reference >= band.minPrice
    PROVE  LET top == Top(band, reference)
               bottom == Max({Bottom(band, reference), 100 * band.minPrice})
               allowed == {price \in 1..(top \div 100) :
                               100 * price >= bottom /\ IsValidPrice(tiers, price)}
               ends == PriceBand(tiers, band, reference)
           IN  /\ allowed # {} => ends = <<Min(allowed), Max(allowed)>>
               /\ allowed = {} => ends[1] > ends[2]
  <1>1. PICK minPrice \in Nat \ {0}, below \in Int, top \in Int :
            /\ minPrice = band.minPrice
            /\ below = Bottom(band, reference) /\ top = Top(band, reference) /\ top >= 100
    BY TopIsAbove
  <1>2. tiers \in Seq(Tiers)
    BY FiguresConstants
  <1> DEFINE bottom == Max({below, 100 * minPrice})
             high == top \div 100
             low == Max({CeilDiv(below, 100), minPrice})
             allowed == {price \in 1..(Top(band, reference) \div 100) :
                            /\ 100 * price >= Max({Bottom(band, reference), 100 * band.minPrice})
                            /\ IsValidPrice(tiers, price)}
             up == RoundUp(tiers, low)
             down == RoundDown(tiers, high)
  <1>3. high \in Nat \ {0}
    <2>1. high \in Int
      BY Quotient
    <2>2. 1 <= high
      BY <1>1, QuotientIsMost
    <2> QED
      BY <2>1, <2>2
  <1>4. low \in Nat \ {0} /\ \A price \in Nat : 100 * price >= bottom <=> price >= low
    <2>1. CeilDiv(below, 100) \in Int
      BY CeilIsEnough
    <2>2. low = IF CeilDiv(below, 100) >= minPrice THEN CeilDiv(below, 100) ELSE minPrice
      BY <2>1, GreaterOf
    <2>3. bottom = IF below >= 100 * minPrice THEN below ELSE 100 * minPrice
      BY GreaterOf
    <2>4. low \in Nat \ {0}
      BY <2>1, <2>2
    <2>5. ASSUME NEW price \in Nat PROVE 100 * price >= bottom <=> price >= low
      <3>1. CeilDiv(below, 100) <= price <=> below <= 100 * price
        BY CeilIsLeast
      <3>2. 100 * price >= bottom <=> 100 * price >= below /\ 100 * price >= 100 * minPrice
        BY <2>3
      <3>3. price >= low <=> price >= CeilDiv(below, 100) /\ price >= minPrice
        BY <2>1, <2>2
      <3> QED
        BY <2>1, <3>1, <3>2, <3>3
    <2> QED
      BY <2>4, <2>5
  <1> HIDE DEF bottom, high, low
  <1>5. /\ up \in Nat /\ low <= up /\ IsValidPrice(tiers, up)
        /\ \A x \in Nat : low <= x /\ IsValidPrice(tiers, x) => up <= x
    BY <1>2, <1>4, UpIsLowest
  <1>6. /\ down \in 0..high /\ (down > 0 => IsValidPrice(tiers, down))
        /\ \A x \in 1..high : IsValidPrice(tiers, x) => x <= down
    BY <1>2, <1>3, DownIsHighest
  <1>7. PriceBand(tiers, band, reference) = <<up, down>>
    BY <1>1 DEF PriceBand, low, high
  <1> HIDE DEF up, down
  <1>8. allowed = {price \in 1..high : 100 * price >= bottom /\ IsValidPrice(tiers, price)}
    BY <1>1 DEF high, bottom
  <1> HIDE DEF allowed
  <1>9. \A x \in allowed : x \in Nat /\ up <= x /\ x <= down
    BY <1>3, <1>4, <1>5, <1>6, <1>8
  <1>10. up <= down => up \in allowed
    BY <1>3, <1>4, <1>5, <1>6, <1>8
  <1>11. ASSUME allowed # {} PROVE Min(allowed) = up /\ Max(allowed) = down
    <2>1. PICK x \in allowed : TRUE
      BY <1>11
    <2>2. up <= down /\ down > 0 /\ low <= down
      BY <1>3, <1>4, <1>5, <1>6, <1>9, <2>1
    <2>3. down \in allowed
      BY <1>3, <1>4, <1>6, <1>8, <2>2
    <2>4. up \in allowed /\ allowed \in SUBSET Int
      BY <1>9, <1>10, <2>2
    <2>5. Min(allowed) = up
      BY <1>9, <2>4, LeastIs
    <2>6. Max(allowed) = down
      BY <1>9, <2>3, <2>4, GreatestIs
    <2> QED
      BY <2>5, <2>6
  <1>12. ASSUME allowed = {} PROVE up > down
    BY <1>5, <1>6, <1>10, <1>12
  <1>13. allowed # {} => PriceBand(tiers, band, reference) = <<Min(allowed), Max(allowed)>>
    BY <1>7, <1>11
  <1>14. allowed = {} => PriceBand(tiers, band, reference)[1] > PriceBand(tiers, band, reference)[2]
    BY <1>7, <1>12
  <1> QED
    BY <1>13, <1>14 DEF allowed

-----------------------------------------------------------------------------
(* Costs of a trade.                                                       *)

\* Between two starts nothing changes.
LEMMA RowStays ==
    ASSUME NEW table, NEW day, NEW other,
           \A i \in DOMAIN table.starts : table.starts[i] <= day <=> table.starts[i] <= other
    PROVE  On(table, day) = On(table, other)
  <1>1. {i \in DOMAIN table.starts : table.starts[i] <= day}
            = {i \in DOMAIN table.starts : table.starts[i] <= other}
    OBVIOUS
  <1> QED
    BY <1>1 DEF On

\* The tables of a book, and the day from which all of them are in force.
LEMMA BookIsTyped ==
    ASSUME NEW fees \in FeeBooks, \A t \in FeeTables : IsDated(fees[t])
    PROVE  /\ fees.levy \in Dated([taxed : Nat, guarantee : Nat]) /\ IsDated(fees.levy)
           /\ fees.vat \in Dated(Nat) /\ IsDated(fees.vat)
           /\ fees.saleTax \in Dated(Nat) /\ IsDated(fees.saleTax)
           /\ FirstOfAll(fees) \in Int
           /\ \A t \in FeeTables : First(fees[t]) \in Int /\ First(fees[t]) <= FirstOfAll(fees)
  <1>1. /\ fees.levy \in Dated([taxed : Nat, guarantee : Nat]) /\ IsDated(fees.levy)
        /\ fees.vat \in Dated(Nat) /\ IsDated(fees.vat)
        /\ fees.saleTax \in Dated(Nat) /\ IsDated(fees.saleTax)
    <2>1. fees \in [levy : Dated([taxed : Nat, guarantee : Nat]), vat : Dated(Nat), saleTax : Dated(Nat)]
      BY FiguresConstants
    <2> QED
      BY <2>1 DEF FeeTables
  <1>2. ASSUME NEW V, NEW table \in Dated(V), IsDated(table) PROVE First(table) \in Int
    BY <1>2 DEF Dated, IsDated, First
  <1>3. PICK a \in Int, b \in Int, c \in Int :
            a = First(fees.levy) /\ b = First(fees.vat) /\ c = First(fees.saleTax)
    BY <1>1, <1>2
  <1> DEFINE T == {a, b, c}
  <1>4. PICK m \in T : \A k \in T : k <= m
    <2>1. CASE a >= b /\ a >= c
      BY <2>1
    <2>2. CASE b >= a /\ b >= c
      BY <2>2
    <2>3. CASE c >= a /\ c >= b
      BY <2>3
    <2> QED
      BY <2>1, <2>2, <2>3
  <1>5. {First(fees[t]) : t \in FeeTables} = T
    BY <1>3 DEF FeeTables
  <1>6. FirstOfAll(fees) = m
    <2>1. T \in SUBSET Int
      OBVIOUS
    <2> HIDE DEF T
    <2> QED
      BY <1>4, <1>5, <2>1, GreatestIs DEF FirstOfAll
  <1>7. m \in Int /\ \A t \in FeeTables : First(fees[t]) \in T
    BY <1>3 DEF FeeTables
  <1> HIDE DEF T
  <1>8. \A t \in FeeTables : First(fees[t]) <= m
    BY <1>4, <1>7
  <1>9. \A t \in FeeTables : First(fees[t]) \in Int
    BY <1>1, <1>2 DEF FeeTables
  <1> QED
    BY <1>1, <1>6, <1>7, <1>8, <1>9

\* The rows of a day are those of a day on which the quotes were checked.
LEMMA RowsWereChecked ==
    ASSUME NEW fees \in FeeBooks, \A t \in FeeTables : IsDated(fees[t]),
           NEW day \in Int, day >= FirstOfAll(fees)
    PROVE  \E checked \in QuoteDays(fees) :
              /\ On(fees.levy, day) = On(fees.levy, checked)
              /\ On(fees.vat, day) = On(fees.vat, checked)
              /\ On(fees.saleTax, day) = On(fees.saleTax, checked)
  <1> DEFINE first == FirstOfAll(fees)
             Begun(table, start) ==
                /\ start \in Range(table.starts) /\ start \in Int /\ start <= day
                /\ \A i \in DOMAIN table.starts : table.starts[i] <= day => table.starts[i] <= start
  <1>1. first \in Int /\ first <= day
    BY BookIsTyped
  <1> HIDE DEF first
  <1>2. First(fees.levy) <= day /\ First(fees.vat) <= day /\ First(fees.saleTax) <= day
    <2>1. \A t \in FeeTables : First(fees[t]) \in Int /\ First(fees[t]) <= first
      BY BookIsTyped DEF first
    <2>2. {"levy", "vat", "saleTax"} = FeeTables
      BY DEF FeeTables
    <2> QED
      BY <1>1, <2>1, <2>2
  <1>3. PICK l : Begun(fees.levy, l)
    BY <1>2, BookIsTyped, RowOfDay
  <1>4. PICK v : Begun(fees.vat, v)
    BY <1>2, BookIsTyped, RowOfDay
  <1>5. PICK s : Begun(fees.saleTax, s)
    BY <1>2, BookIsTyped, RowOfDay
  <1>6. l \in Int /\ v \in Int /\ s \in Int /\ l <= day /\ v <= day /\ s <= day
    BY <1>3, <1>4, <1>5
  <1>7. PICK q \in {first, l, v, s} : first <= q /\ l <= q /\ v <= q /\ s <= q
    <2>1. \E q \in {first, l} : first <= q /\ l <= q
      BY <1>1, <1>6
    <2>2. \E q \in {v, s} : v <= q /\ s <= q
      BY <1>6
    <2> QED
      BY <1>1, <1>6, <2>1, <2>2
  <1>8. q \in Int /\ q <= day
    BY <1>1, <1>6, <1>7
  <1>9. q \in QuoteDays(fees)
    <2>1. CASE q = first
      BY <2>1 DEF QuoteDays, first
    <2>2. CASE q # first
      <3>1. \E t \in FeeTables : q \in Range(fees[t].starts)
        <4>1. CASE q = l
          BY <1>3, <4>1 DEF FeeTables
        <4>2. CASE q = v
          BY <1>4, <4>2 DEF FeeTables
        <4>3. CASE q = s
          BY <1>5, <4>3 DEF FeeTables
        <4> QED
          BY <1>7, <2>2, <4>1, <4>2, <4>3
      <3>2. q >= FirstOfAll(fees)
        BY <1>1, <1>7, <1>8 DEF first
      <3> QED
        BY <3>1, <3>2 DEF QuoteDays
    <2> QED
      BY <2>1, <2>2
  <1>10. ASSUME NEW V, NEW table \in Dated(V), NEW start, Begun(table, start), start <= q
         PROVE  On(table, day) = On(table, q)
    <2>1. ASSUME NEW i \in DOMAIN table.starts
          PROVE  table.starts[i] <= day <=> table.starts[i] <= q
      <3>1. table.starts[i] \in Int
        BY DEF Dated
      <3>2. start \in Int /\ (table.starts[i] <= day => table.starts[i] <= start)
        BY <1>10
      <3> QED
        BY <1>8, <1>10, <3>1, <3>2
    <2> QED
      BY <2>1, RowStays
  <1> HIDE DEF Begun
  <1>11. On(fees.levy, day) = On(fees.levy, q)
    BY <1>3, <1>7, <1>10, BookIsTyped
  <1>12. On(fees.vat, day) = On(fees.vat, q)
    BY <1>4, <1>7, <1>10, BookIsTyped
  <1>13. On(fees.saleTax, day) = On(fees.saleTax, q)
    BY <1>5, <1>7, <1>10, BookIsTyped
  <1> QED
    BY <1>9, <1>11, <1>12, <1>13

\* On every day of the tables' span no rate is negative.
LEMMA RatesOfDay ==
    ASSUME NEW fees \in FeeBooks, NEW preset \in Presets, FeesAccepted(fees, preset),
           NEW day \in CostDays, day >= FirstOfAll(fees), NEW side \in {"buy", "sell"}
    PROVE  LET rates == Percentages(fees, preset, side, day)
           IN  rates.fee \in Nat /\ rates.levy \in Nat /\ rates.tax \in Nat
  <1>1. day \in Int /\ \A t \in FeeTables : IsDated(fees[t])
    BY FiguresConstants DEF FeesAccepted
  <1>2. PICK checked \in QuoteDays(fees) :
              /\ On(fees.levy, day) = On(fees.levy, checked)
              /\ On(fees.vat, day) = On(fees.vat, checked)
              /\ On(fees.saleTax, day) = On(fees.saleTax, checked)
    BY <1>1, RowsWereChecked
  <1>3. First(fees.levy) <= day /\ First(fees.vat) <= day /\ First(fees.saleTax) <= day
    <2>1. FirstOfAll(fees) \in Int /\
            \A t \in FeeTables : First(fees[t]) \in Int /\ First(fees[t]) <= FirstOfAll(fees)
      BY <1>1, BookIsTyped
    <2>2. {"levy", "vat", "saleTax"} = FeeTables
      BY DEF FeeTables
    <2> QED
      BY <1>1, <2>1, <2>2
  <1>4. PICK row \in [taxed : Nat, guarantee : Nat], vat \in Nat, rate \in Nat :
            row = On(fees.levy, day) /\ vat = On(fees.vat, day) /\ rate = On(fees.saleTax, day)
    BY <1>1, <1>3, BookIsTyped, RowOfDay
  <1> DEFINE rates == Percentages(fees, preset, side, day)
             levy == WithVat(row, vat)
             tax == IF side = "sell" THEN rate * Part ELSE 0
             commission == preset[side] * Part - (IF "levy" \in preset.includes THEN levy ELSE 0)
                                               - (IF "sale_tax" \in preset.includes THEN tax ELSE 0)
  <1>5. levy \in Nat /\ tax \in Nat /\ commission \in Int
    <2>1. row.taxed \in Nat /\ row.guarantee \in Nat
      BY <1>4
    <2>2. row.taxed * (100 + vat) * 100 \in Nat /\ row.guarantee * Part \in Nat
      BY <2>1 DEF Part
    <2>3. levy \in Nat
      BY <2>2 DEF WithVat
    <2>4. tax \in Nat
      BY DEF Part
    <2>5. preset[side] * Part \in Int
      <3>1. preset \in [buy : Nat, sell : Nat, includes : SUBSET {"levy", "sale_tax", "commission_vat"}]
        BY FiguresConstants
      <3>2. preset.buy \in Nat /\ preset.sell \in Nat
        BY <3>1
      <3>3. preset[side] \in Nat
        BY <3>2
      <3> QED
        BY <3>3 DEF Part
    <2> HIDE DEF levy, tax
    <2> QED
      BY <2>3, <2>4, <2>5
  <1>6. /\ rates.levy = levy /\ rates.tax = tax
        /\ rates.fee = IF "commission_vat" \in preset.includes THEN commission
                       ELSE commission + (commission * vat) \div 100
    BY <1>4 DEF Percentages
  <1>7. rates.fee \in Int
    <2> HIDE DEF commission, rates
    <2>1. commission * vat \in Int
      BY <1>5
    <2>2. (commission * vat) \div 100 \in Int
      BY <2>1
    <2> QED
      BY <1>5, <1>6, <2>2
  <1>8. rates.fee >= 0
    <2>1. Percentages(fees, preset, side, checked).fee >= 0
      BY DEF FeesAccepted
    <2>2. Percentages(fees, preset, side, checked) = rates
      BY <1>2 DEF Percentages
    <2> QED
      BY <2>1, <2>2
  <1> HIDE DEF rates, levy, tax
  <1>9. rates.fee \in Nat /\ rates.levy \in Nat /\ rates.tax \in Nat
    BY <1>5, <1>6, <1>7, <1>8
  <1> QED
    BY <1>9 DEF rates

\* What CostsAddUp says of a question about accepted tables.
LEMMA CostsOfTables ==
    ASSUME NEW fees \in FeeBooks, NEW preset \in Presets, FeesAccepted(fees, preset),
           NEW day \in CostDays, day >= FirstOfAll(fees), NEW side \in {"buy", "sell"},
           NEW gross \in Grosses
    PROVE  LET costs == TradeCosts(fees, preset, side, gross, day)
               rates == Percentages(fees, preset, side, day)
               exact == gross * (rates.fee + rates.levy + rates.tax)
               paid == (costs.fee + costs.levy + costs.tax) * 100 * Part
           IN  /\ costs.fee >= 0 /\ costs.levy >= 0 /\ costs.tax >= 0
               /\ exact <= paid /\ paid < exact + 100 * Part
  <1> DEFINE costs == TradeCosts(fees, preset, side, gross, day)
             rates == Percentages(fees, preset, side, day)
  <1>1. PICK f \in Nat, l \in Nat, t \in Nat : f = rates.fee /\ l = rates.levy /\ t = rates.tax
    BY RatesOfDay
  <1>2. PICK n \in Nat \ {0} : n = 100 * Part
    BY DEF Part
  <1>3. PICK g \in Nat : g = gross
    BY FiguresConstants
  <1>4. PICK a \in Nat, b \in Nat, c \in Nat : a = g * l /\ b = g * t /\ c = g * f
    OBVIOUS
  <1>5. PICK e \in Nat : e = g * (f + l + t) /\ e = c + a + b
    BY <1>4
  <1>6. PICK x \in Nat : x = a \div n /\ n * x <= a
    <2>1. 0 <= a \div n
      BY QuotientIsMost
    <2> QED
      BY <2>1, Quotient
  <1>7. PICK y \in Nat : y = b \div n /\ n * y <= b
    <2>1. 0 <= b \div n
      BY QuotientIsMost
    <2> QED
      BY <2>1, Quotient
  <1>8. PICK total \in Int : total = CeilDiv(e, n) /\ e <= n * total /\ n * total < e + n
    <2>1. CeilDiv(e, n) \in Int /\ e <= n * CeilDiv(e, n) /\ n * CeilDiv(e, n) < e + n
      BY CeilIsEnough
    <2> QED
      BY <2>1
  <1>9. x + y <= total
    <2>1. n * (x + y) = n * x + n * y /\ n * x \in Nat /\ n * y \in Nat
      OBVIOUS
    <2>2. ASSUME total < x + y PROVE FALSE
      <3>1. n * total <= n * (x + y) - n
        <4>1. n * (total + 1) <= n * (x + y)
          BY <2>2, TimesKeepsOrder
        <4>2. n * (total + 1) = n * total + n
          OBVIOUS
        <4> QED
          BY <4>1, <4>2, <2>1
      <3>2. n * total \in Int
        OBVIOUS
      <3> QED
        BY <1>5, <1>6, <1>7, <1>8, <2>1, <3>1, <3>2
    <2> QED
      BY <2>2
  <1>10. costs = [fee |-> total - x - y, levy |-> x, tax |-> y]
    BY <1>1, <1>2, <1>3, <1>4, <1>5, <1>6, <1>7, <1>8 DEF TradeCosts
  <1>11. costs.fee >= 0 /\ costs.levy >= 0 /\ costs.tax >= 0
    BY <1>9, <1>10
  <1>12. costs.fee + costs.levy + costs.tax = total
    BY <1>10
  <1>13. (costs.fee + costs.levy + costs.tax) * 100 * Part = n * total
    BY <1>2, <1>12 DEF Part
  <1>14. gross * (rates.fee + rates.levy + rates.tax) = e
    BY <1>1, <1>3, <1>5
  <1> HIDE DEF costs, rates
  <1>15. /\ gross * (rates.fee + rates.levy + rates.tax) <= (costs.fee + costs.levy + costs.tax) * 100 * Part
         /\ (costs.fee + costs.levy + costs.tax) * 100 * Part
                < gross * (rates.fee + rates.levy + rates.tax) + 100 * Part
    BY <1>2, <1>8, <1>13, <1>14
  <1> QED
    BY <1>11, <1>15 DEF costs, rates

\* The ends of a price band, and the costs of a trade, are exact, also where a limit is in another
\* tick tier than its reference and after a rate changed under a quote that was checked when it was
\* loaded (rules.price_band, fees.trade_costs).
THEOREM PricesAndCosts == FSpec => []PricesAndCostsAreExact
  <1>1. FInit => PricesAndCostsAreExact
    BY DEF FInit, None, PricesAndCostsAreExact, BandIsExact, CostsAddUp
  <1>2. PricesAndCostsAreExact /\ [FNext]_asked => PricesAndCostsAreExact'
    <2> SUFFICES ASSUME PricesAndCostsAreExact, [FNext]_asked PROVE PricesAndCostsAreExact'
      OBVIOUS
    <2>1. ASSUME NEW tiers \in TickTables, NEW band \in BandTables, AskForABand(tiers, band)
          PROVE  PricesAndCostsAreExact'
      <3>1. PICK reference \in {price \in References : price >= band.minPrice} :
                asked' = [about |-> "band", tiers |-> tiers, band |-> band, reference |-> reference]
        BY <2>1 DEF AskForABand
      <3>2. TicksAccepted(tiers) /\ BandsAccepted(band) /\ reference \in References
            /\ reference >= band.minPrice
        BY <2>1 DEF AskForABand
      <3>3. /\ asked'.about = "band" /\ asked'.tiers = tiers /\ asked'.band = band
            /\ asked'.reference = reference
        BY <3>1
      <3>4. BandIsExact'
        BY <3>2, <3>3, BandOfTables DEF BandIsExact
      <3>5. CostsAddUp'
        BY <3>3 DEF CostsAddUp
      <3> QED
        BY <3>4, <3>5 DEF PricesAndCostsAreExact
    <2>2. ASSUME NEW fees \in FeeBooks, NEW preset \in Presets, AskForCosts(fees, preset)
          PROVE  PricesAndCostsAreExact'
      <3>1. PICK day \in {d \in CostDays : d >= FirstOfAll(fees)}, gross \in Grosses, side \in {"buy", "sell"} :
                asked' = [about |-> "costs", fees |-> fees, preset |-> preset,
                          day |-> day, gross |-> gross, side |-> side]
        BY <2>2 DEF AskForCosts
      <3>2. FeesAccepted(fees, preset) /\ day \in CostDays /\ day >= FirstOfAll(fees)
        BY <2>2 DEF AskForCosts
      <3>3. /\ asked'.about = "costs" /\ asked'.fees = fees /\ asked'.preset = preset
            /\ asked'.day = day /\ asked'.gross = gross /\ asked'.side = side
        BY <3>1
      <3>4. CostsAddUp'
        BY <3>2, <3>3, CostsOfTables DEF CostsAddUp
      <3>5. BandIsExact'
        BY <3>3 DEF BandIsExact
      <3> QED
        BY <3>4, <3>5 DEF PricesAndCostsAreExact
    <2>3. ASSUME NEW bought \in Bought, NEW events \in Events, NEW value \in Values,
                 AskForIncome(bought, events, value)
          PROVE  PricesAndCostsAreExact'
      <3>1. asked'.about = "income"
        BY <2>3 DEF AskForIncome
      <3> QED
        BY <3>1 DEF PricesAndCostsAreExact, BandIsExact, CostsAddUp
    <2>4. CASE UNCHANGED asked
      BY <2>4 DEF PricesAndCostsAreExact, BandIsExact, CostsAddUp
    <2> QED
      BY <2>1, <2>2, <2>3, <2>4 DEF FNext
  <1> QED
    BY <1>1, <1>2, PTL DEF FSpec

-----------------------------------------------------------------------------
(* Products and sums of fractions.                                         *)

Pos == Nat \ {0}
Ratios == Pos \X Pos
ProductStep(f, T, g) == IF T = {} THEN <<1, 1>> ELSE Times(f[AnyOf(T)], g[T \ {AnyOf(T)}])
ProductsOf(f, S) == CHOOSE g : g = [T \in SUBSET S |-> ProductStep(f, T, g)]

LEMMA TimesTyped ==
    ASSUME NEW a \in Ratios, NEW b \in Ratios
    PROVE  Times(a, b) \in Ratios /\ Times(a, b) = Times(b, a)
  <1>1. PICK m \in Pos, n \in Pos, p \in Pos, q \in Pos : a = <<m, n>> /\ b = <<p, q>>
    BY DEF Ratios
  <1>2. m * p \in Pos /\ n * q \in Pos /\ m * p = p * m /\ n * q = q * n
    BY DEF Pos
  <1>3. Times(a, b) = <<m * p, n * q>> /\ Times(b, a) = <<p * m, q * n>>
    BY <1>1 DEF Times
  <1> QED
    BY <1>2, <1>3 DEF Ratios

LEMMA TimesRegroups ==
    ASSUME NEW a \in Ratios, NEW b \in Ratios, NEW c \in Ratios
    PROVE  Times(a, Times(b, c)) = Times(b, Times(a, c))
  <1>1. PICK m \in Pos, n \in Pos, p \in Pos, q \in Pos, x \in Pos, y \in Pos :
            a = <<m, n>> /\ b = <<p, q>> /\ c = <<x, y>>
    BY DEF Ratios
  <1>2. m * (p * x) = p * (m * x) /\ n * (q * y) = q * (n * y)
    BY DEF Pos
  <1> QED
    BY <1>1, <1>2 DEF Times

\* The product is defined: some fraction times the product of the rest.
LEMMA ProductUnfolds ==
    ASSUME NEW S, IsFiniteSet(S), NEW f, \A x \in S : f[x] \in Ratios
    PROVE  /\ ProductOf(f, S) = ProductsOf(f, S)[S]
           /\ \A T \in SUBSET S : /\ ProductsOf(f, S)[T] \in Ratios
                                  /\ ProductsOf(f, S)[T] = ProductStep(f, T, ProductsOf(f, S))
  <1> DEFINE pick == [T \in SUBSET S |-> AnyOf(T)]
             one == <<1, 1>>
             F == [x \in S |-> [v \in Ratios |-> Times(f[x], v)]]
  <1>1. Picks(pick, S)
    BY AnyIsOne DEF Picks
  <1>2. one \in Ratios
    BY DEF Ratios, Pos
  <1>3. F \in [S -> [Ratios -> Ratios]]
    BY TimesTyped
  <1>4. \A x \in S, v \in Ratios : F[x][v] = Times(f[x], v)
    OBVIOUS
  <1>5. \A T \in SUBSET S : pick[T] = AnyOf(T)
    OBVIOUS
  <1> HIDE DEF pick, F, one
  <1>6. PICK g : IsFold(g, S, Ratios, one, pick, F)
    BY <1>1, <1>2, <1>3, FoldExists
  <1>7. ASSUME NEW T \in SUBSET S PROVE g[T] = ProductStep(f, T, g)
    <2>1. T = {} => g[T] = ProductStep(f, T, g)
      BY <1>6 DEF IsFold, FoldStep, ProductStep, one
    <2>2. ASSUME T # {} PROVE g[T] = ProductStep(f, T, g)
      <3>1. AnyOf(T) \in S /\ g[T \ {AnyOf(T)}] \in Ratios
        BY <1>6, <2>2, AnyIsOne DEF IsFold
      <3>2. g[T] = F[AnyOf(T)][g[T \ {AnyOf(T)}]]
        BY <1>5, <1>6, <2>2 DEF IsFold, FoldStep
      <3> QED
        BY <1>4, <2>2, <3>1, <3>2 DEF ProductStep
    <2> QED
      BY <2>1, <2>2
  <1>8. g = [T \in SUBSET S |-> ProductStep(f, T, g)]
    BY <1>6, <1>7 DEF IsFold
  <1> DEFINE h == ProductsOf(f, S)
  <1>9. h = [T \in SUBSET S |-> ProductStep(f, T, h)]
    BY <1>8 DEF ProductsOf
  <1>10. ProductOf(f, S) = h[S]
    BY DEF ProductOf, FoldFunctionOnSet, MapThenFoldSet, ProductsOf, ProductStep, AnyOf
  <1> HIDE DEF h
  <1> DEFINE P == {T \in SUBSET S : h[T] \in Ratios}
  <1>11. {} \in P
    BY <1>2, <1>9 DEF ProductStep, one
  <1>12. ASSUME NEW T \in SUBSET S, T # {} PROVE \E x \in T : T \ {x} \in P => T \in P
    <2>1. AnyOf(T) \in T /\ f[AnyOf(T)] \in Ratios
      BY <1>12, AnyIsOne
    <2>2. h[T] = Times(f[AnyOf(T)], h[T \ {AnyOf(T)}])
      BY <1>9, <1>12 DEF ProductStep
    <2> QED
      BY <2>1, <2>2, TimesTyped
  <1> HIDE DEF P
  <1>13. SUBSET S \subseteq P
    BY <1>11, <1>12, Peeled
  <1>14. \A T \in SUBSET S : h[T] \in Ratios /\ h[T] = ProductStep(f, T, h)
    BY <1>9, <1>13 DEF P
  <1> QED
    BY <1>10, <1>14 DEF h

\* A product does not depend on the set it is part of.
LEMMA ProductOfPart ==
    ASSUME NEW S, IsFiniteSet(S), NEW f, \A x \in S : f[x] \in Ratios, NEW U \in SUBSET S
    PROVE  ProductOf(f, U) = ProductsOf(f, S)[U]
  <1> DEFINE P == {T \in SUBSET U : ProductsOf(f, S)[T] = ProductsOf(f, U)[T]}
  <1>1. IsFiniteSet(U) /\ \A x \in U : f[x] \in Ratios
    BY FS_Subset
  <1>2. \A T \in SUBSET U : /\ ProductsOf(f, S)[T] = ProductStep(f, T, ProductsOf(f, S))
                            /\ ProductsOf(f, U)[T] = ProductStep(f, T, ProductsOf(f, U))
    BY <1>1, ProductUnfolds
  <1>3. {} \in P
    BY <1>2 DEF ProductStep
  <1>4. ASSUME NEW T \in SUBSET U, T # {} PROVE \E x \in T : T \ {x} \in P => T \in P
    <2>1. AnyOf(T) \in T
      BY <1>4, AnyIsOne
    <2>2. ASSUME T \ {AnyOf(T)} \in P PROVE T \in P
      BY <1>2, <1>4, <2>2 DEF ProductStep
    <2> QED
      BY <2>1, <2>2
  <1> HIDE DEF P
  <1>5. U \in P
    BY <1>1, <1>3, <1>4, Peeled
  <1>6. ProductOf(f, U) = ProductsOf(f, U)[U]
    BY <1>1, ProductUnfolds
  <1> QED
    BY <1>5, <1>6 DEF P

\* The product of none is one, and any of the fractions can be put in front.
LEMMA ProductRemove ==
    ASSUME NEW S, IsFiniteSet(S), NEW f, \A x \in S : f[x] \in Ratios
    PROVE  /\ ProductOf(f, S) \in Ratios
           /\ S = {} => ProductOf(f, S) = <<1, 1>>
           /\ \A e \in S : ProductOf(f, S) = Times(f[e], ProductOf(f, S \ {e}))
  <1> DEFINE g == ProductsOf(f, S)
  <1>1. ProductOf(f, S) = g[S] /\ \A T \in SUBSET S : g[T] \in Ratios /\ g[T] = ProductStep(f, T, g)
    BY ProductUnfolds
  <1>2. \A U \in SUBSET S : ProductOf(f, U) = g[U]
    BY ProductOfPart
  <1> HIDE DEF g
  <1> DEFINE Good == {n \in Nat : \A T \in SUBSET S : Cardinality(T) = n =>
                                     \A e \in T : g[T] = Times(f[e], g[T \ {e}])}
  <1>3. \A T \in SUBSET S : IsFiniteSet(T) /\ Cardinality(T) \in Nat
    BY FS_Subset, FS_CardinalityType
  <1>4. 0 \in Good
    BY <1>3, FS_EmptySet
  <1>5. ASSUME NEW n \in Nat, n \in Good PROVE n + 1 \in Good
    <2>1. SUFFICES ASSUME NEW T \in SUBSET S, Cardinality(T) = n + 1, NEW e \in T
                   PROVE  g[T] = Times(f[e], g[T \ {e}])
      OBVIOUS
    <2>2. PICK x \in T : g[T] = Times(f[x], g[T \ {x}])
      BY <1>1, <2>1, AnyIsOne DEF ProductStep
    <2>3. CASE e = x
      BY <2>2, <2>3
    <2>4. CASE e # x
      <3> DEFINE Q == (T \ {x}) \ {e}
      <3>1. Cardinality(T \ {x}) = n /\ Cardinality(T \ {e}) = n
        BY <1>3, <2>1, OneLess
      <3>2. g[T \ {x}] = Times(f[e], g[Q])
        BY <1>5, <2>4, <3>1
      <3>3. x \in T \ {e} /\ (T \ {e}) \ {x} = Q /\ Q \in SUBSET S
        BY <2>4
      <3>4. g[T \ {e}] = Times(f[x], g[Q])
        BY <1>5, <3>1, <3>3
      <3>5. f[x] \in Ratios /\ f[e] \in Ratios /\ g[Q] \in Ratios
        BY <1>1, <3>3
      <3> QED
        BY <2>2, <3>2, <3>4, <3>5, TimesRegroups
    <2> QED
      BY <2>3, <2>4
  <1> HIDE DEF Good
  <1>6. Nat \subseteq Good
    BY <1>4, <1>5, Naturals
  <1>7. \A e \in S : g[S] = Times(f[e], g[S \ {e}])
    BY <1>3, <1>6 DEF Good
  <1>8. \A e \in S : ProductOf(f, S) = Times(f[e], ProductOf(f, S \ {e}))
    BY <1>1, <1>2, <1>7
  <1>9. S = {} => ProductOf(f, S) = <<1, 1>>
    BY <1>1 DEF ProductStep
  <1> QED
    BY <1>1, <1>8, <1>9

Shares == Nat \X Pos
AddedStep(f, T, g) == IF T = {} THEN <<0, 1>> ELSE Added(f[AnyOf(T)], g[T \ {AnyOf(T)}])
AddedsOf(f, S) == CHOOSE g : g = [T \in SUBSET S |-> AddedStep(f, T, g)]

LEMMA AddedTyped ==
    ASSUME NEW a \in Shares, NEW b \in Shares
    PROVE  Added(a, b) \in Shares
  <1>1. PICK m \in Nat, n \in Pos, p \in Nat, q \in Pos : a = <<m, n>> /\ b = <<p, q>>
    BY DEF Shares
  <1>2. m * q \in Nat /\ p * n \in Nat /\ n * q \in Pos
    BY DEF Pos
  <1>3. Added(a, b) = <<m * q + p * n, n * q>>
    BY <1>1 DEF Added
  <1>4. m * q + p * n \in Nat
    BY <1>2
  <1> QED
    BY <1>2, <1>3, <1>4 DEF Shares

\* The sum is defined: some fraction and the sum of the rest.
LEMMA AddedUnfolds ==
    ASSUME NEW S, IsFiniteSet(S), NEW f, \A x \in S : f[x] \in Shares
    PROVE  /\ FoldFunctionOnSet(Added, <<0, 1>>, f, S) = AddedsOf(f, S)[S]
           /\ \A T \in SUBSET S : /\ AddedsOf(f, S)[T] \in Shares
                                  /\ AddedsOf(f, S)[T] = AddedStep(f, T, AddedsOf(f, S))
  <1> DEFINE pick == [T \in SUBSET S |-> AnyOf(T)]
             none == <<0, 1>>
             F == [x \in S |-> [v \in Shares |-> Added(f[x], v)]]
  <1>1. Picks(pick, S)
    BY AnyIsOne DEF Picks
  <1>2. none \in Shares
    BY DEF Shares, Pos
  <1>3. F \in [S -> [Shares -> Shares]]
    BY AddedTyped
  <1>4. \A x \in S, v \in Shares : F[x][v] = Added(f[x], v)
    OBVIOUS
  <1>5. \A T \in SUBSET S : pick[T] = AnyOf(T)
    OBVIOUS
  <1> HIDE DEF pick, F, none
  <1>6. PICK g : IsFold(g, S, Shares, none, pick, F)
    BY <1>1, <1>2, <1>3, FoldExists
  <1>7. ASSUME NEW T \in SUBSET S PROVE g[T] = AddedStep(f, T, g)
    <2>1. T = {} => g[T] = AddedStep(f, T, g)
      BY <1>6 DEF IsFold, FoldStep, AddedStep, none
    <2>2. ASSUME T # {} PROVE g[T] = AddedStep(f, T, g)
      <3>1. AnyOf(T) \in S /\ g[T \ {AnyOf(T)}] \in Shares
        BY <1>6, <2>2, AnyIsOne DEF IsFold
      <3>2. g[T] = F[AnyOf(T)][g[T \ {AnyOf(T)}]]
        BY <1>5, <1>6, <2>2 DEF IsFold, FoldStep
      <3> QED
        BY <1>4, <2>2, <3>1, <3>2 DEF AddedStep
    <2> QED
      BY <2>1, <2>2
  <1>8. g = [T \in SUBSET S |-> AddedStep(f, T, g)]
    BY <1>6, <1>7 DEF IsFold
  <1> DEFINE h == AddedsOf(f, S)
  <1>9. h = [T \in SUBSET S |-> AddedStep(f, T, h)]
    BY <1>8 DEF AddedsOf
  <1>10. FoldFunctionOnSet(Added, <<0, 1>>, f, S) = h[S]
    BY DEF FoldFunctionOnSet, MapThenFoldSet, AddedsOf, AddedStep, AnyOf
  <1> HIDE DEF h
  <1> DEFINE P == {T \in SUBSET S : h[T] \in Shares}
  <1>11. {} \in P
    BY <1>2, <1>9 DEF AddedStep, none
  <1>12. ASSUME NEW T \in SUBSET S, T # {} PROVE \E x \in T : T \ {x} \in P => T \in P
    <2>1. AnyOf(T) \in T /\ f[AnyOf(T)] \in Shares
      BY <1>12, AnyIsOne
    <2>2. h[T] = Added(f[AnyOf(T)], h[T \ {AnyOf(T)}])
      BY <1>9, <1>12 DEF AddedStep
    <2> QED
      BY <2>1, <2>2, AddedTyped
  <1> HIDE DEF P
  <1>13. SUBSET S \subseteq P
    BY <1>11, <1>12, Peeled
  <1>14. \A T \in SUBSET S : h[T] \in Shares /\ h[T] = AddedStep(f, T, h)
    BY <1>9, <1>13 DEF P
  <1> QED
    BY <1>10, <1>14 DEF h

\* If each fraction of a whole is an amount, the sum of the fractions is the sum of the amounts.
LEMMA AddedIsSum ==
    ASSUME NEW S, IsFiniteSet(S), NEW f, NEW amounts, NEW whole \in Nat,
           \A x \in S : /\ f[x] \in Shares /\ amounts[x] \in Int
                        /\ f[x][1] * whole = amounts[x] * f[x][2]
    PROVE  LET sum == FoldFunctionOnSet(Added, <<0, 1>>, f, S)
           IN  sum \in Shares /\ sum[1] * whole = SumFunctionOnSet(amounts, S) * sum[2]
  <1> DEFINE g == AddedsOf(f, S)
             P == {T \in SUBSET S : g[T][1] * whole = SumFunctionOnSet(amounts, T) * g[T][2]}
  <1>1. /\ FoldFunctionOnSet(Added, <<0, 1>>, f, S) = g[S]
        /\ \A T \in SUBSET S : g[T] \in Shares /\ g[T] = AddedStep(f, T, g)
    BY AddedUnfolds
  <1> HIDE DEF g
  <1>2. {} \in P
    <2>1. g[{}] = <<0, 1>> /\ SumFunctionOnSet(amounts, {}) = 0
      BY <1>1, SumEmpty DEF AddedStep
    <2> QED
      BY <2>1
  <1>3. ASSUME NEW T \in SUBSET S, T # {} PROVE \E x \in T : T \ {x} \in P => T \in P
    <2> DEFINE R == T \ {AnyOf(T)}
    <2>1. PICK x \in T : x = AnyOf(T)
      BY <1>3, AnyIsOne
    <2>2. g[T] = Added(f[x], g[R]) /\ g[R] \in Shares /\ f[x] \in Shares
      BY <1>1, <1>3, <2>1 DEF AddedStep
    <2>3. SumFunctionOnSet(amounts, T) = amounts[x] + SumFunctionOnSet(amounts, R)
      BY <1>3, <2>1, SumAny, FS_Subset
    <2>4. SumFunctionOnSet(amounts, R) \in Int /\ amounts[x] \in Int
      BY SumInt, FS_Subset
    <2>5. ASSUME R \in P PROVE T \in P
      <3>1. PICK m \in Nat, n \in Pos, p \in Nat, q \in Pos, a \in Int, r \in Int :
                /\ f[x] = <<m, n>> /\ g[R] = <<p, q>>
                /\ a = amounts[x] /\ r = SumFunctionOnSet(amounts, R)
        <4>1. PICK m \in Nat, n \in Pos : f[x] = <<m, n>>
          BY <2>2 DEF Shares
        <4>2. PICK p \in Nat, q \in Pos : g[R] = <<p, q>>
          BY <2>2 DEF Shares
        <4> QED
          BY <2>4, <4>1, <4>2
      <3>2. m * whole = a * n
        BY <3>1
      <3>3. p * whole = r * q
        <4>1. g[R][1] * whole = SumFunctionOnSet(amounts, R) * g[R][2]
          BY <2>5
        <4> QED
          BY <3>1, <4>1
      <3>4. g[T] = <<m * q + p * n, n * q>>
        BY <2>2, <3>1 DEF Added
      <3>5. (m * q + p * n) * whole = (a + r) * (n * q)
        <4>1. (m * q + p * n) * whole = q * (m * whole) + n * (p * whole)
          BY DEF Pos
        <4>2. q * (a * n) + n * (r * q) = (a + r) * (n * q)
          BY DEF Pos
        <4> QED
          BY <3>2, <3>3, <4>1, <4>2
      <3> QED
        BY <2>3, <3>1, <3>4, <3>5
    <2> QED
      BY <2>1, <2>5
  <1> HIDE DEF P
  <1>4. S \in P
    BY <1>2, <1>3, Peeled
  <1>5. g[S][1] * whole = SumFunctionOnSet(amounts, S) * g[S][2]
    BY <1>4 DEF P
  <1> QED
    BY <1>1, <1>5

-----------------------------------------------------------------------------
(* Shares held.                                                            *)

\* A finite inhabited set of numbers has a greatest one, which is its maximum.
LEMMA MaxIsGreatest ==
    ASSUME NEW S \in SUBSET Nat, IsFiniteSet(S), S # {}
    PROVE  Max(S) \in S /\ \A k \in S : k <= Max(S)
  <1> DEFINE P == {T \in SUBSET S : T = {} \/ \E m \in T : \A k \in T : k <= m}
  <1>1. {} \in P
    OBVIOUS
  <1>2. ASSUME NEW T \in SUBSET S, NEW x \in S \ T, T \in P PROVE T \union {x} \in P
    <2>1. CASE T = {}
      BY <2>1
    <2>2. CASE T # {}
      <3>1. PICK m \in T : \A k \in T : k <= m
        BY <1>2, <2>2
      <3>2. CASE x <= m
        BY <3>1, <3>2
      <3>3. CASE ~ (x <= m)
        <4>1. \A k \in T \union {x} : k <= x
          BY <3>1, <3>3
        <4> QED
          BY <4>1
      <3> QED
        BY <3>2, <3>3
    <2> QED
      BY <2>1, <2>2
  <1> HIDE DEF P
  <1>3. S \in P
    BY <1>1, <1>2, Subsets
  <1>4. PICK m \in S : \A k \in S : k <= m
    BY <1>3 DEF P
  <1>5. Max(S) = m
    BY <1>4, GreatestIs
  <1> QED
    BY <1>4, <1>5

IsHistory(splits) ==
    /\ IsFiniteSet(DOMAIN splits) /\ DOMAIN splits \subseteq Nat
    /\ \A s \in DOMAIN splits : splits[s] \in Ratios
HeldStep(bought, splits, T, g) ==
    IF T = {} THEN bought
    ELSE (g[T \ {Max(T)}] * splits[Max(T)][1]) \div splits[Max(T)][2]
HeldOf(bought, splits, S) == CHOOSE g : g = [T \in SUBSET S |-> HeldStep(bought, splits, T, g)]
Until(splits, day) == {s \in DOMAIN splits : s < day}

\* What a split leaves.
LEMMA SplitTyped ==
    ASSUME NEW ratio \in Ratios, NEW shares \in Nat
    PROVE  (shares * ratio[1]) \div ratio[2] \in Nat
  <1>1. PICK a \in Pos, b \in Pos : ratio = <<a, b>>
    BY DEF Ratios
  <1>2. shares * a \in Nat
    BY DEF Pos
  <1>3. (shares * a) \div b \in Int /\ 0 <= (shares * a) \div b
    BY <1>2, Quotient, QuotientIsMost DEF Pos
  <1> QED
    BY <1>1, <1>3

\* The holding is defined: the last split of those before.
LEMMA HeldUnfolds ==
    ASSUME NEW bought \in Nat, NEW splits, IsHistory(splits), NEW S \in SUBSET DOMAIN splits
    PROVE  \A T \in SUBSET S : /\ HeldOf(bought, splits, S)[T] \in Nat
                               /\ HeldOf(bought, splits, S)[T]
                                    = HeldStep(bought, splits, T, HeldOf(bought, splits, S))
  <1> DEFINE pick == [T \in SUBSET S |-> Max(T)]
             Split(x, v) == (v * splits[x][1]) \div splits[x][2]
             F == [x \in S |-> [v \in Nat |-> Split(x, v)]]
  <1>1. IsFiniteSet(S) /\ S \in SUBSET Nat /\ \A T \in SUBSET S : IsFiniteSet(T)
    BY FS_Subset DEF IsHistory
  <1>2. \A T \in SUBSET S : T # {} => Max(T) \in T
    BY <1>1, MaxIsGreatest
  <1>3. Picks(pick, S)
    BY <1>2 DEF Picks
  <1>4. \A x \in S, v \in Nat : Split(x, v) \in Nat
    BY SplitTyped DEF IsHistory
  <1> HIDE DEF Split
  <1>5. F \in [S -> [Nat -> Nat]]
    BY <1>4
  <1>6. \A x \in S, v \in Nat : F[x][v] = Split(x, v)
    OBVIOUS
  <1>7. \A T \in SUBSET S : pick[T] = Max(T)
    OBVIOUS
  <1> HIDE DEF pick, F
  <1>8. PICK g : IsFold(g, S, Nat, bought, pick, F)
    BY <1>1, <1>3, <1>5, FoldExists
  <1>9. ASSUME NEW T \in SUBSET S PROVE g[T] = HeldStep(bought, splits, T, g)
    <2>1. T = {} => g[T] = HeldStep(bought, splits, T, g)
      BY <1>8 DEF IsFold, FoldStep, HeldStep
    <2>2. ASSUME T # {} PROVE g[T] = HeldStep(bought, splits, T, g)
      <3>1. Max(T) \in S /\ g[T \ {Max(T)}] \in Nat
        BY <1>2, <1>8, <2>2 DEF IsFold
      <3>2. g[T] = F[Max(T)][g[T \ {Max(T)}]]
        BY <1>7, <1>8, <2>2 DEF IsFold, FoldStep
      <3>3. g[T] = Split(Max(T), g[T \ {Max(T)}])
        BY <1>6, <3>1, <3>2
      <3> QED
        BY <2>2, <3>3 DEF HeldStep, Split
    <2> QED
      BY <2>1, <2>2
  <1>10. g = [T \in SUBSET S |-> HeldStep(bought, splits, T, g)]
    BY <1>8, <1>9 DEF IsFold
  <1> DEFINE h == HeldOf(bought, splits, S)
  <1>11. h = [T \in SUBSET S |-> HeldStep(bought, splits, T, h)]
    BY <1>10 DEF HeldOf
  <1> HIDE DEF h
  <1> DEFINE P == {T \in SUBSET S : h[T] \in Nat}
  <1>12. {} \in P
    BY <1>11 DEF HeldStep
  <1>13. ASSUME NEW T \in SUBSET S, T # {} PROVE \E x \in T : T \ {x} \in P => T \in P
    <2>1. h[T] = Split(Max(T), h[T \ {Max(T)}])
      BY <1>11, <1>13 DEF HeldStep, Split
    <2>2. Max(T) \in T
      BY <1>2, <1>13
    <2>3. ASSUME T \ {Max(T)} \in P PROVE T \in P
      <3>1. h[T \ {Max(T)}] \in Nat
        BY <2>3
      <3>2. h[T] \in Nat
        BY <1>4, <2>1, <2>2, <3>1
      <3> QED
        BY <3>2
    <2> QED
      BY <2>2, <2>3
  <1> HIDE DEF P
  <1>14. SUBSET S \subseteq P
    BY <1>1, <1>12, <1>13, Peeled
  <1>15. \A T \in SUBSET S : h[T] \in Nat /\ h[T] = HeldStep(bought, splits, T, h)
    BY <1>11, <1>14 DEF P
  <1> QED
    BY <1>15 DEF h

LEMMA SharesOnIs ==
    ASSUME NEW bought, NEW splits, NEW day
    PROVE  SharesOn(bought, splits, day) = HeldOf(bought, splits, Until(splits, day))[Until(splits, day)]
  BY DEF SharesOn, MapThenFoldSet, HeldOf, HeldStep, Until

\* The shares of the day after: what the day's split makes of them.
LEMMA SharesOfNextDay ==
    ASSUME NEW bought \in Nat, NEW splits, IsHistory(splits), NEW day \in Nat
    PROVE  /\ SharesOn(bought, splits, day) \in Nat
           /\ SharesOn(bought, splits, day + 1) =
                IF day \in DOMAIN splits
                THEN (SharesOn(bought, splits, day) * splits[day][1]) \div splits[day][2]
                ELSE SharesOn(bought, splits, day)
  <1> DEFINE S == Until(splits, day)
             U == Until(splits, day + 1)
             g == HeldOf(bought, splits, S)
             h == HeldOf(bought, splits, U)
             P == {T \in SUBSET S : g[T] = h[T]}
  <1>1. DOMAIN splits \in SUBSET Nat /\ IsFiniteSet(S) /\ S \in SUBSET DOMAIN splits /\ U \in SUBSET DOMAIN splits
    BY FS_Subset DEF Until, IsHistory
  <1>2. U = IF day \in DOMAIN splits THEN S \union {day} ELSE S
    <2>1. \A s \in DOMAIN splits : s < day + 1 <=> s < day \/ s = day
      BY <1>1
    <2> QED
      BY <2>1 DEF Until
  <1>3. /\ \A T \in SUBSET S : g[T] \in Nat /\ g[T] = HeldStep(bought, splits, T, g)
        /\ \A T \in SUBSET U : h[T] \in Nat /\ h[T] = HeldStep(bought, splits, T, h)
    BY <1>1, HeldUnfolds
  <1>4. \A s \in S : s < day
    BY DEF Until
  <1>5. SharesOn(bought, splits, day) = g[S] /\ SharesOn(bought, splits, day + 1) = h[U]
    BY SharesOnIs
  <1> HIDE DEF S, U, g, h
  <1>6. {} \in P
    BY <1>3 DEF HeldStep
  <1>7. ASSUME NEW T \in SUBSET S, T # {} PROVE \E x \in T : T \ {x} \in P => T \in P
    <2>1. IsFiniteSet(T) /\ T \in SUBSET Nat /\ T \in SUBSET U
      BY <1>1, <1>2, FS_Subset
    <2>2. Max(T) \in T
      BY <1>7, <2>1, MaxIsGreatest
    <2>3. ASSUME T \ {Max(T)} \in P PROVE T \in P
      BY <1>3, <1>7, <2>1, <2>3 DEF HeldStep
    <2> QED
      BY <2>2, <2>3
  <1> HIDE DEF P
  <1>8. S \in P
    BY <1>1, <1>6, <1>7, Peeled
  <1>9. g[S] = h[S] /\ g[S] \in Nat
    BY <1>3, <1>8 DEF P
  <1>10. CASE day \in DOMAIN splits
    <2>1. U = S \union {day} /\ S = U \ {day}
      BY <1>1, <1>2, <1>4, <1>10
    <2>2. Max(U) = day
      <3>1. U \in SUBSET Int /\ day \in U /\ \A k \in U : k <= day
        BY <1>1, <1>4, <2>1
      <3> QED
        BY <3>1, GreatestIs
    <2>3. h[U] = (h[S] * splits[day][1]) \div splits[day][2]
      BY <1>3, <2>1, <2>2 DEF HeldStep
    <2> QED
      BY <1>5, <1>9, <1>10, <2>3
  <1>11. CASE day \notin DOMAIN splits
    BY <1>2, <1>5, <1>9, <1>11
  <1> QED
    BY <1>10, <1>11

-----------------------------------------------------------------------------
(* The projection: more income, more growth or more put in is never later. *)

\* The take-home of more is no less, and none of none.
LEMMA TakeHomeRises ==
    ASSUME NEW a \in Nat, NEW b \in Nat, a <= b
    PROVE  /\ TakeHome(a) \in Nat /\ TakeHome(b) \in Nat
           /\ TakeHome(a) <= TakeHome(b) /\ TakeHome(0) = 0
  <1>1. TaxPercent \in Nat /\ TaxPercent <= 100
    BY IncomeConstants
  <1>2. ASSUME NEW n \in Nat
        PROVE  /\ Tax(n) \in Int /\ n * TaxPercent <= 100 * Tax(n)
               /\ \A x \in Int : Tax(n) <= x <=> n * TaxPercent <= 100 * x
    <2>1. n * TaxPercent \in Int /\ 100 \in Nat \ {0}
      BY <1>1
    <2> QED
      BY <2>1, CeilIsEnough, CeilIsLeast DEF Tax
  <1>3. ASSUME NEW n \in Nat PROVE TakeHome(n) \in Nat
    <2>1. n * TaxPercent <= n * 100
      BY <1>1, TimesKeepsOrder
    <2>2. Tax(n) <= n
      BY <1>2, <2>1
    <2> QED
      BY <1>2, <2>2 DEF TakeHome
  <1>4. Tax(b) <= Tax(a) + (b - a)
    <2>1. PICK d \in Nat : b = a + d
      <3>1. b - a \in Nat /\ b = a + (b - a)
        OBVIOUS
      <3> QED
        BY <3>1
    <2>2. b * TaxPercent = a * TaxPercent + d * TaxPercent
      BY <1>1, <2>1
    <2>3. d * TaxPercent <= d * 100
      BY <1>1, TimesKeepsOrder
    <2>4. Tax(a) \in Int /\ a * TaxPercent <= 100 * Tax(a)
      BY <1>2
    <2>5. b * TaxPercent <= 100 * (Tax(a) + d) /\ Tax(a) + d \in Int
      <3> DEFINE x == a * TaxPercent
                 y == d * TaxPercent
                 t == Tax(a)
      <3>1. x \in Int /\ y \in Int /\ t \in Int
        BY <1>1, <2>4
      <3>2. b * TaxPercent = x + y /\ y <= d * 100 /\ x <= 100 * t
        BY <2>2, <2>3, <2>4
      <3> HIDE DEF x, y, t
      <3>3. b * TaxPercent <= 100 * (t + d) /\ t + d \in Int
        BY <3>1, <3>2
      <3> QED
        BY <3>3 DEF t
    <2>6. Tax(b) <= Tax(a) + d
      BY <1>2, <2>5
    <2> QED
      BY <2>1, <2>6
  <1>5. TakeHome(a) <= TakeHome(b)
    BY <1>2, <1>4 DEF TakeHome
  <1>6. TakeHome(0) = 0
    <2>1. 0 * TaxPercent = 0
      BY <1>1
    <2>2. Tax(0) \in Int /\ 0 <= 100 * Tax(0) /\ Tax(0) <= 0
      BY <1>2, <2>1
    <2> QED
      BY <2>2 DEF TakeHome
  <1> QED
    BY <1>3, <1>5, <1>6

LEMMA PerMonthRises ==
    ASSUME NEW a \in Nat, NEW b \in Nat, a <= b
    PROVE  PerMonth(a) \in Nat /\ PerMonth(b) \in Nat /\ PerMonth(a) <= PerMonth(b) /\ PerMonth(0) = 0
  <1>1. YearMonths \in Nat \ {0}
    BY ReportsConstants
  <1>2. a \div YearMonths <= b \div YearMonths
    BY <1>1, QuotientRises
  <1>3. \A n \in Nat : n \div YearMonths \in Int /\ 0 <= n \div YearMonths
    BY <1>1, Quotient, QuotientIsMost
  <1>4. 0 \div YearMonths < 1
    BY <1>1, QuotientIsLess
  <1>5. 0 \div YearMonths = 0
    BY <1>3, <1>4
  <1> QED
    BY <1>2, <1>3, <1>5 DEF PerMonth

\* What is met with some income is met with more; nothing meets a target.
LEMMA MetRises ==
    ASSUME NEW a \in Nat, NEW b \in Nat, a <= b, NEW target \in Nat
    PROVE  (Met(a, target) => Met(b, target)) /\ (target > 0 => ~ Met(0, target))
  <1>1. /\ TakeHome(a) \in Nat /\ TakeHome(b) \in Nat /\ TakeHome(a) <= TakeHome(b)
        /\ TakeHome(0) = 0
    BY TakeHomeRises
  <1>2. /\ PerMonth(TakeHome(a)) \in Nat /\ PerMonth(TakeHome(b)) \in Nat
        /\ PerMonth(TakeHome(a)) <= PerMonth(TakeHome(b)) /\ PerMonth(0) = 0
    BY <1>1, PerMonthRises
  <1> QED
    BY <1>1, <1>2 DEF Met

\* The tenths of a year of more months are no fewer, and none of none.
LEMMA TenthsRise ==
    ASSUME NEW m \in Nat, NEW n \in Nat, m <= n
    PROVE  /\ Tenths(m) \in Int /\ Tenths(n) \in Int
           /\ Tenths(m) <= Tenths(n) /\ (Tenths(n) = 0 <=> n = 0)
  <1>1. YearMonths \in Nat \ {0}
    BY ReportsConstants
  <1>2. \A k \in Nat : /\ CeilDiv(k * 10, YearMonths) \in Int
                       /\ k * 10 <= YearMonths * CeilDiv(k * 10, YearMonths)
                       /\ \A x \in Int : CeilDiv(k * 10, YearMonths) <= x <=> k * 10 <= YearMonths * x
    BY <1>1, CeilIsEnough, CeilIsLeast
  <1>3. CeilDiv(m * 10, YearMonths) <= CeilDiv(n * 10, YearMonths)
    <2> DEFINE x == CeilDiv(n * 10, YearMonths)
               y == YearMonths * x
    <2>1. x \in Int /\ n * 10 <= y /\ y \in Int
      BY <1>1, <1>2
    <2> HIDE DEF y
    <2>2. m * 10 <= y
      BY <2>1
    <2> QED
      BY <1>2, <2>1, <2>2 DEF y
  <1>4. CeilDiv(n * 10, YearMonths) <= 0 <=> n = 0
    <2>1. YearMonths * 0 = 0
      BY <1>1
    <2> QED
      BY <1>2, <2>1
  <1>5. CeilDiv(n * 10, YearMonths) >= 0
    <2>1. PICK x \in Int : x = CeilDiv(n * 10, YearMonths)
      BY <1>2
    <2> SUFFICES ASSUME x + 1 <= 0 PROVE FALSE
      BY <2>1
    <2>2. YearMonths * (x + 1) <= YearMonths * 0 /\ YearMonths * (x + 1) = YearMonths * x + YearMonths
      BY <1>1, TimesKeepsOrder
    <2>3. n * 10 <= YearMonths * x
      BY <1>2, <2>1
    <2> QED
      BY <1>1, <2>2, <2>3
  <1> QED
    BY <1>2, <1>3, <1>4, <1>5 DEF Tenths

\* The least of some months with a property.
LEMMA FirstMetIs ==
    ASSUME NEW income, DOMAIN income \in SUBSET Nat, NEW target, NEW n \in DOMAIN income,
           Met(income[n], target), \A k \in 0..n - 1 : k \in DOMAIN income /\ ~ Met(income[k], target)
    PROVE  FirstMet(income, target) = {Tenths(n)}
  <1> DEFINE T == {m \in DOMAIN income : Met(income[m], target) /\ \A k \in 0..m - 1 : ~ Met(income[k], target)}
  <1>1. n \in T
    OBVIOUS
  <1>2. ASSUME NEW m \in T PROVE m = n
    <2>1. m \in Nat /\ n \in Nat
      OBVIOUS
    <2>2. ~ (n < m)
      <3> SUFFICES ASSUME n < m PROVE FALSE
        OBVIOUS
      <3>1. n \in 0..m - 1
        BY <2>1
      <3> QED
        BY <3>1
    <2>3. ~ (m < n)
      <3> SUFFICES ASSUME m < n PROVE FALSE
        OBVIOUS
      <3>1. m \in 0..n - 1
        BY <2>1
      <3> QED
        BY <3>1
    <2> QED
      BY <2>1, <2>2, <2>3
  <1>3. FirstMet(income, target) = {Tenths(m) : m \in T}
    BY DEF FirstMet
  <1> HIDE DEF T
  <1> QED
    BY <1>1, <1>2, <1>3

\* With no less income in any month, the goal is met no later.
LEMMA NoLess ==
    ASSUME NEW income \in [0..ProjectionMonths -> Nat], NEW more \in [0..ProjectionMonths -> Nat],
           \A m \in 0..ProjectionMonths : income[m] <= more[m], NEW target \in Nat
    PROVE  Sooner(FirstMet(more, target), FirstMet(income, target))
  <1>0. ProjectionMonths \in Nat
    BY IncomeConstants
  <1>1. CASE FirstMet(income, target) = {}
    BY <1>1 DEF Sooner
  <1>2. CASE FirstMet(income, target) # {}
    <2>1. PICK m \in 0..ProjectionMonths :
              Met(income[m], target) /\ \A k \in 0..m - 1 : ~ Met(income[k], target)
      BY <1>2 DEF FirstMet
    <2>2. FirstMet(income, target) = {Tenths(m)}
      <3>1. DOMAIN income \in SUBSET Nat /\ m \in DOMAIN income /\ \A k \in 0..m - 1 : k \in DOMAIN income
        BY <1>0
      <3> QED
        BY <2>1, <3>1, FirstMetIs
    <2> DEFINE T == {k \in 0..ProjectionMonths : Met(more[k], target)}
    <2>3. m \in T
      BY <2>1, MetRises
    <2>4. PICK n \in T : \A k \in T : n <= k
      <3>1. T \in SUBSET (0..ProjectionMonths)
        OBVIOUS
      <3> HIDE DEF T
      <3>2. T \in SUBSET Nat /\ T # {}
        BY <1>0, <2>3, <3>1
      <3> QED
        BY <3>2, Least
    <2>5. FirstMet(more, target) = {Tenths(n)}
      <3>1. DOMAIN more \in SUBSET Nat /\ n \in DOMAIN more /\ Met(more[n], target)
        BY <1>0
      <3>2. ASSUME NEW k \in 0..n - 1 PROVE k \in DOMAIN more /\ ~ Met(more[k], target)
        <4>1. k \in 0..ProjectionMonths /\ k < n /\ n \in Nat
          BY <1>0
        <4>2. k \notin T
          BY <2>4, <4>1
        <4> QED
          BY <4>1, <4>2
      <3> QED
        BY <3>1, <3>2, FirstMetIs
    <2>6. n <= m /\ n \in Nat /\ m \in Nat
      BY <1>0, <2>3, <2>4
    <2>7. Tenths(n) \in Int /\ Tenths(m) \in Int /\ Tenths(n) <= Tenths(m)
      BY <2>6, TenthsRise
    <2>8. ASSUME NEW x \in Int PROVE Max({x}) = x /\ Min({x}) = x
      <3>1. {x} \in SUBSET Int /\ x \in {x} /\ (\A k \in {x} : k <= x) /\ (\A k \in {x} : x <= k)
        OBVIOUS
      <3> QED
        BY <3>1, GreatestIs, LeastIs
    <2> QED
      BY <2>2, <2>5, <2>7, <2>8 DEF Sooner
  <1> QED
    BY <1>1, <1>2

\* The projection month by month: what the shares are worth, and the income they yield.
Growths == {growth \in Int \X Pos : growth[1] + growth[2] >= 0}
Months == [worth : Pos, yield : Shares, income : Nat]
NextMonth(month, was, growth, contribution) ==
    LET worth == was.worth + TakeHome(PerMonth(was.income)) + contribution
        yield == IF month % YearMonths = 0
                 THEN Times(was.yield, <<growth[1] + growth[2], growth[2]>>) ELSE was.yield
    IN  [worth |-> worth, yield |-> yield, income |-> (worth * yield[1]) \div yield[2]]
MonthsOf(start, value, growth, contribution) ==
    CHOOSE after : after = [month \in 0..ProjectionMonths |->
        IF month = 0 THEN [worth |-> value, yield |-> <<start, value>>, income |-> start]
        ELSE LET was == after[month - 1]
                 worth == was.worth + TakeHome(PerMonth(was.income)) + contribution
                 yield == IF month % YearMonths = 0
                          THEN Times(was.yield, <<growth[1] + growth[2], growth[2]>>) ELSE was.yield
             IN  [worth |-> worth, yield |-> yield, income |-> (worth * yield[1]) \div yield[2]]]

LEMMA YearsAre ==
    ASSUME NEW start, NEW value, NEW growth, NEW contribution, NEW target
    PROVE  Years(start, value, growth, contribution, target) =
             LET after == MonthsOf(start, value, growth, contribution)
             IN  FirstMet([month \in DOMAIN after |-> after[month].income], target)
  BY DEF Years, MonthsOf

\* What a month leaves: more than before, with no more than before.
LEMMA MonthTyped ==
    ASSUME NEW month \in Nat, NEW was \in Months, NEW growth \in Growths, NEW contribution \in Nat
    PROVE  NextMonth(month, was, growth, contribution) \in Months
  <1> DEFINE taken == TakeHome(PerMonth(was.income))
             worth == was.worth + taken + contribution
             grown == <<growth[1] + growth[2], growth[2]>>
             yield == IF month % YearMonths = 0 THEN Times(was.yield, grown) ELSE was.yield
  <1>1. was.worth \in Pos /\ was.yield \in Shares /\ was.income \in Nat
    BY DEF Months
  <1>2. taken \in Nat
    BY <1>1, TakeHomeRises, PerMonthRises
  <1>3. worth \in Pos
    BY <1>1, <1>2 DEF Pos
  <1>4. yield \in Shares
    <2>1. PICK g \in Nat, d \in Pos : grown = <<g, d>>
      BY DEF Growths, Pos
    <2>2. PICK p \in Nat, q \in Pos : was.yield = <<p, q>>
      BY <1>1 DEF Shares
    <2>3. p * g \in Nat /\ q * d \in Pos
      BY DEF Pos
    <2> QED
      BY <2>1, <2>2, <2>3 DEF Shares, Times
  <1>5. (worth * yield[1]) \div yield[2] \in Nat
    <2>1. PICK p \in Nat, q \in Pos, w \in Pos : yield = <<p, q>> /\ w = worth
      BY <1>3, <1>4 DEF Shares
    <2>2. w * p \in Nat
      BY DEF Pos
    <2>3. (w * p) \div q \in Int /\ 0 <= (w * p) \div q
      BY <2>2, Quotient, QuotientIsMost DEF Pos
    <2> QED
      BY <2>1, <2>3
  <1>6. NextMonth(month, was, growth, contribution) =
            [worth |-> worth, yield |-> yield, income |-> (worth * yield[1]) \div yield[2]]
    BY DEF NextMonth
  <1> HIDE DEF worth, yield
  <1> QED
    BY <1>3, <1>4, <1>5, <1>6 DEF Months

LEMMA ProductsRise ==
    ASSUME NEW a \in Nat, NEW b \in Nat, NEW c \in Nat, NEW d \in Nat, a <= b, c <= d
    PROVE  a * c <= b * d
  <1>1. a * c <= a * d /\ d * a <= d * b
    BY TimesKeepsOrder
  <1> DEFINE x == a * c
             y == a * d
             z == b * d
  <1>2. d * a = y /\ d * b = z /\ x \in Int /\ y \in Int /\ z \in Int
    OBVIOUS
  <1>3. x <= y /\ d * a <= d * b
    BY <1>1
  <1> HIDE DEF x, y, z
  <1>4. x <= z
    BY <1>2, <1>3
  <1> QED
    BY <1>4 DEF x, z

LEMMA TimesCancels ==
    ASSUME NEW b \in Pos, NEW x \in Int, NEW y \in Int, b * x <= b * y
    PROVE  x <= y
  <1> SUFFICES ASSUME y + 1 <= x PROVE FALSE
    OBVIOUS
  <1>1. b * (y + 1) <= b * x
    BY TimesKeepsOrder DEF Pos
  <1> DEFINE k == b * x
             l == b * y
  <1>2. b * (y + 1) = l + b /\ k \in Int /\ l \in Int /\ b \in Int /\ b > 0
    BY DEF Pos
  <1>3. b * (y + 1) <= k /\ k <= l
    BY <1>1
  <1> HIDE DEF k, l
  <1> QED
    BY <1>2, <1>3

\* Of a greater fraction, no less is left.
LEMMA QuotientOfMore ==
    ASSUME NEW a \in Nat, NEW c \in Nat, NEW b \in Pos, NEW d \in Pos, a * d <= c * b
    PROVE  a \div b <= c \div d
  <1> DEFINE x == a \div b
  <1>1. x \in Int /\ b * x <= a
    BY Quotient DEF Pos
  <1> HIDE DEF x
  <1>2. b * x \in Int /\ d \in Nat /\ c \in Int /\ d \in Nat \ {0}
    BY <1>1 DEF Pos
  <1>3. d * (b * x) <= d * a
    BY <1>1, <1>2, TimesKeepsOrder
  <1>4. d * (b * x) = b * (d * x) /\ d * a = a * d /\ c * b = b * c /\ d * x \in Int
    BY <1>1 DEF Pos
  <1>5. b * (d * x) <= b * c
    <2> DEFINE l == b * (d * x)
               m == a * d
               n == b * c
    <2>1. l \in Int /\ m \in Int /\ n \in Int
      BY <1>1 DEF Pos
    <2>2. l <= m /\ m <= n
      BY <1>3, <1>4
    <2> HIDE DEF l, m, n
    <2>3. l <= n
      BY <2>1, <2>2
    <2> QED
      BY <2>3 DEF l, n
  <1>6. d * x <= c
    BY <1>2, <1>4, <1>5, TimesCancels
  <1> QED
    BY <1>1, <1>2, <1>6, QuotientIsMost DEF x

NoWorse(more, was) ==
    more.worth >= was.worth /\ NotBelow(more.yield, was.yield) /\ more.income >= was.income

\* A part of more, at a greater yield, is no less.
LEMMA IncomeRises ==
    ASSUME NEW w \in Pos, NEW v \in Pos, w <= v, NEW y \in Shares, NEW z \in Shares, NotBelow(z, y)
    PROVE  (w * y[1]) \div y[2] <= (v * z[1]) \div z[2]
  <1>1. PICK p \in Nat, q \in Pos : y = <<p, q>>
    BY DEF Shares
  <1>2. PICK r \in Nat, s \in Pos : z = <<r, s>>
    BY DEF Shares
  <1>3. p * s <= r * q
    BY <1>1, <1>2 DEF NotBelow, Pos
  <1>4. p * s \in Nat /\ r * q \in Nat /\ w * p \in Nat /\ v * r \in Nat /\ w \in Nat /\ v \in Nat
    BY DEF Pos
  <1>5. w * (p * s) <= v * (r * q)
    BY <1>3, <1>4, ProductsRise
  <1>6. (w * p) * s = w * (p * s) /\ (v * r) * q = v * (r * q)
    BY DEF Pos
  <1>7. (w * p) \div q <= (v * r) \div s
    BY <1>4, <1>5, <1>6, QuotientOfMore
  <1> QED
    BY <1>1, <1>2, <1>7

\* A yield grown faster stays no lower.
LEMMA YieldRises ==
    ASSUME NEW y \in Shares, NEW z \in Shares, NotBelow(z, y),
           NEW growth \in Growths, NEW faster \in Growths, NotBelow(faster, growth)
    PROVE  NotBelow(Times(z, <<faster[1] + faster[2], faster[2]>>), Times(y, <<growth[1] + growth[2], growth[2]>>))
  <1>1. PICK p \in Nat, q \in Pos : y = <<p, q>>
    BY DEF Shares
  <1>2. PICK r \in Nat, s \in Pos : z = <<r, s>>
    BY DEF Shares
  <1>3. PICK g \in Int, d \in Pos : growth = <<g, d>> /\ g + d >= 0
    BY DEF Growths
  <1>4. PICK h \in Int, e \in Pos : faster = <<h, e>> /\ h + e >= 0
    BY DEF Growths
  <1>5. p * s <= r * q
    BY <1>1, <1>2 DEF NotBelow, Pos
  <1>6. (g + d) * e <= (h + e) * d
    <2>1. g * e <= h * d
      BY <1>3, <1>4 DEF NotBelow, Pos
    <2>2. (g + d) * e = g * e + d * e /\ (h + e) * d = h * d + d * e
      BY DEF Pos
    <2>3. g * e \in Int /\ h * d \in Int /\ d * e \in Int
      BY DEF Pos
    <2> QED
      BY <2>1, <2>2, <2>3
  <1>7. PICK k \in Nat, l \in Nat : k = g + d /\ l = h + e
    BY <1>3, <1>4 DEF Pos
  <1>8. k * e <= l * d
    BY <1>6, <1>7
  <1>9. p * s \in Nat /\ r * q \in Nat /\ k * e \in Nat /\ l * d \in Nat
    BY DEF Pos
  <1>10. (p * s) * (k * e) <= (r * q) * (l * d)
    BY <1>5, <1>8, <1>9, ProductsRise
  <1>11. (p * k) * (s * e) = (p * s) * (k * e) /\ (r * l) * (q * d) = (r * q) * (l * d)
    BY DEF Pos
  <1>12. (r * l) * (q * d) >= (p * k) * (s * e)
    <2> DEFINE a == (p * s) * (k * e)
               b == (r * q) * (l * d)
    <2>1. a \in Int /\ b \in Int /\ a <= b
      BY <1>9, <1>10
    <2> HIDE DEF a, b
    <2>2. b >= a
      BY <2>1
    <2> QED
      BY <1>11, <2>2 DEF a, b
  <1>13. Times(y, <<growth[1] + growth[2], growth[2]>>) = <<p * k, q * d>>
    BY <1>1, <1>3, <1>7 DEF Times
  <1>14. Times(z, <<faster[1] + faster[2], faster[2]>>) = <<r * l, s * e>>
    BY <1>2, <1>4, <1>7 DEF Times
  <1> QED
    BY <1>12, <1>13, <1>14 DEF NotBelow

LEMMA MonthRises ==
    ASSUME NEW month \in Nat, NEW was \in Months, NEW more \in Months, NoWorse(more, was),
           NEW growth \in Growths, NEW faster \in Growths, NotBelow(faster, growth),
           NEW less \in Nat, NEW greater \in Nat, less <= greater
    PROVE  NoWorse(NextMonth(month, more, faster, greater), NextMonth(month, was, growth, less))
  <1> DEFINE a == NextMonth(month, was, growth, less)
             b == NextMonth(month, more, faster, greater)
  <1>1. a \in Months /\ b \in Months
    BY MonthTyped
  <1>2. /\ was.worth \in Pos /\ was.income \in Nat /\ was.yield \in Shares
        /\ more.worth \in Pos /\ more.income \in Nat /\ more.yield \in Shares
        /\ a.worth \in Pos /\ b.worth \in Pos /\ a.yield \in Shares /\ b.yield \in Shares
    BY <1>1 DEF Months
  <1>3. a.worth <= b.worth
    <2>1. PICK m \in Nat, n \in Nat : m = PerMonth(was.income) /\ n = PerMonth(more.income) /\ m <= n
      BY <1>2, PerMonthRises DEF NoWorse
    <2>2. PICK x \in Nat, z \in Nat : x = TakeHome(m) /\ z = TakeHome(n) /\ x <= z
      BY <2>1, TakeHomeRises
    <2>3. a.worth = was.worth + x + less /\ b.worth = more.worth + z + greater
      BY <2>1, <2>2 DEF NextMonth
    <2> HIDE DEF a, b
    <2> QED
      BY <1>2, <2>2, <2>3 DEF NoWorse, Pos
  <1>4. NotBelow(b.yield, a.yield)
    <2>1. CASE month % YearMonths = 0
      <3>1. /\ a.yield = Times(was.yield, <<growth[1] + growth[2], growth[2]>>)
            /\ b.yield = Times(more.yield, <<faster[1] + faster[2], faster[2]>>)
        BY <2>1 DEF NextMonth
      <3> HIDE DEF a, b
      <3> QED
        BY <1>2, <3>1, YieldRises DEF NoWorse
    <2>2. CASE month % YearMonths # 0
      <3>1. a.yield = was.yield /\ b.yield = more.yield
        BY <2>2 DEF NextMonth
      <3> QED
        BY <3>1 DEF NoWorse
    <2> QED
      BY <2>1, <2>2
  <1>5. /\ a.income = (a.worth * a.yield[1]) \div a.yield[2]
        /\ b.income = (b.worth * b.yield[1]) \div b.yield[2]
    BY DEF NextMonth
  <1>6. a.income \in Int /\ b.income \in Int
    BY <1>1 DEF Months
  <1> HIDE DEF a, b
  <1>7. (a.worth * a.yield[1]) \div a.yield[2] <= (b.worth * b.yield[1]) \div b.yield[2]
    BY <1>2, <1>3, <1>4, IncomeRises
  <1> QED
    BY <1>2, <1>3, <1>4, <1>5, <1>6, <1>7 DEF NoWorse, Pos, a, b

\* The months of a projection, one after the other.
LEMMA MonthsUnfold ==
    ASSUME NEW start \in Nat, NEW value \in Pos, NEW growth \in Growths, NEW contribution \in Nat
    PROVE  LET after == MonthsOf(start, value, growth, contribution)
           IN  /\ after \in [0..ProjectionMonths -> Months]
               /\ after[0] = [worth |-> value, yield |-> <<start, value>>, income |-> start]
               /\ \A month \in 1..ProjectionMonths :
                    after[month] = NextMonth(month, after[month - 1], growth, contribution)
  <1> DEFINE first == [worth |-> value, yield |-> <<start, value>>, income |-> start]
             F == [p \in (1..ProjectionMonths) \X Months |-> NextMonth(p[1], p[2], growth, contribution)]
             After(g) == [month \in 0..ProjectionMonths |->
                 IF month = 0 THEN first ELSE NextMonth(month, g[month - 1], growth, contribution)]
  <1>1. ProjectionMonths \in Nat
    BY IncomeConstants
  <1>2. first \in Months
    BY DEF Months, Shares
  <1>3. F \in [(1..ProjectionMonths) \X Months -> Months]
    BY <1>1, MonthTyped
  <1>4. \A month \in 1..ProjectionMonths, was \in Months :
            F[<<month, was>>] = NextMonth(month, was, growth, contribution)
    OBVIOUS
  <1> HIDE DEF first, F
  <1>5. PICK g : Steps(g, ProjectionMonths, Months, first, F)
    BY <1>1, <1>2, <1>3, StepByStep
  <1>6. \A month \in 1..ProjectionMonths : g[month] = NextMonth(month, g[month - 1], growth, contribution)
    <2> TAKE month \in 1..ProjectionMonths
    <2>1. month - 1 \in 0..ProjectionMonths
      BY <1>1
    <2>2. g[month - 1] \in Months /\ g[month] = F[<<month, g[month - 1]>>]
      BY <1>5, <2>1 DEF Steps
    <2> QED
      BY <1>4, <2>2
  <1>7. g = After(g)
    <2>1. \A month \in 0..ProjectionMonths : g[month] = After(g)[month]
      <3> TAKE month \in 0..ProjectionMonths
      <3>1. CASE month = 0
        BY <1>5, <3>1 DEF Steps
      <3>2. CASE month # 0
        <4>1. month \in 1..ProjectionMonths
          BY <1>1, <3>2
        <4> QED
          BY <1>6, <3>2, <4>1
      <3> QED
        BY <3>1, <3>2
    <2> QED
      BY <1>5, <2>1 DEF Steps
  <1> DEFINE after == CHOOSE h : h = After(h)
  <1>8. after = After(after)
    BY <1>7
  <1>9. after = MonthsOf(start, value, growth, contribution)
    BY DEF MonthsOf, NextMonth, first
  <1> HIDE DEF after
  <1>10. /\ after[0] = first
         /\ \A month \in 1..ProjectionMonths :
                after[month] = NextMonth(month, after[month - 1], growth, contribution)
    <2>1. 0 \in 0..ProjectionMonths /\ \A month \in 1..ProjectionMonths : month \in 0..ProjectionMonths /\ month # 0
      BY <1>1
    <2> QED
      BY <1>8, <2>1
  <1> DEFINE P == {month \in Nat : month <= ProjectionMonths => after[month] \in Months}
  <1>11. 0 \in P
    BY <1>2, <1>10
  <1>12. ASSUME NEW month \in Nat, month \in P PROVE month + 1 \in P
    <2>1. SUFFICES ASSUME month + 1 <= ProjectionMonths PROVE after[month + 1] \in Months
      OBVIOUS
    <2>2. month + 1 \in 1..ProjectionMonths /\ (month + 1) - 1 = month /\ month <= ProjectionMonths
      BY <1>1, <2>1
    <2>3. after[month] \in Months /\ after[month + 1] = NextMonth(month + 1, after[month], growth, contribution)
      BY <1>10, <1>12, <2>2
    <2> QED
      BY <2>3, MonthTyped
  <1> HIDE DEF P
  <1>13. Nat \subseteq P
    BY <1>11, <1>12, Naturals
  <1>14. \A month \in 0..ProjectionMonths : after[month] \in Months
    <2>1. \A month \in 0..ProjectionMonths : month \in Nat /\ month <= ProjectionMonths
      BY <1>1
    <2> QED
      BY <1>13, <2>1 DEF P
  <1>15. after \in [0..ProjectionMonths -> Months]
    <2>1. after = [month \in 0..ProjectionMonths |-> after[month]]
      BY <1>8
    <2> QED
      BY <1>14, <2>1
  <1> QED
    BY <1>9, <1>10, <1>15 DEF first

\* A plan that starts with no less, grows no slower and puts in no less is no slower.
LEMMA YearsSooner ==
    ASSUME NEW value \in Pos, NEW start \in Nat, NEW higher \in Nat, start <= higher,
           NEW growth \in Growths, NEW faster \in Growths, NotBelow(faster, growth),
           NEW less \in Nat, NEW greater \in Nat, less <= greater, NEW target \in Nat
    PROVE  Sooner(Years(higher, value, faster, greater, target), Years(start, value, growth, less, target))
  <1> DEFINE was == MonthsOf(start, value, growth, less)
             more == MonthsOf(higher, value, faster, greater)
  <1>0. ProjectionMonths \in Nat
    BY IncomeConstants
  <1>1. /\ was \in [0..ProjectionMonths -> Months]
        /\ was[0] = [worth |-> value, yield |-> <<start, value>>, income |-> start]
        /\ \A month \in 1..ProjectionMonths : was[month] = NextMonth(month, was[month - 1], growth, less)
    BY MonthsUnfold
  <1>2. /\ more \in [0..ProjectionMonths -> Months]
        /\ more[0] = [worth |-> value, yield |-> <<higher, value>>, income |-> higher]
        /\ \A month \in 1..ProjectionMonths : more[month] = NextMonth(month, more[month - 1], faster, greater)
    BY MonthsUnfold
  <1> DEFINE before == [month \in DOMAIN was |-> was[month].income]
             after == [month \in DOMAIN more |-> more[month].income]
  <1>3. /\ Years(start, value, growth, less, target) = FirstMet(before, target)
        /\ Years(higher, value, faster, greater, target) = FirstMet(after, target)
    BY YearsAre
  <1> HIDE DEF was, more
  <1> DEFINE P == {month \in Nat : month <= ProjectionMonths => NoWorse(more[month], was[month])}
  <1>4. 0 \in P
    <2>1. higher * value >= start * value
      BY ProductsRise DEF Pos
    <2>2. NotBelow(<<higher, value>>, <<start, value>>)
      BY <2>1 DEF NotBelow
    <2> QED
      BY <1>1, <1>2, <2>2 DEF NoWorse, Pos
  <1>5. ASSUME NEW month \in Nat, month \in P PROVE month + 1 \in P
    <2>1. SUFFICES ASSUME month + 1 <= ProjectionMonths PROVE NoWorse(more[month + 1], was[month + 1])
      OBVIOUS
    <2>2. /\ month + 1 \in 1..ProjectionMonths /\ (month + 1) - 1 = month /\ month <= ProjectionMonths
          /\ month \in 0..ProjectionMonths /\ month + 1 \in Nat
      BY <1>0, <2>1
    <2>3. /\ was[month] \in Months /\ more[month] \in Months /\ NoWorse(more[month], was[month])
          /\ was[month + 1] = NextMonth(month + 1, was[month], growth, less)
          /\ more[month + 1] = NextMonth(month + 1, more[month], faster, greater)
      BY <1>1, <1>2, <1>5, <2>2
    <2> QED
      BY <2>2, <2>3, MonthRises
  <1> HIDE DEF P
  <1>6. Nat \subseteq P
    BY <1>4, <1>5, Naturals
  <1>7. \A month \in 0..ProjectionMonths : NoWorse(more[month], was[month])
    <2>1. \A month \in 0..ProjectionMonths : month \in Nat /\ month <= ProjectionMonths
      BY <1>0
    <2> QED
      BY <1>6, <2>1 DEF P
  <1>8. /\ before \in [0..ProjectionMonths -> Nat] /\ after \in [0..ProjectionMonths -> Nat]
        /\ \A month \in 0..ProjectionMonths : before[month] <= after[month]
    <2>1. \A month \in 0..ProjectionMonths : was[month].income \in Nat /\ more[month].income \in Nat
      BY <1>1, <1>2 DEF Months
    <2>2. \A month \in 0..ProjectionMonths : was[month].income <= more[month].income
      BY <1>7, <2>1 DEF NoWorse
    <2> QED
      BY <1>1, <1>2, <2>1, <2>2
  <1> HIDE DEF before, after
  <1> QED
    BY <1>3, <1>8, NoLess

\* The goal is met from the start if the income of the start meets it, and not otherwise.
LEMMA YearsFromTheStart ==
    ASSUME NEW value \in Pos, NEW start \in Nat, NEW growth \in Growths, NEW contribution \in Nat,
           NEW target \in Nat
    PROVE  Years(start, value, growth, contribution, target) = {0} <=> Met(start, target)
  <1> DEFINE after == MonthsOf(start, value, growth, contribution)
             income == [month \in DOMAIN after |-> after[month].income]
  <1>0. ProjectionMonths \in Nat
    BY IncomeConstants
  <1>1. /\ after \in [0..ProjectionMonths -> Months]
        /\ after[0] = [worth |-> value, yield |-> <<start, value>>, income |-> start]
    BY MonthsUnfold
  <1>2. Years(start, value, growth, contribution, target) = FirstMet(income, target)
    BY YearsAre
  <1> HIDE DEF after
  <1>3. DOMAIN income = 0..ProjectionMonths /\ income[0] = start
    BY <1>0, <1>1
  <1> HIDE DEF income
  <1>4. ASSUME Met(start, target) PROVE FirstMet(income, target) = {0}
    <2>1. DOMAIN income \in SUBSET Nat /\ 0 \in DOMAIN income /\ Met(income[0], target)
      BY <1>0, <1>3, <1>4
    <2>2. FirstMet(income, target) = {Tenths(0)}
      BY <2>1, FirstMetIs
    <2> QED
      BY <2>2, TenthsRise
  <1>5. ASSUME ~ Met(start, target), 0 \in FirstMet(income, target) PROVE FALSE
    <2>1. PICK month \in DOMAIN income : Met(income[month], target) /\ Tenths(month) = 0
      BY <1>5 DEF FirstMet
    <2>2. month = 0
      BY <1>0, <1>3, <2>1, TenthsRise
    <2> QED
      BY <1>3, <1>5, <2>1, <2>2
  <1> QED
    BY <1>2, <1>4, <1>5

-----------------------------------------------------------------------------
(* What is held, and what its last year came to.                           *)

IsHolding(holding) ==
    /\ holding.shares \in Nat /\ IsHistory(holding.splits)
    /\ IsFiniteSet(DOMAIN holding.dividends) /\ DOMAIN holding.dividends \subseteq Nat
    /\ \A day \in DOMAIN holding.dividends : holding.dividends[day] \in Nat

LEMMA RatioTyped ==
    ASSUME NEW holding, IsHolding(holding), NEW day, NEW asOf
    PROVE  SplitRatio(holding, day, asOf) \in Ratios
  <1> DEFINE S == {s \in DOMAIN holding.splits : day <= s /\ s <= asOf}
  <1>1. IsFiniteSet(S) /\ \A s \in S : holding.splits[s] \in Ratios
    BY FS_Subset DEF IsHolding, IsHistory
  <1>2. SplitRatio(holding, day, asOf) = ProductOf(holding.splits, S)
    BY DEF SplitRatio
  <1> HIDE DEF S
  <1> QED
    BY <1>1, <1>2, ProductRemove

LEMMA RestatedTyped ==
    ASSUME NEW holding, IsHolding(holding), NEW day \in DOMAIN holding.dividends, NEW asOf
    PROVE  RestatedGross(holding, day, asOf) \in Nat
  <1>1. PICK p \in Pos, q \in Pos : SplitRatio(holding, day, asOf) = <<p, q>>
    BY RatioTyped DEF Ratios
  <1>2. PICK d \in Nat, h \in Nat : d = holding.dividends[day] /\ h = holding.shares
    BY DEF IsHolding
  <1>3. d * h * q \in Nat
    BY DEF Pos
  <1>4. (d * h * q) \div p \in Int /\ 0 <= (d * h * q) \div p
    BY <1>3, Quotient, QuotientIsMost DEF Pos
  <1> QED
    BY <1>1, <1>2, <1>4 DEF RestatedGross

LEMMA EntitledTyped ==
    ASSUME NEW holding, IsHolding(holding), NEW asOf
    PROVE  LET entitled == Entitlements(holding, asOf)
           IN  /\ IsFiniteSet(DOMAIN entitled) /\ DOMAIN entitled \subseteq DOMAIN holding.dividends
               /\ \A day \in DOMAIN entitled : entitled[day] \in Nat /\ entitled[day] > 0
               /\ AnnualGross(entitled) = SumFunctionOnSet(entitled, DOMAIN entitled)
               /\ AnnualGross(entitled) \in Nat
  <1> DEFINE gross == [day \in DividendsOfTheYear(holding, asOf) |-> RestatedGross(holding, day, asOf)]
             D == {d \in DOMAIN gross : gross[d] > 0}
             entitled == [day \in D |-> gross[day]]
  <1>1. D \subseteq DOMAIN holding.dividends /\ IsFiniteSet(D)
    BY FS_Subset DEF IsHolding, DividendsOfTheYear
  <1>2. \A day \in D : gross[day] \in Nat /\ gross[day] > 0
    BY <1>1, RestatedTyped
  <1>3. Entitlements(holding, asOf) = entitled
    BY DEF Entitlements
  <1> HIDE DEF gross
  <1>4. DOMAIN entitled = D /\ \A day \in D : entitled[day] = gross[day]
    OBVIOUS
  <1> HIDE DEF D, entitled
  <1>5. AnnualGross(entitled) = SumFunctionOnSet(entitled, D)
    BY <1>4 DEF AnnualGross, SumFunction, SumFunctionOnSet, FoldFunction
  <1>6. SumFunctionOnSet(entitled, D) \in Nat
    BY <1>1, <1>2, <1>4, SumNat
  <1> QED
    BY <1>1, <1>2, <1>3, <1>4, <1>5, <1>6

RestatedShare(holding, day, asOf) ==
    LET ratio == SplitRatio(holding, day, asOf)
    IN  <<holding.dividends[day] * ratio[2], ratio[1]>>

LEMMA PerShareTyped ==
    ASSUME NEW holding, IsHolding(holding), NEW end, NEW asOf
    PROVE  LET f == [day \in DividendsOfTheYear(holding, end) |-> RestatedShare(holding, day, asOf)]
           IN  /\ IsFiniteSet(DividendsOfTheYear(holding, end))
               /\ \A day \in DividendsOfTheYear(holding, end) : f[day] \in Shares
               /\ PerShare(holding, end, asOf)
                    = FoldFunctionOnSet(Added, <<0, 1>>, f, DividendsOfTheYear(holding, end))
               /\ PerShare(holding, end, asOf) \in Shares
  <1> DEFINE D == DividendsOfTheYear(holding, end)
             f == [day \in D |-> RestatedShare(holding, day, asOf)]
  <1>1. D \subseteq DOMAIN holding.dividends /\ IsFiniteSet(D)
    BY FS_Subset DEF IsHolding, DividendsOfTheYear
  <1>2. ASSUME NEW day \in D PROVE RestatedShare(holding, day, asOf) \in Shares
    <2>1. PICK p \in Pos, q \in Pos : SplitRatio(holding, day, asOf) = <<p, q>>
      BY RatioTyped DEF Ratios
    <2>2. PICK d \in Nat : d = holding.dividends[day]
      BY <1>1 DEF IsHolding
    <2>3. d * q \in Nat
      BY DEF Pos
    <2> QED
      BY <2>1, <2>2, <2>3 DEF RestatedShare, Shares
  <1>3. PerShare(holding, end, asOf) = FoldFunctionOnSet(Added, <<0, 1>>, f, D)
    BY DEF PerShare, FoldFunction, RestatedShare
  <1>4. \A day \in D : f[day] = RestatedShare(holding, day, asOf)
    OBVIOUS
  <1> HIDE DEF D
  <1>5. FoldFunctionOnSet(Added, <<0, 1>>, f, D) \in Shares
    <2> HIDE DEF f
    <2>1. \A day \in D : f[day] \in Shares
      BY <1>2, <1>4
    <2> QED
      BY <1>1, <2>1, AddedUnfolds
  <1> QED
    BY <1>1, <1>2, <1>3, <1>4, <1>5 DEF D

LEMMA GrowthTyped ==
    ASSUME NEW holding, IsHolding(holding), NEW asOf
    PROVE  MeasuredGrowth(holding, asOf) \in Growths
  <1>1. PICK p \in Nat, q \in Pos : PerShare(holding, asOf, asOf) = <<p, q>>
    <2>1. PerShare(holding, asOf, asOf) \in Shares
      BY PerShareTyped
    <2> QED
      BY <2>1 DEF Shares
  <1>2. PICK r \in Nat, s \in Pos : PerShare(holding, asOf - GrowthSpan, asOf) = <<r, s>>
    <2>1. PerShare(holding, asOf - GrowthSpan, asOf) \in Shares
      BY PerShareTyped
    <2> QED
      BY <2>1 DEF Shares
  <1>3. MeasuredGrowth(holding, asOf) = <<0, 1>> \/ (r # 0 /\ MeasuredGrowth(holding, asOf) = <<p * s - r * q, q * r>>)
    BY <1>1, <1>2 DEF MeasuredGrowth
  <1>4. <<0, 1>> \in Growths
    BY DEF Growths, Pos
  <1>5. ASSUME r # 0 PROVE <<p * s - r * q, q * r>> \in Growths
    <2>1. p * s \in Nat /\ r * q \in Nat /\ q * r \in Pos /\ r * q = q * r
      BY <1>5 DEF Pos
    <2>2. p * s - r * q \in Int /\ (p * s - r * q) + q * r >= 0
      BY <2>1
    <2> QED
      BY <2>1, <2>2 DEF Growths
  <1> QED
    BY <1>3, <1>4, <1>5

\* Fractions in order.
Signed == Int \X Pos

LEMMA NotBelowAny ==
    ASSUME NEW a \in Signed, NEW b \in Signed, NEW c \in Signed, NotBelow(a, b), NotBelow(b, c)
    PROVE  NotBelow(a, c)
  <1>1. PICK m \in Int, n \in Pos : a = <<m, n>>
    BY DEF Signed
  <1>2. PICK p \in Int, q \in Pos : b = <<p, q>>
    BY DEF Signed
  <1>3. PICK x \in Int, y \in Pos : c = <<x, y>>
    BY DEF Signed
  <1>4. /\ n \in Nat /\ y \in Nat /\ q \in Nat /\ p * n \in Int /\ m * q \in Int
        /\ x * q \in Int /\ p * y \in Int /\ x * n \in Int /\ m * y \in Int
    BY DEF Pos
  <1>5. p * n <= m * q /\ x * q <= p * y
    BY <1>1, <1>2, <1>3, <1>4 DEF NotBelow
  <1>6. y * (p * n) <= y * (m * q) /\ n * (x * q) <= n * (p * y)
    BY <1>4, <1>5, TimesKeepsOrder
  <1> DEFINE k == q * (x * n)
             l == n * (p * y)
             o == q * (m * y)
  <1>7. /\ y * (p * n) = l /\ y * (m * q) = o /\ n * (x * q) = k
        /\ k \in Int /\ l \in Int /\ o \in Int
    BY <1>4
  <1>8. l <= o /\ k <= l
    BY <1>6, <1>7
  <1> HIDE DEF k, l, o
  <1>9. k <= o
    BY <1>7, <1>8
  <1>10. x * n <= m * y
    BY <1>4, <1>9, TimesCancels DEF k, o
  <1> QED
    BY <1>1, <1>3, <1>4, <1>10 DEF NotBelow

LEMMA LesserIs ==
    ASSUME NEW a \in Signed, NEW b \in Signed
    PROVE  Lesser(a, b) \in {a, b} /\ NotBelow(a, Lesser(a, b)) /\ NotBelow(b, Lesser(a, b))
  <1>1. PICK m \in Int, n \in Pos : a = <<m, n>>
    BY DEF Signed
  <1>2. PICK p \in Int, q \in Pos : b = <<p, q>>
    BY DEF Signed
  <1>3. m * q \in Int /\ p * n \in Int /\ m * n \in Int /\ p * q \in Int
    BY DEF Pos
  <1>4. CASE NotBelow(a, b)
    <2>1. NotBelow(b, b)
      BY <1>2, <1>3 DEF NotBelow
    <2> QED
      BY <1>4, <2>1 DEF Lesser
  <1>5. CASE ~ NotBelow(a, b)
    <2>1. NotBelow(a, a) /\ NotBelow(b, a)
      BY <1>1, <1>2, <1>3, <1>5 DEF NotBelow
    <2> QED
      BY <1>5, <2>1 DEF Lesser
  <1> QED
    BY <1>4, <1>5

\* A scenario: what it starts from, and how it grows.
PlanStart(gross, i) == IF i = 1 THEN (gross * PessimisticStart[1]) \div PessimisticStart[2] ELSE gross
PlanGrowth(measured, i) ==
    IF i = 1 THEN Lesser(<<0, 1>>, measured)
    ELSE IF i = 2 THEN Lesser(measured, BaseGrowthCap) ELSE Lesser(measured, OptimisticGrowthCap)

LEMMA ProjectIs ==
    ASSUME NEW gross, NEW value, NEW measured, NEW contribution, NEW target, NEW i \in 1..3
    PROVE  Project(gross, value, measured, contribution, target)[i] =
             IF gross = 0 \/ value = 0 THEN {}
             ELSE Years(PlanStart(gross, i), value, PlanGrowth(measured, i), contribution, target)
  <1> DEFINE plans == <<[start |-> (gross * PessimisticStart[1]) \div PessimisticStart[2],
                         growth |-> Lesser(<<0, 1>>, measured)],
                        [start |-> gross, growth |-> Lesser(measured, BaseGrowthCap)],
                        [start |-> gross, growth |-> Lesser(measured, OptimisticGrowthCap)]>>
  <1>1. DOMAIN plans = 1..3
    OBVIOUS
  <1>2. plans[i].start = PlanStart(gross, i) /\ plans[i].growth = PlanGrowth(measured, i)
    <2>1. i = 1 \/ i = 2 \/ i = 3
      OBVIOUS
    <2> QED
      BY <2>1 DEF PlanStart, PlanGrowth
  <1>3. Project(gross, value, measured, contribution, target) =
            [k \in DOMAIN plans |-> IF gross = 0 \/ value = 0 THEN {}
                ELSE Years(plans[k].start, value, plans[k].growth, contribution, target)]
    BY DEF Project
  <1> HIDE DEF plans
  <1> QED
    BY <1>1, <1>2, <1>3

\* The scenarios are in order: a bolder one starts no lower and grows no slower.
LEMMA PlansInOrder ==
    ASSUME NEW gross \in Nat, NEW measured \in Growths, NEW i \in 1..3, NEW j \in 1..3, i <= j
    PROVE  /\ PlanStart(gross, i) \in Nat /\ PlanStart(gross, j) \in Nat
           /\ PlanStart(gross, i) <= PlanStart(gross, j)
           /\ PlanGrowth(measured, i) \in Growths /\ PlanGrowth(measured, j) \in Growths
           /\ NotBelow(PlanGrowth(measured, j), PlanGrowth(measured, i))
  <1> DEFINE none == <<0, 1>>
             low == Lesser(none, measured)
             base == Lesser(measured, BaseGrowthCap)
             high == Lesser(measured, OptimisticGrowthCap)
  <1>1. /\ BaseGrowthCap \in Nat \X Pos /\ OptimisticGrowthCap \in Nat \X Pos /\ PessimisticStart \in Nat \X Pos
        /\ NotBelow(OptimisticGrowthCap, BaseGrowthCap) /\ NotBelow(<<1, 1>>, PessimisticStart)
    BY IncomeConstants DEF Pos
  <1>2. /\ none \in Growths /\ BaseGrowthCap \in Growths /\ OptimisticGrowthCap \in Growths
        /\ NotBelow(BaseGrowthCap, none) /\ NotBelow(OptimisticGrowthCap, none)
    BY <1>1 DEF Growths, Pos, NotBelow
  <1>3. \A g \in Growths : g \in Signed /\ NotBelow(g, g)
    BY DEF Growths, Signed, NotBelow, Pos
  <1>4. PICK cap \in Growths, more \in Growths : cap = BaseGrowthCap /\ more = OptimisticGrowthCap
    BY <1>2
  <1> HIDE DEF none
  <1>5. /\ low \in {none, measured} /\ NotBelow(none, low) /\ NotBelow(measured, low)
        /\ base \in {measured, cap} /\ NotBelow(measured, base) /\ NotBelow(cap, base)
        /\ high \in {measured, more}
    BY <1>2, <1>3, <1>4, LesserIs
  <1>6. low \in Growths /\ base \in Growths /\ high \in Growths
    BY <1>2, <1>4, <1>5
  <1> HIDE DEF low, base, high
  <1>7. NotBelow(cap, low) /\ NotBelow(more, low) /\ NotBelow(more, base)
    BY <1>1, <1>2, <1>3, <1>4, <1>5, <1>6, NotBelowAny
  <1>8. NotBelow(base, low) /\ NotBelow(high, low) /\ NotBelow(high, base)
    BY <1>5, <1>7
  <1>9. PlanGrowth(measured, 1) = low /\ PlanGrowth(measured, 2) = base /\ PlanGrowth(measured, 3) = high
    BY DEF PlanGrowth, low, base, high, none
  <1>10. (gross * PessimisticStart[1]) \div PessimisticStart[2] \in Nat
         /\ (gross * PessimisticStart[1]) \div PessimisticStart[2] <= gross
    <2>1. PICK p \in Nat, q \in Pos : PessimisticStart = <<p, q>> /\ p <= q
      <3>1. PICK p \in Nat, q \in Pos : PessimisticStart = <<p, q>>
        BY <1>1
      <3>2. 1 * q >= p * 1
        BY <1>1, <3>1 DEF NotBelow
      <3> QED
        BY <3>1, <3>2 DEF Pos
    <2>2. gross * p \in Nat /\ gross * p <= gross * q /\ gross * q = q * gross
      BY <2>1, TimesKeepsOrder DEF Pos
    <2>3. (gross * p) \div q \in Int /\ 0 <= (gross * p) \div q
      BY <2>2, Quotient, QuotientIsMost DEF Pos
    <2>4. (gross * p) \div q < gross + 1
      <3> DEFINE a == gross * p
                 b == q * gross
      <3>1. q * (gross + 1) = b + q /\ b \in Int /\ a \in Int /\ a <= b /\ q > 0
        BY <2>2 DEF Pos
      <3>2. gross + 1 \in Int /\ q \in Nat \ {0}
        BY DEF Pos
      <3> HIDE DEF a, b
      <3>3. a < q * (gross + 1)
        BY <3>1, <3>2
      <3>4. a \div q < gross + 1
        BY <3>1, <3>2, <3>3, QuotientIsLess
      <3> QED
        BY <3>4 DEF a
    <2> QED
      BY <2>1, <2>3, <2>4
  <1>11. /\ PlanStart(gross, 1) \in Nat /\ PlanStart(gross, 1) <= gross
         /\ PlanStart(gross, 2) = gross /\ PlanStart(gross, 3) = gross
    BY <1>10 DEF PlanStart
  <1>12. i \in {1, 2, 3} /\ j \in {1, 2, 3} /\ i <= j
    OBVIOUS
  <1> QED
    BY <1>3, <1>6, <1>8, <1>9, <1>11, <1>12

\* More put in, or a bolder scenario, is never later.
LEMMA ProjectsInOrder ==
    ASSUME NEW gross \in Nat, NEW value \in Nat, NEW measured \in Growths, NEW target \in Nat,
           NEW less \in Nat, NEW more \in Nat, less <= more, NEW i \in 1..3, NEW j \in 1..3, i <= j
    PROVE  Sooner(Project(gross, value, measured, more, target)[j], Project(gross, value, measured, less, target)[i])
  <1>1. CASE gross = 0 \/ value = 0
    BY <1>1, ProjectIs DEF Sooner
  <1>2. CASE ~ (gross = 0 \/ value = 0)
    <2>1. /\ Project(gross, value, measured, more, target)[j]
                = Years(PlanStart(gross, j), value, PlanGrowth(measured, j), more, target)
          /\ Project(gross, value, measured, less, target)[i]
                = Years(PlanStart(gross, i), value, PlanGrowth(measured, i), less, target)
      BY <1>2, ProjectIs
    <2>2. value \in Pos
      BY <1>2 DEF Pos
    <2>3. /\ PlanStart(gross, i) \in Nat /\ PlanStart(gross, j) \in Nat
          /\ PlanStart(gross, i) <= PlanStart(gross, j)
          /\ PlanGrowth(measured, i) \in Growths /\ PlanGrowth(measured, j) \in Growths
          /\ NotBelow(PlanGrowth(measured, j), PlanGrowth(measured, i))
      BY PlansInOrder
    <2> QED
      BY <2>1, <2>2, <2>3, YearsSooner
  <1> QED
    BY <1>1, <1>2

\* What is asked about an income.
IncomeAsked ==
    asked.about = "income" =>
        /\ IsHolding(asked.holding) /\ asked.value \in Nat
        /\ asked.target \in Nat /\ asked.target > 0

LEMMA FuturesAreInOrder ==
    ASSUME IncomeAsked
    PROVE  MoreNeverTakesLonger
  <1> SUFFICES ASSUME asked.about = "income"
               PROVE  MoreNeverTakesLonger
    BY DEF MoreNeverTakesLonger
  <1> DEFINE gross == AnnualGross(Entitlements(asked.holding, asked.asOf))
             growth == MeasuredGrowth(asked.holding, asked.asOf)
             years == [contribution \in Contributions |->
                 Project(gross, asked.value, growth, contribution, asked.target)]
             progress == GoalProgress(asked.target, 0, gross)
  <1>1. /\ IsHolding(asked.holding) /\ asked.value \in Nat
        /\ asked.target \in Nat /\ asked.target > 0
    BY DEF IncomeAsked
  <1>2. gross \in Nat /\ growth \in Growths
    BY <1>1, EntitledTyped, GrowthTyped
  <1>3. Contributions \subseteq Nat
    BY FiguresConstants
  <1>4. \A c \in Contributions : years[c] = Project(gross, asked.value, growth, c, asked.target)
    OBVIOUS
  <1>5. PICK value \in Nat, target \in Nat : value = asked.value /\ target = asked.target /\ target > 0
    BY <1>1
  <1>6. progress.runRate = <<PerMonth(TakeHome(gross)), target>>
    BY <1>5 DEF GoalProgress
  <1>7. MoreNeverTakesLonger <=>
            /\ \A less, more \in Contributions, i, j \in 1..3 :
                    (less <= more /\ i <= j) => Sooner(years[more][j], years[less][i])
            /\ asked.value > 0 => \A contribution \in Contributions :
                    (years[contribution][2] = {0}) = NotBelow(progress.runRate, <<1, 1>>)
    BY DEF MoreNeverTakesLonger
  <1> HIDE DEF gross, growth, years, progress
  <1>8. ASSUME NEW less \in Contributions, NEW more \in Contributions, NEW i \in 1..3, NEW j \in 1..3,
               less <= more, i <= j
        PROVE  Sooner(years[more][j], years[less][i])
    <2>1. less \in Nat /\ more \in Nat
      BY <1>3
    <2>2. /\ years[more] = Project(gross, value, growth, more, target)
          /\ years[less] = Project(gross, value, growth, less, target)
      BY <1>4, <1>5
    <2> QED
      BY <1>2, <1>8, <2>1, <2>2, ProjectsInOrder
  <1>9. ASSUME asked.value > 0, NEW contribution \in Contributions
        PROVE  years[contribution][2] = {0} <=> NotBelow(progress.runRate, <<1, 1>>)
    <2>1. TakeHome(gross) \in Nat /\ PerMonth(TakeHome(gross)) \in Nat
      BY <1>2, TakeHomeRises, PerMonthRises
    <2>2. NotBelow(progress.runRate, <<1, 1>>) <=> Met(gross, target)
      BY <1>6, <2>1 DEF NotBelow, Met
    <2>3. CASE gross = 0
      <3>1. years[contribution][2] = {}
        BY <1>4, <2>3, ProjectIs
      <3>2. ~ Met(gross, target)
        BY <1>5, <2>3, MetRises
      <3> QED
        BY <2>2, <3>1, <3>2
    <2>4. CASE gross # 0
      <3>1. years[contribution][2] = Years(PlanStart(gross, 2), value, PlanGrowth(growth, 2), contribution, target)
        BY <1>4, <1>5, <1>9, <2>4, ProjectIs
      <3>2. PlanStart(gross, 2) = gross /\ PlanGrowth(growth, 2) \in Growths /\ value \in Pos
        BY <1>2, <1>5, <1>9, PlansInOrder DEF PlanStart, Pos
      <3>3. years[contribution][2] = {0} <=> Met(gross, target)
        BY <1>2, <1>3, <3>1, <3>2, YearsFromTheStart
      <3> QED
        BY <2>2, <3>3
    <2> QED
      BY <2>3, <2>4
  <1>10. ASSUME asked.value > 0, NEW contribution \in Contributions
         PROVE  (years[contribution][2] = {0}) = NotBelow(progress.runRate, <<1, 1>>)
    <2>1. NotBelow(progress.runRate, <<1, 1>>) \in BOOLEAN
      BY DEF NotBelow
    <2>2. years[contribution][2] = {0} <=> NotBelow(progress.runRate, <<1, 1>>)
      BY <1>9, <1>10
    <2> QED
      BY <2>1, <2>2
  <1> QED
    BY <1>7, <1>8, <1>10

\* What may be asked about an income.
Today(events, since) == Max(DOMAIN events.dividends \cup DOMAIN events.splits) + IncomeLag + since
PaidOn(bought, events, day) ==
    events.dividends[day - IncomeLag] * SharesOn(bought, events.splits, day - IncomeLag)
ReportsOf(bought, events, lastDay) ==
    [day \in 1..lastDay |->
        [day |-> day,
         paid |-> IF (day - IncomeLag) \in DOMAIN events.dividends
                  THEN <<PaidOn(bought, events, day)>> ELSE <<>>,
         tax |-> IF (day - IncomeLag) \in DOMAIN events.dividends
                 THEN Tax(PaidOn(bought, events, day)) ELSE 0]]
HeldOn(bought, events, lastDay) ==
    [shares |-> SharesOn(bought, events.splits, lastDay),
     dividends |-> events.dividends, splits |-> events.splits]
Question(bought, events, value, since, target) ==
    [about |-> "income", bought |-> bought, value |-> value, target |-> target,
     asOf |-> Today(events, since) - IncomeLag,
     holding |-> HeldOn(bought, events, Today(events, since)),
     reports |-> ReportsOf(bought, events, Today(events, since))]
AskedAbout ==
    asked.about = "income" =>
        \E bought \in Bought, events \in Events, value \in Values, since \in 0..YearDays, target \in Targets :
            asked = Question(bought, events, value, since, target)

LEMMA AskedIs == FSpec => []AskedAbout
  <1>1. FInit => AskedAbout
    BY DEF FInit, None, AskedAbout
  <1>2. AskedAbout /\ [FNext]_asked => AskedAbout'
    <2> SUFFICES ASSUME AskedAbout, [FNext]_asked PROVE AskedAbout'
      OBVIOUS
    <2>1. ASSUME NEW tiers \in TickTables, NEW band \in BandTables, AskForABand(tiers, band)
          PROVE  AskedAbout'
      BY <2>1 DEF AskForABand, AskedAbout
    <2>2. ASSUME NEW fees \in FeeBooks, NEW preset \in Presets, AskForCosts(fees, preset)
          PROVE  AskedAbout'
      BY <2>2 DEF AskForCosts, AskedAbout
    <2>3. ASSUME NEW bought \in Bought, NEW events \in Events, NEW value \in Values,
                 AskForIncome(bought, events, value)
          PROVE  AskedAbout'
      <3>1. \E since \in 0..YearDays, target \in Targets :
                asked' = Question(bought, events, value, since, target)
        BY <2>3 DEF AskForIncome, Question, Today, PaidOn, ReportsOf, HeldOn
      <3> QED
        BY <3>1 DEF AskedAbout
    <2>4. CASE UNCHANGED asked
      BY <2>4 DEF AskedAbout
    <2> QED
      BY <2>1, <2>2, <2>3, <2>4 DEF FNext
  <1> QED
    BY <1>1, <1>2, PTL DEF FSpec

\* What has happened to the shares since they were bought.
AreEvents(events) ==
    /\ IsHistory(events.splits)
    /\ IsFiniteSet(DOMAIN events.dividends) /\ DOMAIN events.dividends \subseteq Nat
    /\ \A day \in DOMAIN events.dividends : events.dividends[day] \in Nat

LEMMA EventsTyped ==
    ASSUME NEW events \in Events, NEW since \in 0..YearDays
    PROVE  /\ AreEvents(events) /\ Today(events, since) \in Nat /\ IncomeLag \in Nat /\ IncomeLag >= 1
           /\ \A day \in DOMAIN events.dividends \cup DOMAIN events.splits :
                    day <= Today(events, since) - IncomeLag
  <1> DEFINE E == DOMAIN events.dividends \cup DOMAIN events.splits
  <1>1. /\ \A known \in {events.dividends, events.splits} :
                IsFiniteSet(DOMAIN known) /\ DOMAIN known \subseteq Nat
        /\ E # {}
        /\ \A day \in DOMAIN events.dividends : events.dividends[day] \in Nat
        /\ \A day \in DOMAIN events.splits : events.splits[day] \in Ratios
    BY FiguresConstants DEF Ratios, Pos
  <1>2. AreEvents(events)
    BY <1>1 DEF AreEvents, IsHistory
  <1>3. IsFiniteSet(E) /\ E \in SUBSET Nat
    BY <1>1, FS_Union
  <1>4. Max(E) \in Nat /\ \A day \in E : day <= Max(E)
    BY <1>1, <1>3, MaxIsGreatest
  <1>5. YearDays \in Nat /\ IncomeLag \in Nat /\ IncomeLag >= 1
    BY ReportsConstants, IncomeConstants
  <1>6. Today(events, since) = Max(E) + IncomeLag + since
    BY DEF Today
  <1> HIDE DEF E
  <1>7. Today(events, since) \in Nat /\ \A day \in E : day <= Today(events, since) - IncomeLag
    BY <1>3, <1>4, <1>5, <1>6
  <1> QED
    BY <1>2, <1>5, <1>7 DEF E

\* The shares of any day are a number.
LEMMA SharesTyped ==
    ASSUME NEW bought \in Nat, NEW events, AreEvents(events), NEW day \in Nat
    PROVE  SharesOn(bought, events.splits, day) \in Nat
  BY SharesOfNextDay DEF AreEvents

LEMMA AskedTyped ==
    ASSUME AskedAbout
    PROVE  IncomeAsked
  <1> SUFFICES ASSUME asked.about = "income"
               PROVE  IncomeAsked
    BY DEF IncomeAsked
  <1>1. PICK bought \in Bought, events \in Events, value \in Values, since \in 0..YearDays, target \in Targets :
            asked = Question(bought, events, value, since, target)
    BY DEF AskedAbout
  <1>2. AreEvents(events) /\ Today(events, since) \in Nat
    BY EventsTyped
  <1>3. bought \in Nat /\ value \in Nat /\ target \in Nat /\ target > 0
    BY FiguresConstants
  <1>4. SharesOn(bought, events.splits, Today(events, since)) \in Nat
    BY <1>2, <1>3, SharesTyped
  <1>5. /\ asked.value = value /\ asked.target = target
        /\ asked.holding.shares = SharesOn(bought, events.splits, Today(events, since))
        /\ asked.holding.dividends = events.dividends /\ asked.holding.splits = events.splits
    BY <1>1 DEF Question, HeldOn
  <1> QED
    BY <1>2, <1>3, <1>4, <1>5 DEF IncomeAsked, IsHolding, AreEvents

\* Saving more never puts the goal off, and a scenario is never slower than a more cautious one,
\* whatever the monthly roundings come to, for every setting of the scenarios, the tax and the years
\* projected; the goal tracker and the projection agree whether it is met (project, goal_progress).
THEOREM MoreIsNoLater == FSpec => []MoreNeverTakesLonger
  <1>1. AskedAbout => MoreNeverTakesLonger
    BY AskedTyped, FuturesAreInOrder
  <1> QED
    BY <1>1, AskedIs, PTL

-----------------------------------------------------------------------------
(* The shares held now are those of a day before, through the splits since.*)

NothingLost(bought, splits) ==
    \A s \in DOMAIN splits : (SharesOn(bought, splits, s) * splits[s][1]) % splits[s][2] = 0
\* What a ratio makes of some shares: no more than it gives, and all if nothing is lost.
IsMade(now, before, ratio, exactly) ==
    now * ratio[2] <= before * ratio[1] /\ (exactly => now * ratio[2] = before * ratio[1])
Since(splits, day, end) == {s \in DOMAIN splits : day <= s /\ s < end}

\* One split: no more shares than it gives, and all of them if it leaves no part of a share over.
LEMMA ThroughASplit ==
    ASSUME NEW was \in Nat, NEW x \in Pos, NEW y \in Pos, NEW first \in Nat, NEW p \in Pos, NEW q \in Pos
    PROVE  LET now == (was * x) \div y
           IN  /\ was * q <= first * p => now * (y * q) <= first * (x * p)
               /\ was * q = first * p /\ (was * x) % y = 0 => now * (y * q) = first * (x * p)
  <1> DEFINE a == was * x
             now == a \div y
  <1>1. a \in Int /\ y \in Nat \ {0}
    BY DEF Pos
  <1>2. now \in Int /\ y * now <= a /\ a % y \in 0..y - 1 /\ a = y * now + (a % y)
    BY <1>1, Quotient, Remainder
  <1>3. ASSUME a % y = 0 PROVE a = y * now
    <2> DEFINE z == y * now
    <2>1. z \in Int /\ a = z + (a % y)
      BY <1>2 DEF Pos
    <2> HIDE DEF z, now, a
    <2>2. a = z
      BY <1>3, <2>1
    <2> QED
      BY <2>2 DEF z
  <1>4. now \in Int /\ y * now <= a
    BY <1>2
  <1> HIDE DEF now
  <1> DEFINE k == now * (y * q)
             l == q * a
             m == first * (x * p)
  <1>5. l = x * (was * q) /\ m = x * (first * p)
    BY DEF Pos
  <1>6. k = q * (y * now)
    BY <1>4 DEF Pos
  <1>7. k \in Int /\ l \in Int /\ m \in Int
    BY <1>4 DEF Pos
  <1>8. ASSUME was * q <= first * p PROVE k <= m
    <2>1. y * now \in Int /\ was * q \in Int /\ first * p \in Int /\ x \in Nat /\ q \in Nat
      BY <1>4 DEF Pos
    <2>2. q * (y * now) <= q * a /\ x * (was * q) <= x * (first * p)
      BY <1>1, <1>4, <1>8, <2>1, TimesKeepsOrder
    <2>3. k <= l /\ l <= m
      BY <1>5, <1>6, <2>2
    <2> HIDE DEF k, l, m
    <2> QED
      BY <1>7, <2>3
  <1>9. ASSUME was * q = first * p, a % y = 0 PROVE k = m
    <2>1. k = l
      BY <1>3, <1>6, <1>9
    <2>2. l = m
      BY <1>5, <1>9
    <2> QED
      BY <2>1, <2>2
  <1> QED
    BY <1>8, <1>9 DEF now

\* The shares after some days, set against the shares before and the splits in between.
LEMMA HeldThrough ==
    ASSUME NEW bought \in Nat, NEW splits, IsHistory(splits), NEW day \in Nat, NEW end \in Nat, day <= end
    PROVE  LET ratio == ProductOf(splits, Since(splits, day, end))
               before == SharesOn(bought, splits, day)
               now == SharesOn(bought, splits, end)
           IN  /\ ratio \in Ratios /\ before \in Nat /\ now \in Nat
               /\ IsMade(now, before, ratio, NothingLost(bought, splits))
  <1> DEFINE HeldAt(k) == SharesOn(bought, splits, k)
             R(k) == ProductOf(splits, Since(splits, day, k))
             P == {n \in Nat : /\ HeldAt(day + n) * R(day + n)[2] <= HeldAt(day) * R(day + n)[1]
                               /\ NothingLost(bought, splits) =>
                                    HeldAt(day + n) * R(day + n)[2] = HeldAt(day) * R(day + n)[1]}
  <1>1. \A k \in Nat : /\ HeldAt(k) \in Nat
                       /\ HeldAt(k + 1) = IF k \in DOMAIN splits
                                        THEN (HeldAt(k) * splits[k][1]) \div splits[k][2] ELSE HeldAt(k)
    BY SharesOfNextDay
  <1>2. \A k \in Nat : /\ IsFiniteSet(Since(splits, day, k))
                       /\ \A s \in Since(splits, day, k) : splits[s] \in Ratios
    BY FS_Subset DEF Since, IsHistory
  <1>3. \A k \in Nat : R(k) \in Ratios
    BY <1>2, ProductRemove
  <1>4. R(day) = <<1, 1>>
    <2>1. Since(splits, day, day) = {}
      BY DEF Since, IsHistory
    <2> QED
      BY <1>2, <2>1, ProductRemove
  <1>5. ASSUME NEW k \in Nat, day <= k, k \in DOMAIN splits PROVE R(k + 1) = Times(splits[k], R(k))
    <2>1. k \in Since(splits, day, k + 1) /\ Since(splits, day, k + 1) \ {k} = Since(splits, day, k)
      BY <1>5 DEF Since, IsHistory
    <2>2. k + 1 \in Nat
      OBVIOUS
    <2> QED
      BY <1>2, <2>1, <2>2, ProductRemove
  <1>6. ASSUME NEW k \in Nat, k \notin DOMAIN splits PROVE R(k + 1) = R(k)
    <2>1. Since(splits, day, k + 1) = Since(splits, day, k)
      BY <1>6 DEF Since, IsHistory
    <2> QED
      BY <2>1
  <1>7. \A s \in DOMAIN splits : splits[s] \in Ratios
    BY DEF IsHistory
  <1>8. \A s \in DOMAIN splits : NothingLost(bought, splits) => (HeldAt(s) * splits[s][1]) % splits[s][2] = 0
    BY DEF NothingLost
  <1> HIDE DEF HeldAt, R
  <1>9. 0 \in P
    BY <1>1, <1>4
  <1>10. ASSUME NEW n \in Nat, n \in P PROVE n + 1 \in P
    <2>1. PICK k \in Nat : k = day + n
      OBVIOUS
    <2>2. day + (n + 1) = k + 1 /\ day <= k
      BY <2>1
    <2>3. /\ HeldAt(k) * R(k)[2] <= HeldAt(day) * R(k)[1]
          /\ NothingLost(bought, splits) => HeldAt(k) * R(k)[2] = HeldAt(day) * R(k)[1]
      BY <1>10, <2>1
    <2>4. CASE k \in DOMAIN splits
      <3>1. PICK x \in Pos, y \in Pos : splits[k] = <<x, y>>
        BY <1>7, <2>4 DEF Ratios
      <3>2. PICK p \in Pos, q \in Pos : R(k) = <<p, q>>
        BY <1>3 DEF Ratios
      <3>3. R(k + 1) = <<x * p, y * q>>
        BY <1>5, <2>2, <2>4, <3>1, <3>2 DEF Times
      <3>4. HeldAt(k + 1) = (HeldAt(k) * x) \div y
        BY <1>1, <2>4, <3>1
      <3>5. NothingLost(bought, splits) => (HeldAt(k) * x) % y = 0
        BY <1>8, <2>4, <3>1
      <3>6. /\ HeldAt(k) * q <= HeldAt(day) * p
            /\ NothingLost(bought, splits) => HeldAt(k) * q = HeldAt(day) * p
        BY <2>3, <3>2
      <3>7. HeldAt(k) \in Nat /\ HeldAt(day) \in Nat
        BY <1>1
      <3>8. /\ HeldAt(k + 1) * (y * q) <= HeldAt(day) * (x * p)
            /\ NothingLost(bought, splits) => HeldAt(k + 1) * (y * q) = HeldAt(day) * (x * p)
        BY <3>4, <3>5, <3>6, <3>7, ThroughASplit
      <3>9. R(k + 1)[1] = x * p /\ R(k + 1)[2] = y * q
        BY <3>3
      <3> QED
        BY <2>2, <3>8, <3>9
    <2>5. CASE k \notin DOMAIN splits
      <3>1. R(k + 1) = R(k) /\ HeldAt(k + 1) = HeldAt(k)
        BY <1>1, <1>6, <2>5
      <3> QED
        BY <2>2, <2>3, <3>1
    <2> QED
      BY <2>4, <2>5
  <1> HIDE DEF P
  <1>11. Nat \subseteq P
    BY <1>9, <1>10, Naturals
  <1>12. PICK n \in Nat : end = day + n
    <2>1. end - day \in Nat /\ end = day + (end - day)
      OBVIOUS
    <2> QED
      BY <2>1
  <1>13. /\ HeldAt(end) * R(end)[2] <= HeldAt(day) * R(end)[1]
         /\ NothingLost(bought, splits) => HeldAt(end) * R(end)[2] = HeldAt(day) * R(end)[1]
    BY <1>11, <1>12 DEF P
  <1>14. R(end) \in Ratios /\ HeldAt(day) \in Nat /\ HeldAt(end) \in Nat
    BY <1>1, <1>3
  <1> QED
    BY <1>13, <1>14 DEF HeldAt, R, IsMade

Due(bought, events, day) == events.dividends[day] * SharesOn(bought, events.splits, day)

LEMMA DueTyped ==
    ASSUME NEW bought \in Nat, NEW events, AreEvents(events), NEW day \in DOMAIN events.dividends
    PROVE  Due(bought, events, day) \in Nat
  <1>1. PICK d \in Nat, h \in Nat : d = events.dividends[day] /\ h = SharesOn(bought, events.splits, day)
    BY SharesTyped DEF AreEvents
  <1>2. d * h \in Nat
    OBVIOUS
  <1> QED
    BY <1>1, <1>2 DEF Due

\* A dividend of the last year on the shares held now: no more than was due on those held then,
\* and as much if no part of a share was left over since.
LEMMA RestatedIs ==
    ASSUME NEW bought \in Nat, NEW events, AreEvents(events), NEW lastDay \in Nat, NEW asOf \in Int,
           asOf < lastDay, \A day \in DOMAIN events.dividends \cup DOMAIN events.splits : day <= asOf,
           NEW day \in DOMAIN events.dividends
    PROVE  LET holding == HeldOn(bought, events, lastDay)
               share == RestatedShare(holding, day, asOf)
               restated == RestatedGross(holding, day, asOf)
               due == Due(bought, events, day)
           IN  /\ restated \in Nat /\ restated <= due
               /\ NothingLost(bought, events.splits) =>
                    restated = due /\ share[1] * holding.shares = due * share[2]
  <1> DEFINE holding == HeldOn(bought, events, lastDay)
             ratio == ProductOf(events.splits, Since(events.splits, day, lastDay))
             before == SharesOn(bought, events.splits, day)
             after == SharesOn(bought, events.splits, lastDay)
  <1>1. SplitRatio(holding, day, asOf) = ratio
    <2>1. {s \in DOMAIN events.splits : day <= s /\ s <= asOf} = Since(events.splits, day, lastDay)
      <3>1. \A s \in DOMAIN events.splits : s <= asOf /\ s \in Nat
        BY DEF AreEvents, IsHistory
      <3>2. \A s \in DOMAIN events.splits : s <= asOf /\ s < lastDay
        BY <3>1
      <3> QED
        BY <3>2 DEF Since
    <2> QED
      BY <2>1 DEF SplitRatio, HeldOn
  <1>2. IsHistory(events.splits) /\ day \in Nat /\ day <= lastDay
    BY DEF AreEvents
  <1>3. /\ ratio \in Ratios /\ before \in Nat /\ after \in Nat
        /\ IsMade(after, before, ratio, NothingLost(bought, events.splits))
    BY <1>2, HeldThrough
  <1> HIDE DEF ratio
  <1>4. PICK p \in Pos, q \in Pos : SplitRatio(holding, day, asOf) = <<p, q>>
    BY <1>1, <1>3 DEF Ratios
  <1>5. PICK d \in Nat, h \in Nat, now \in Nat :
            d = events.dividends[day] /\ h = before /\ now = after
    BY <1>3 DEF AreEvents
  <1>6. now * q <= h * p /\ (NothingLost(bought, events.splits) => now * q = h * p)
    BY <1>1, <1>3, <1>4, <1>5 DEF IsMade
  <1>7. Due(bought, events, day) = d * h
    BY <1>5 DEF Due
  <1>8. holding.dividends[day] = d /\ holding.shares = now
    BY <1>5 DEF HeldOn
  <1> HIDE DEF holding
  <1>9. /\ RestatedGross(holding, day, asOf) = (d * now * q) \div p
        /\ RestatedShare(holding, day, asOf) = <<d * q, p>>
    BY <1>4, <1>8 DEF RestatedGross, RestatedShare
  <1> DEFINE a == d * now * q
             x == d * h
  <1>10. a \in Nat /\ x \in Nat /\ p \in Nat \ {0} /\ p * x = d * (h * p) /\ a = d * (now * q)
    BY DEF Pos
  <1>11. a <= p * x
    <2>1. now * q \in Int /\ h * p \in Int
      BY DEF Pos
    <2>2. d * (now * q) <= d * (h * p)
      BY <1>6, <2>1, TimesKeepsOrder
    <2> QED
      BY <1>10, <2>2
  <1>12. NothingLost(bought, events.splits) => a = p * x /\ (d * q) * now = x * p
    <2>1. (d * q) * now = d * (now * q) /\ x * p = d * (h * p)
      BY DEF Pos
    <2> QED
      BY <1>6, <1>10, <2>1
  <1> HIDE DEF a, x
  <1>13. a \div p \in Int /\ 0 <= a \div p /\ a \div p <= x
    <2>1. a \div p \in Int /\ 0 <= a \div p
      BY <1>10, Quotient, QuotientIsMost
    <2>2. p * (x + 1) = p * x + p /\ p * x \in Int
      BY <1>10
    <2>3. PICK y \in Int : y = x + 1 /\ a < p * y
      BY <1>10, <1>11, <2>2
    <2>4. a \div p < y
      <3>1. a \in Int /\ p \in Nat \ {0}
        BY <1>10
      <3> QED
        BY <2>3, <3>1, QuotientIsLess
    <2> QED
      BY <1>10, <2>1, <2>3, <2>4
  <1>14. NothingLost(bought, events.splits) => a \div p = x
    <2> SUFFICES ASSUME NothingLost(bought, events.splits) PROVE a \div p = x
      OBVIOUS
    <2>1. p * x <= a
      BY <1>10, <1>12
    <2>2. x <= a \div p
      BY <1>10, <2>1, QuotientIsMost
    <2> QED
      BY <1>10, <1>13, <2>2
  <1>15. a \div p \in Nat
    BY <1>13
  <1> QED
    BY <1>7, <1>8, <1>9, <1>12, <1>13, <1>14, <1>15 DEF holding, a, x

-----------------------------------------------------------------------------
(* What the days of a year reported.                                       *)

\* What adds nothing may be left out.
LEMMA SumOfSome ==
    ASSUME NEW S, IsFiniteSet(S), NEW U \in SUBSET S, NEW f,
           \A x \in S : f[x] \in Int /\ (x \notin U => f[x] = 0)
    PROVE  SumFunctionOnSet(f, S) = SumFunctionOnSet(f, U)
  <1>1. SumFunctionOnSet(f, S) = SumFunctionOnSet(f, U) + SumFunctionOnSet(f, S \ U)
    BY SumSplit
  <1>2. SumFunctionOnSet(f, S \ U) = 0
    BY SumZero, FS_Subset
  <1>3. SumFunctionOnSet(f, U) \in Int
    BY SumInt, FS_Subset
  <1> QED
    BY <1>1, <1>2, <1>3

LEMMA SumOfOne ==
    ASSUME NEW f, NEW x, f[x] \in Int
    PROVE  SumFunctionOnSet(f, {x}) = f[x]
  <1>1. IsFiniteSet({x}) /\ x \in {x} /\ {x} \ {x} = {}
    BY FS_Singleton
  <1>2. SumFunctionOnSet(f, {x}) = f[x] + SumFunctionOnSet(f, {x} \ {x})
    BY <1>1, SumRemove
  <1> QED
    BY <1>1, <1>2, SumEmpty

\* A sum of amounts, none of them negative, is more than nothing if one of them is.
LEMMA SumIsMore ==
    ASSUME NEW f, NEW S, IsFiniteSet(S), \A x \in S : f[x] \in Nat
    PROVE  SumFunctionOnSet(f, S) > 0 <=> \E x \in S : f[x] > 0
  <1>1. SumFunctionOnSet(f, S) \in Nat
    BY SumNat
  <1>2. ASSUME NEW x \in S, f[x] > 0 PROVE SumFunctionOnSet(f, S) > 0
    <2>1. SumFunctionOnSet(f, S) = f[x] + SumFunctionOnSet(f, S \ {x})
      BY SumRemove
    <2>2. SumFunctionOnSet(f, S \ {x}) \in Nat
      BY SumNat, FS_Subset
    <2> QED
      BY <1>2, <2>1, <2>2
  <1>3. ASSUME ~ \E x \in S : f[x] > 0 PROVE SumFunctionOnSet(f, S) = 0
    <2>1. \A x \in S : f[x] = 0
      BY <1>3
    <2> QED
      BY <2>1, SumZero
  <1> QED
    BY <1>1, <1>2, <1>3

EarningDays(events, end) == {day \in DOMAIN events.dividends : YearWindowStart(end) <= day /\ day <= end}
\* What was due in a year, and its take-home.
DueIn(bought, events, end) ==
    SumFunctionOnSet([day \in EarningDays(events, end) |-> Due(bought, events, day)], EarningDays(events, end))
HomeIn(bought, events, end) ==
    SumFunctionOnSet([day \in EarningDays(events, end) |-> TakeHome(Due(bought, events, day))],
                     EarningDays(events, end))

AreReports(reports, n, bought, events) ==
    /\ DOMAIN reports = 1..n /\ Len(reports) = n
    /\ \A i \in 1..n : reports[i] = ReportsOf(bought, events, n)[i]

\* What a day with one dividend, or none, reported.
LEMMA DayOf ==
    ASSUME NEW bought \in Nat, NEW events, AreEvents(events), NEW n \in Nat, NEW i \in 1..n
    PROVE  LET figures == DayFigures(ReportsOf(bought, events, n)[i], FullTax)
               due == Due(bought, events, i - IncomeLag)
           IN  /\ ReportsOf(bought, events, n)[i].day = i
               /\ (i - IncomeLag) \in DOMAIN events.dividends =>
                    due \in Nat /\ figures.gross = due /\ figures.takeHome = TakeHome(due)
               /\ (i - IncomeLag) \notin DOMAIN events.dividends =>
                    figures.gross = 0 /\ figures.takeHome = 0
  <1> DEFINE report == ReportsOf(bought, events, n)[i]
             net(paid) == [k \in DOMAIN paid |-> paid[k] - CeilDiv(paid[k] * FullTax[1], FullTax[2])]
  <1>1. /\ report.day = i
        /\ report.paid = IF (i - IncomeLag) \in DOMAIN events.dividends
                         THEN <<PaidOn(bought, events, i)>> ELSE <<>>
    BY DEF ReportsOf
  <1> HIDE DEF report
  <1>2. DayFigures(report, FullTax).gross = SumFunctionOnSet(report.paid, DOMAIN report.paid)
    BY DEF DayFigures, Gross, SumFunction
  <1>3. DayFigures(report, FullTax).takeHome = SumFunctionOnSet(net(report.paid), DOMAIN report.paid)
    BY DEF DayFigures, SumFunction
  <1>4. CASE (i - IncomeLag) \in DOMAIN events.dividends
    <2>1. PICK due \in Nat : due = Due(bought, events, i - IncomeLag)
      BY <1>4, DueTyped
    <2>2. report.paid = <<due>>
      BY <1>1, <1>4, <2>1 DEF PaidOn, Due
    <2>3. DOMAIN report.paid = {1} /\ report.paid[1] = due
      BY <2>2
    <2>4. net(report.paid)[1] = TakeHome(due)
      BY <2>3 DEF TakeHome, Tax, FullTax
    <2>5. TakeHome(due) \in Nat
      BY TakeHomeRises
    <2> HIDE DEF net
    <2>6. /\ SumFunctionOnSet(report.paid, {1}) = due
          /\ SumFunctionOnSet(net(report.paid), {1}) = TakeHome(due)
      BY <2>3, <2>4, <2>5, SumOfOne
    <2> QED
      BY <1>1, <1>2, <1>3, <1>4, <2>1, <2>3, <2>6 DEF report
  <1>5. CASE (i - IncomeLag) \notin DOMAIN events.dividends
    <2>1. report.paid = <<>> /\ DOMAIN report.paid = {}
      BY <1>1, <1>5
    <2> QED
      BY <1>1, <1>2, <1>3, <1>5, <2>1, SumEmpty DEF report
  <1> QED
    BY <1>4, <1>5

\* What a year's days reported is what was due on the days a pay lag earlier.
LEMMA ReceivedIs ==
    ASSUME NEW bought \in Nat, NEW events, AreEvents(events), NEW n \in Nat, n >= 1,
           NEW reports, AreReports(reports, n, bought, events)
    PROVE  LET received == Received(reports, Trailing(reports), FullTax)
           IN  /\ received.gross = DueIn(bought, events, n - IncomeLag)
               /\ received.takeHome = HomeIn(bought, events, n - IncomeLag)
               /\ received.gross \in Nat /\ received.takeHome \in Nat
  <1> DEFINE year == EarningDays(events, n - IncomeLag)
             W == {i \in 1..n : i >= YearWindowStart(n)}
             E == {i \in W : (i - IncomeLag) \in DOMAIN events.dividends}
             Day(i) == DayFigures(reports[i], FullTax)
             figures == [i \in DOMAIN reports |-> Day(i)]
             gross == [i \in DOMAIN figures |-> figures[i]["gross"]]
             home == [i \in DOMAIN figures |-> figures[i]["takeHome"]]
             shift == [day \in year |-> day + IncomeLag]
             dues == [day \in year |-> Due(bought, events, day)]
             homes == [day \in year |-> TakeHome(Due(bought, events, day))]
  <1>1. /\ DOMAIN reports = 1..n /\ Len(reports) = n
        /\ \A i \in 1..n : reports[i] = ReportsOf(bought, events, n)[i]
    BY DEF AreReports
  <1>2. \A i \in 1..n :
            /\ reports[i].day = i
            /\ (i - IncomeLag) \in DOMAIN events.dividends =>
                    /\ Due(bought, events, i - IncomeLag) \in Nat
                    /\ Day(i).gross = Due(bought, events, i - IncomeLag)
                    /\ Day(i).takeHome = TakeHome(Due(bought, events, i - IncomeLag))
            /\ (i - IncomeLag) \notin DOMAIN events.dividends => Day(i).gross = 0 /\ Day(i).takeHome = 0
    <2> TAKE i \in 1..n
    <2>1. reports[i] = ReportsOf(bought, events, n)[i]
      BY <1>1
    <2>2. Day(i) = DayFigures(ReportsOf(bought, events, n)[i], FullTax)
      BY <2>1
    <2> HIDE DEF Day
    <2> QED
      BY <2>1, <2>2, DayOf
  <1>3. Trailing(reports) = W
    <2>1. Last(reports).day = n
      BY <1>1, <1>2 DEF Last
    <2> QED
      BY <1>1, <1>2, <2>1 DEF Trailing
  <1>4. /\ Received(reports, Trailing(reports), FullTax).gross = SumFunctionOnSet(gross, W)
        /\ Received(reports, Trailing(reports), FullTax).takeHome = SumFunctionOnSet(home, W)
    BY <1>3 DEF Received, Together
  <1>5. \A i \in 1..n : gross[i] = Day(i).gross /\ home[i] = Day(i).takeHome
    BY <1>1
  <1>6. \A day \in year : dues[day] = Due(bought, events, day) /\ homes[day] = TakeHome(Due(bought, events, day))
    OBVIOUS
  <1>7. \A day \in year : shift[day] = day + IncomeLag
    OBVIOUS
  <1> HIDE DEF Day, figures, gross, home, shift, dues, homes
  <1>8. IsFiniteSet(W) /\ E \in SUBSET W /\ W \subseteq 1..n
    <2>1. IsFiniteSet(1..n) /\ W \subseteq 1..n /\ E \in SUBSET W
      BY FS_Interval
    <2> HIDE DEF W
    <2> QED
      BY <2>1, FS_Subset
  <1>9. year \subseteq DOMAIN events.dividends /\ IsFiniteSet(year)
    BY FS_Subset DEF EarningDays, AreEvents
  <1>10. /\ \A i \in W \ E : gross[i] = 0 /\ home[i] = 0
         /\ \A i \in E : /\ gross[i] = Due(bought, events, i - IncomeLag)
                         /\ home[i] = TakeHome(Due(bought, events, i - IncomeLag))
                         /\ gross[i] \in Nat /\ home[i] \in Nat
    <2>1. \A i \in W \ E : i \in 1..n /\ (i - IncomeLag) \notin DOMAIN events.dividends
      OBVIOUS
    <2>2. \A i \in E : i \in 1..n /\ (i - IncomeLag) \in DOMAIN events.dividends
      OBVIOUS
    <2> HIDE DEF W, E
    <2> QED
      BY <1>2, <1>5, <2>1, <2>2, TakeHomeRises
  <1>11. \A i \in W : gross[i] \in Nat /\ home[i] \in Nat
    BY <1>10
  <1>12. /\ SumFunctionOnSet(gross, W) = SumFunctionOnSet(gross, E)
         /\ SumFunctionOnSet(home, W) = SumFunctionOnSet(home, E)
    BY <1>8, <1>10, <1>11, SumOfSome
  <1>13. \A day \in year : shift[day] \in E /\ shift[day] - IncomeLag = day
    <2> TAKE day \in year
    <2>1. day \in Nat /\ YearWindowStart(n - IncomeLag) <= day /\ day <= n - IncomeLag
          /\ day \in DOMAIN events.dividends /\ IncomeLag \in Nat /\ IncomeLag >= 1 /\ YearDays \in Nat
      BY IncomeConstants, ReportsConstants DEF EarningDays, AreEvents
    <2>2. YearWindowStart(n - IncomeLag) + IncomeLag = YearWindowStart(n) /\ YearWindowStart(n) \in Int
      BY <2>1 DEF YearWindowStart
    <2>3. YearWindowStart(n - IncomeLag) \in Int
      BY <2>1 DEF YearWindowStart
    <2>4. day + IncomeLag \in 1..n /\ day + IncomeLag >= YearWindowStart(n) /\ (day + IncomeLag) - IncomeLag = day
      BY <2>1, <2>2, <2>3
    <2> QED
      BY <1>7, <2>1, <2>4
  <1>14. \A i \in E : \E day \in year : i = shift[day]
    <2> TAKE i \in E
    <2>1. i \in 1..n /\ i >= YearWindowStart(n) /\ (i - IncomeLag) \in DOMAIN events.dividends
          /\ IncomeLag \in Nat /\ YearDays \in Nat
      BY IncomeConstants, ReportsConstants
    <2>2. YearWindowStart(n - IncomeLag) + IncomeLag = YearWindowStart(n) /\ YearWindowStart(n - IncomeLag) \in Int
      BY <2>1 DEF YearWindowStart
    <2>3. YearWindowStart(n - IncomeLag) <= i - IncomeLag /\ i - IncomeLag <= n - IncomeLag
          /\ (i - IncomeLag) + IncomeLag = i
      BY <2>1, <2>2
    <2>4. i - IncomeLag \in year
      BY <2>1, <2>3 DEF EarningDays
    <2>5. shift[i - IncomeLag] = i
      BY <1>7, <2>3, <2>4
    <2> QED
      BY <2>4, <2>5
  <1> HIDE DEF W, E, year
  <1>15. \A day \in year :
            /\ shift[day] \in E /\ gross[shift[day]] \in Int /\ dues[day] = gross[shift[day]]
            /\ home[shift[day]] \in Int /\ homes[day] = home[shift[day]]
    BY <1>6, <1>10, <1>13
  <1>16. \A x, y \in year : shift[x] = shift[y] => x = y
    BY <1>13
  <1>17. /\ SumFunctionOnSet(dues, year) = SumFunctionOnSet(gross, E)
         /\ SumFunctionOnSet(homes, year) = SumFunctionOnSet(home, E)
    BY <1>9, <1>14, <1>15, <1>16, SumRenamed
  <1>18. SumFunctionOnSet(gross, W) \in Nat /\ SumFunctionOnSet(home, W) \in Nat
    BY <1>8, <1>11, SumNat
  <1> QED
    BY <1>4, <1>12, <1>17, <1>18 DEF dues, homes, year, DueIn, HomeIn

\* The roundings of the tax: a day's at a time, they are at most one each.
LEMMA TaxesRoundUp ==
    ASSUME NEW S, IsFiniteSet(S), NEW f, NEW homes, \A x \in S : f[x] \in Nat /\ homes[x] = TakeHome(f[x])
    PROVE  /\ SumFunctionOnSet(f, S) \in Nat /\ SumFunctionOnSet(homes, S) \in Nat
           /\ TakeHome(SumFunctionOnSet(f, S)) - SumFunctionOnSet(homes, S) \in 0..Cardinality(S)
  <1> DEFINE gross == SumFunctionOnSet(f, S)
             Taxes == [x \in S |-> Tax(f[x])]
             P == {T \in SUBSET S :
                     /\ SumFunctionOnSet(f, T) * TaxPercent <= 100 * SumFunctionOnSet(Taxes, T)
                     /\ 100 * SumFunctionOnSet(Taxes, T)
                            <= SumFunctionOnSet(f, T) * TaxPercent + 100 * Cardinality(T)}
  <1>1. TaxPercent \in Nat
    BY IncomeConstants
  <1>2. ASSUME NEW n \in Nat
        PROVE  /\ Tax(n) \in Int /\ n * TaxPercent <= 100 * Tax(n)
               /\ 100 * Tax(n) < n * TaxPercent + 100
               /\ \A x \in Int : Tax(n) <= x <=> n * TaxPercent <= 100 * x
    <2>1. n * TaxPercent \in Int /\ 100 \in Nat \ {0}
      BY <1>1
    <2> QED
      BY <2>1, CeilIsEnough, CeilIsLeast DEF Tax
  <1>3. \A x \in S : Taxes[x] = Tax(f[x]) /\ Taxes[x] \in Int
    BY <1>2
  <1> HIDE DEF Taxes
  <1>4. {} \in P
    <2>1. 0 * TaxPercent = 0
      BY <1>1
    <2> QED
      BY <2>1, SumEmpty, FS_EmptySet
  <1>5. ASSUME NEW T \in SUBSET S, NEW x \in S \ T, T \in P PROVE T \union {x} \in P
    <2>1. IsFiniteSet(T) /\ Cardinality(T) \in Nat /\ Cardinality(T \union {x}) = Cardinality(T) + 1
      BY <1>5, FS_Subset, FS_CardinalityType, FS_AddElement
    <2>2. /\ SumFunctionOnSet(f, T \union {x}) = f[x] + SumFunctionOnSet(f, T)
          /\ SumFunctionOnSet(Taxes, T \union {x}) = Taxes[x] + SumFunctionOnSet(Taxes, T)
      BY <1>3, <2>1, SumAdd
    <2>3. PICK a \in Int, b \in Int, c \in Nat :
              a = SumFunctionOnSet(f, T) /\ b = SumFunctionOnSet(Taxes, T) /\ c = Cardinality(T)
      BY <1>3, <2>1, SumInt
    <2>4. PICK g \in Nat, t \in Int : g = f[x] /\ t = Taxes[x] /\ g * TaxPercent <= 100 * t /\ 100 * t < g * TaxPercent + 100
      BY <1>2, <1>3
    <2>5. (g + a) * TaxPercent = g * TaxPercent + a * TaxPercent /\ g * TaxPercent \in Int /\ a * TaxPercent \in Int
      BY <1>1
    <2>6. a * TaxPercent <= 100 * b /\ 100 * b <= a * TaxPercent + 100 * c
      BY <1>5, <2>3
    <2>7. /\ (g + a) * TaxPercent <= 100 * (t + b)
          /\ 100 * (t + b) <= (g + a) * TaxPercent + 100 * (c + 1)
      <3> DEFINE k == g * TaxPercent
                 l == a * TaxPercent
      <3>1. k \in Int /\ l \in Int /\ (g + a) * TaxPercent = k + l
        BY <2>5
      <3>2. k <= 100 * t /\ 100 * t < k + 100 /\ l <= 100 * b /\ 100 * b <= l + 100 * c
        BY <2>4, <2>6
      <3> HIDE DEF k, l
      <3> QED
        BY <3>1, <3>2
    <2> QED
      BY <2>1, <2>2, <2>3, <2>4, <2>7
  <1> HIDE DEF P
  <1>6. S \in P
    BY <1>4, <1>5, Subsets
  <1>7. PICK taxes \in Int, size \in Nat : taxes = SumFunctionOnSet(Taxes, S) /\ size = Cardinality(S)
    BY <1>3, SumInt, FS_CardinalityType
  <1>8. gross \in Nat
    BY SumNat
  <1>9. SumFunctionOnSet(homes, S) = gross - taxes
    <2>1. \A x \in S : f[x] \in Int /\ Taxes[x] \in Int /\ homes[x] = f[x] - Taxes[x]
      BY <1>3 DEF TakeHome
    <2> QED
      BY <1>7, <2>1, SumMinus
  <1>10. gross * TaxPercent <= 100 * taxes /\ 100 * taxes <= gross * TaxPercent + 100 * size
    BY <1>6, <1>7 DEF P
  <1> HIDE DEF gross
  <1>11. taxes - Tax(gross) \in 0..size
    <2> DEFINE k == gross * TaxPercent
               t == Tax(gross)
    <2>1. k \in Int /\ t \in Int /\ k <= 100 * t
      BY <1>1, <1>2, <1>8
    <2>2. t <= taxes
      BY <1>2, <1>8, <1>10
    <2>3. 100 * taxes <= k + 100 * size
      BY <1>10
    <2> HIDE DEF k, t
    <2>4. taxes - t \in 0..size
      BY <2>1, <2>2, <2>3
    <2> QED
      BY <2>4 DEF t
  <1>12. SumFunctionOnSet(homes, S) \in Nat
    <2>1. \A x \in S : homes[x] \in Nat
      BY TakeHomeRises
    <2> QED
      BY <2>1, SumNat
  <1>13. TakeHome(gross) - SumFunctionOnSet(homes, S) = taxes - Tax(gross)
    BY <1>2, <1>8, <1>9 DEF TakeHome
  <1> QED
    BY <1>7, <1>8, <1>11, <1>12, <1>13 DEF gross

\* The days an event's dividend is in the year are the days the income report looks at.
LEMMA DaysOfTheYear ==
    ASSUME NEW bought, NEW events, NEW lastDay, NEW end
    PROVE  DividendsOfTheYear(HeldOn(bought, events, lastDay), end) = EarningDays(events, end)
  BY DEF DividendsOfTheYear, HeldOn, EarningDays

LEMMA HoldingTyped ==
    ASSUME NEW bought \in Nat, NEW events, AreEvents(events), NEW lastDay \in Nat
    PROVE  IsHolding(HeldOn(bought, events, lastDay))
  BY SharesTyped DEF IsHolding, HeldOn, AreEvents

\* The run-rate is no more than what was due in the year, and as much if nothing was lost.
LEMMA AnnualIs ==
    ASSUME NEW bought \in Nat, NEW events, AreEvents(events), NEW lastDay \in Nat, NEW asOf \in Int,
           asOf < lastDay, \A day \in DOMAIN events.dividends \cup DOMAIN events.splits : day <= asOf
    PROVE  LET entitled == Entitlements(HeldOn(bought, events, lastDay), asOf)
               homes == [day \in DOMAIN entitled |-> TakeHome(entitled[day])]
           IN  /\ AnnualGross(entitled) <= DueIn(bought, events, asOf)
               /\ NothingLost(bought, events.splits) =>
                    /\ AnnualGross(entitled) = DueIn(bought, events, asOf)
                    /\ SumFunctionOnSet(homes, DOMAIN entitled) = HomeIn(bought, events, asOf)
  <1> DEFINE holding == HeldOn(bought, events, lastDay)
             entitled == Entitlements(holding, asOf)
             E == DOMAIN entitled
             year == EarningDays(events, asOf)
             dues == [day \in year |-> Due(bought, events, day)]
             homes == [day \in E |-> TakeHome(entitled[day])]
             rates == [day \in year |-> RestatedGross(holding, day, asOf)]
             taken == [day \in year |-> TakeHome(RestatedGross(holding, day, asOf))]
             paid == [day \in year |-> TakeHome(Due(bought, events, day))]
  <1>1. year \subseteq DOMAIN events.dividends /\ IsFiniteSet(year)
    BY FS_Subset DEF EarningDays, AreEvents
  <1>2. \A day \in year :
            /\ RestatedGross(holding, day, asOf) \in Nat
            /\ RestatedGross(holding, day, asOf) <= Due(bought, events, day)
            /\ NothingLost(bought, events.splits) =>
                    RestatedGross(holding, day, asOf) = Due(bought, events, day)
    BY <1>1, RestatedIs
  <1>3. \A day \in year : Due(bought, events, day) \in Nat
    BY <1>1, DueTyped
  <1>4. /\ E = {day \in year : RestatedGross(holding, day, asOf) > 0}
        /\ \A day \in E : entitled[day] = RestatedGross(holding, day, asOf)
    BY DaysOfTheYear DEF Entitlements
  <1>5. AnnualGross(entitled) = SumFunctionOnSet(entitled, E)
    BY HoldingTyped, EntitledTyped
  <1>6. /\ \A day \in year : /\ dues[day] = Due(bought, events, day)
                             /\ rates[day] = RestatedGross(holding, day, asOf)
                             /\ taken[day] = TakeHome(RestatedGross(holding, day, asOf))
                             /\ paid[day] = TakeHome(Due(bought, events, day))
        /\ \A day \in E : homes[day] = TakeHome(entitled[day])
    OBVIOUS
  <1> HIDE DEF holding, entitled, E, year, dues, homes, rates, taken, paid
  <1>7. E \in SUBSET year /\ IsFiniteSet(E)
    BY <1>1, <1>4, FS_Subset
  <1>8. \A day \in year :
            /\ rates[day] \in Nat /\ taken[day] \in Nat
            /\ day \notin E => rates[day] = 0 /\ taken[day] = 0
    <2> TAKE day \in year
    <2>1. PICK n \in Nat : n = RestatedGross(holding, day, asOf)
      BY <1>2
    <2>2. TakeHome(n) \in Nat /\ TakeHome(0) = 0
      BY TakeHomeRises
    <2>3. day \notin E => n = 0
      BY <1>4, <2>1
    <2> QED
      BY <1>6, <2>1, <2>2, <2>3
  <1>9. /\ SumFunctionOnSet(rates, year) = SumFunctionOnSet(rates, E)
        /\ SumFunctionOnSet(taken, year) = SumFunctionOnSet(taken, E)
    BY <1>1, <1>7, <1>8, SumOfSome
  <1>10. \A day \in E : /\ entitled[day] \in Int /\ entitled[day] = rates[day]
                        /\ homes[day] \in Int /\ homes[day] = taken[day]
    BY <1>4, <1>6, <1>7, <1>8
  <1>11. /\ SumFunctionOnSet(entitled, E) = SumFunctionOnSet(rates, E)
         /\ SumFunctionOnSet(homes, E) = SumFunctionOnSet(taken, E)
    BY <1>7, <1>10, SumSame
  <1>12. AnnualGross(entitled) = SumFunctionOnSet(rates, year)
    BY <1>5, <1>9, <1>11
  <1>13. SumFunctionOnSet(rates, year) <= SumFunctionOnSet(dues, year)
    <2>1. \A day \in year : rates[day] \in Int /\ dues[day] \in Int /\ rates[day] <= dues[day]
      BY <1>2, <1>3, <1>6
    <2> QED
      BY <1>1, <2>1, SumAtMost
  <1>14. ASSUME NothingLost(bought, events.splits)
         PROVE  /\ SumFunctionOnSet(rates, year) = SumFunctionOnSet(dues, year)
                /\ SumFunctionOnSet(taken, year) = SumFunctionOnSet(paid, year)
    <2>1. \A day \in year : /\ rates[day] \in Int /\ rates[day] = dues[day]
                            /\ taken[day] \in Int /\ taken[day] = paid[day]
      BY <1>2, <1>6, <1>8, <1>14
    <2> QED
      BY <1>1, <2>1, SumSame
  <1>15. NothingLost(bought, events.splits) =>
            /\ AnnualGross(entitled) = SumFunctionOnSet(dues, year)
            /\ SumFunctionOnSet(homes, E) = SumFunctionOnSet(paid, year)
    BY <1>9, <1>11, <1>12, <1>14
  <1>16. AnnualGross(entitled) <= SumFunctionOnSet(dues, year)
    BY <1>12, <1>13
  <1> QED
    BY <1>15, <1>16 DEF dues, homes, paid, year, entitled, E, holding, DueIn, HomeIn

-----------------------------------------------------------------------------
(* The months of the payments.                                             *)

LEMMA SumOfParts ==
    ASSUME NEW S, IsFiniteSet(S), NEW f, \A x \in S : f[x] \in Int, NEW I, IsFiniteSet(I),
           NEW part, \A x \in S : part[x] \in I,
           NEW sums, \A i \in I : sums[i] = SumFunctionOnSet(f, {x \in S : part[x] = i})
    PROVE  SumFunctionOnSet(sums, I) = SumFunctionOnSet(f, S)
  <1> DEFINE Of(T) == {x \in S : part[x] \in T}
             One(i) == {x \in S : part[x] = i}
             P == {T \in SUBSET I : SumFunctionOnSet(sums, T) = SumFunctionOnSet(f, Of(T))}
  <1>1. \A i \in I : sums[i] = SumFunctionOnSet(f, One(i)) /\ sums[i] \in Int
    <2>1. \A i \in I : One(i) \subseteq S /\ IsFiniteSet(One(i))
      BY FS_Subset
    <2> QED
      BY <2>1, SumInt
  <1>2. {} \in P
    <2>1. Of({}) = {}
      OBVIOUS
    <2> HIDE DEF Of
    <2> QED
      BY <2>1, SumEmpty
  <1>3. ASSUME NEW T \in SUBSET I, NEW i \in I \ T, T \in P PROVE T \union {i} \in P
    <2>1. /\ Of(T \union {i}) \in SUBSET S /\ Of(T) \in SUBSET Of(T \union {i})
          /\ Of(T \union {i}) \ Of(T) = One(i)
      BY <1>3
    <2> HIDE DEF Of, One
    <2>2. IsFiniteSet(Of(T \union {i})) /\ \A x \in Of(T \union {i}) : f[x] \in Int
      BY <2>1, FS_Subset
    <2>3. SumFunctionOnSet(f, Of(T \union {i})) = SumFunctionOnSet(f, Of(T)) + SumFunctionOnSet(f, One(i))
      <3> DEFINE all == Of(T \union {i})
                 some == Of(T)
      <3>1. IsFiniteSet(all) /\ some \in SUBSET all /\ all \ some = One(i) /\ \A x \in all : f[x] \in Int
        BY <2>1, <2>2
      <3> HIDE DEF all, some
      <3>2. SumFunctionOnSet(f, all) = SumFunctionOnSet(f, some) + SumFunctionOnSet(f, all \ some)
        BY <3>1, SumSplit
      <3> QED
        BY <3>1, <3>2 DEF all, some
    <2>4. SumFunctionOnSet(sums, T \union {i}) = sums[i] + SumFunctionOnSet(sums, T)
      <3>1. IsFiniteSet(T) /\ i \notin T /\ \A x \in T \union {i} : sums[x] \in Int
        BY <1>1, FS_Subset
      <3> QED
        BY <3>1, SumAdd
    <2>5. sums[i] \in Int /\ SumFunctionOnSet(f, Of(T)) \in Int /\ sums[i] = SumFunctionOnSet(f, One(i))
      BY <1>1, <2>1, <2>2, SumInt, FS_Subset
    <2>6. SumFunctionOnSet(sums, T) = SumFunctionOnSet(f, Of(T))
      BY <1>3
    <2> QED
      BY <2>3, <2>4, <2>5, <2>6
  <1>4. Of(I) = S
    OBVIOUS
  <1> HIDE DEF P, Of
  <1>5. I \in P
    BY <1>2, <1>3, Subsets
  <1> QED
    BY <1>4, <1>5 DEF P

\* By months, what is paid comes to the take-home of each dividend; a month is without any if none
\* of its dividends leaves one.
LEMMA MonthsAddUp ==
    ASSUME NEW entitled, IsFiniteSet(DOMAIN entitled), DOMAIN entitled \subseteq Nat,
           \A day \in DOMAIN entitled : entitled[day] \in Nat
    PROVE  LET months == PaymentCalendar(entitled)
               homes == [day \in DOMAIN entitled |-> TakeHome(entitled[day])]
           IN  /\ SumFunction(months) = SumFunctionOnSet(homes, DOMAIN entitled)
               /\ {month \in DOMAIN months : months[month] > 0} = {PaidInMonth(day) : day \in
                    {d \in DOMAIN entitled : TakeHome(entitled[d]) > 0}}
  <1> DEFINE months == PaymentCalendar(entitled)
             E == DOMAIN entitled
             homes == [day \in E |-> TakeHome(entitled[day])]
             part == [day \in E |-> PaidInMonth(day)]
             I == 0..YearMonths - 1
             One(i) == {day \in E : part[day] = i}
  <1>1. YearMonths \in Nat \ {0} /\ YearDays \in Nat \ {0} /\ IncomeLag \in Nat
    BY ReportsConstants, IncomeConstants
  <1>2. \A day \in E : part[day] \in I /\ part[day] = PaidInMonth(day)
    <2> TAKE day \in E
    <2>1. PICK n \in Int : n = ((day + IncomeLag) * YearMonths) \div YearDays
      <3>1. (day + IncomeLag) * YearMonths \in Int
        BY <1>1
      <3> QED
        BY <1>1, <3>1, Quotient
    <2>2. n % YearMonths \in 0..YearMonths - 1
      BY <1>1
    <2> QED
      BY <2>1, <2>2 DEF PaidInMonth
  <1>3. \A day \in E : homes[day] = TakeHome(entitled[day]) /\ homes[day] \in Nat
    BY TakeHomeRises
  <1>4. IsFiniteSet(I)
    BY <1>1, FS_Interval
  <1>5. DOMAIN months = I
    BY DEF PaymentCalendar
  <1>6. ASSUME NEW i \in I
        PROVE  /\ months[i] = SumFunctionOnSet(homes, One(i))
               /\ months[i] > 0 <=> \E day \in One(i) : homes[day] > 0
    <2> DEFINE D == {d \in DOMAIN entitled : PaidInMonth(d) = i}
               f == [day \in D |-> TakeHome(entitled[day])]
    <2>1. months[i] = SumFunctionOnSet(f, D)
      BY DEF PaymentCalendar, SumFunction
    <2>2. D = One(i) /\ IsFiniteSet(D) /\ D \subseteq E
      BY <1>2, FS_Subset
    <2>3. \A day \in D : f[day] \in Int /\ f[day] = homes[day]
      BY <1>3, <2>2
    <2> HIDE DEF f, D, homes, One, months
    <2>4. SumFunctionOnSet(f, D) = SumFunctionOnSet(homes, D)
      BY <2>2, <2>3, SumSame
    <2>5. SumFunctionOnSet(homes, D) > 0 <=> \E day \in D : homes[day] > 0
      BY <1>3, <2>2, SumIsMore
    <2> QED
      BY <2>1, <2>2, <2>4, <2>5
  <1> HIDE DEF months, homes, part, I
  <1>7. SumFunctionOnSet(months, I) = SumFunctionOnSet(homes, E)
    <2>1. /\ \A x \in E : homes[x] \in Int /\ part[x] \in I
          /\ \A i \in I : months[i] = SumFunctionOnSet(homes, {x \in E : part[x] = i})
      BY <1>2, <1>3, <1>6
    <2> HIDE DEF E
    <2> QED
      BY <1>4, <2>1, SumOfParts DEF E
  <1>8. SumFunction(months) = SumFunctionOnSet(homes, E)
    BY <1>5, <1>7 DEF SumFunction
  <1>9. {month \in DOMAIN months : months[month] > 0} =
            {PaidInMonth(day) : day \in {d \in DOMAIN entitled : TakeHome(entitled[d]) > 0}}
    <2>1. ASSUME NEW i \in I, months[i] > 0
          PROVE  \E day \in DOMAIN entitled : TakeHome(entitled[day]) > 0 /\ i = PaidInMonth(day)
      BY <1>2, <1>3, <1>6, <2>1
    <2>2. ASSUME NEW day \in DOMAIN entitled, TakeHome(entitled[day]) > 0
          PROVE  PaidInMonth(day) \in I /\ months[PaidInMonth(day)] > 0
      <3>1. PICK i \in I : i = PaidInMonth(day)
        BY <1>2
      <3>2. day \in One(i) /\ homes[day] > 0
        BY <1>2, <1>3, <2>2, <3>1
      <3> HIDE DEF One
      <3>3. months[i] > 0
        BY <1>6, <3>2
      <3> QED
        BY <3>1, <3>3
    <2> QED
      BY <1>5, <2>1, <2>2
  <1> QED
    BY <1>8, <1>9 DEF months, homes

-----------------------------------------------------------------------------
(* How the dividends grew.                                                 *)

\* A share's dividends of a year, times the shares held now, are what was due in it.
LEMMA PerShareIs ==
    ASSUME NEW bought \in Nat, NEW events, AreEvents(events), NEW lastDay \in Nat, NEW asOf \in Int,
           asOf < lastDay, \A day \in DOMAIN events.dividends \cup DOMAIN events.splits : day <= asOf,
           NothingLost(bought, events.splits), NEW end \in Int
    PROVE  LET holding == HeldOn(bought, events, lastDay)
               share == PerShare(holding, end, asOf)
           IN  share \in Shares /\ share[1] * holding.shares = DueIn(bought, events, end) * share[2]
  <1> DEFINE holding == HeldOn(bought, events, lastDay)
             year == EarningDays(events, end)
             f == [day \in year |-> RestatedShare(holding, day, asOf)]
             dues == [day \in year |-> Due(bought, events, day)]
             shares == holding.shares
  <1>1. IsHolding(holding)
    BY HoldingTyped
  <1>2. shares \in Nat
    BY <1>1 DEF IsHolding
  <1>3. DividendsOfTheYear(holding, end) = year
    BY DaysOfTheYear
  <1>4. year \subseteq DOMAIN events.dividends /\ IsFiniteSet(year)
    BY FS_Subset DEF EarningDays, AreEvents
  <1>5. /\ \A day \in year : f[day] \in Shares
        /\ PerShare(holding, end, asOf) = FoldFunctionOnSet(Added, <<0, 1>>, f, year)
    BY <1>1, <1>3, PerShareTyped
  <1>6. ASSUME NEW day \in year
        PROVE  dues[day] \in Int /\ f[day][1] * shares = dues[day] * f[day][2]
    <2>1. day \in DOMAIN events.dividends
      BY <1>4
    <2>2. RestatedShare(holding, day, asOf)[1] * holding.shares
            = Due(bought, events, day) * RestatedShare(holding, day, asOf)[2]
      BY <2>1, RestatedIs
    <2>3. Due(bought, events, day) \in Nat
      BY <2>1, DueTyped
    <2>4. f[day] = RestatedShare(holding, day, asOf) /\ dues[day] = Due(bought, events, day)
      OBVIOUS
    <2> HIDE DEF f, dues, holding
    <2> QED
      BY <2>2, <2>3, <2>4
  <1> DEFINE share == FoldFunctionOnSet(Added, <<0, 1>>, f, year)
  <1> HIDE DEF f, dues, year, shares
  <1>7. share \in Shares /\ share[1] * shares = SumFunctionOnSet(dues, year) * share[2]
    BY <1>2, <1>4, <1>5, <1>6, AddedIsSum
  <1>8. PerShare(holding, end, asOf) = share
    BY <1>5
  <1> HIDE DEF share
  <1> QED
    BY <1>7, <1>8 DEF dues, year, shares, DueIn

\* The growth is that of what was due, from a year to the next.
LEMMA GrowthIs ==
    ASSUME NEW shares \in Nat, NEW recent \in Shares, NEW earlier \in Shares,
           NEW due \in Nat, NEW before \in Nat, due > 0, before > 0,
           recent[1] * shares = due * recent[2], earlier[1] * shares = before * earlier[2]
    PROVE  /\ earlier[1] # 0
           /\ (recent[1] * earlier[2] - earlier[1] * recent[2]) * before
                = (recent[2] * earlier[1]) * (due - before)
  <1>1. PICK m \in Nat, n \in Pos : recent = <<m, n>>
    BY DEF Shares
  <1>2. PICK p \in Nat, q \in Pos : earlier = <<p, q>>
    BY DEF Shares
  <1>3. m * shares = due * n /\ p * shares = before * q
    BY <1>1, <1>2
  <1>4. shares \in Pos /\ p # 0
    <2>1. before * q > 0
      BY DEF Pos
    <2>2. p * shares > 0
      BY <1>3, <2>1
    <2>3. p * 0 = 0 /\ 0 * shares = 0
      OBVIOUS
    <2> QED
      BY <2>2, <2>3 DEF Pos
  <1>5. (m * q) * before = (n * p) * due
    <2> DEFINE k == (m * q) * before
               l == (n * p) * due
    <2>1. shares * k = (m * shares) * (q * before) /\ shares * l = (p * shares) * (n * due)
      BY DEF Pos
    <2>2. (m * shares) * (q * before) = (due * n) * (q * before)
      BY <1>3
    <2>3. (p * shares) * (n * due) = (before * q) * (n * due)
      BY <1>3
    <2>4. (due * n) * (q * before) = (before * q) * (n * due)
      BY DEF Pos
    <2>5. shares * k = shares * l
      BY <2>1, <2>2, <2>3, <2>4
    <2>6. k \in Int /\ l \in Int /\ shares * k \in Int
      BY DEF Pos
    <2> HIDE DEF k, l
    <2>7. shares * k <= shares * l /\ shares * l <= shares * k
      BY <2>5, <2>6
    <2>8. k <= l /\ l <= k
      BY <1>4, <2>6, <2>7, TimesCancels
    <2> QED
      BY <2>6, <2>8 DEF k, l
  <1>6. (m * q - p * n) * before = (m * q) * before - (n * p) * before
    BY DEF Pos
  <1>7. (n * p) * (due - before) = (n * p) * due - (n * p) * before
    BY DEF Pos
  <1>8. (m * q - p * n) * before = (n * p) * (due - before)
    BY <1>5, <1>6, <1>7
  <1> QED
    BY <1>1, <1>2, <1>4, <1>8

LEMMA GrowthOfTheYears ==
    ASSUME NEW bought \in Nat, NEW events, AreEvents(events), NEW lastDay \in Nat, NEW asOf \in Int,
           asOf < lastDay, \A day \in DOMAIN events.dividends \cup DOMAIN events.splits : day <= asOf,
           NothingLost(bought, events.splits),
           NEW due \in Nat, NEW before \in Nat, due > 0, before > 0,
           due = DueIn(bought, events, asOf), before = DueIn(bought, events, asOf - YearDays)
    PROVE  LET growth == MeasuredGrowth(HeldOn(bought, events, lastDay), asOf)
           IN  growth[1] * before = growth[2] * (due - before)
  <1> DEFINE holding == HeldOn(bought, events, lastDay)
             recent == PerShare(holding, asOf, asOf)
             earlier == PerShare(holding, asOf - YearDays, asOf)
  <1>1. YearDays \in Nat /\ asOf - YearDays \in Int
    BY ReportsConstants
  <1>2. recent \in Shares /\ recent[1] * holding.shares = due * recent[2]
    BY PerShareIs
  <1>3. earlier \in Shares /\ earlier[1] * holding.shares = before * earlier[2]
    BY <1>1, PerShareIs
  <1>4. holding.shares \in Nat
    BY HoldingTyped DEF IsHolding
  <1>5. AnnualGross(Entitlements(holding, asOf)) = due
    BY AnnualIs
  <1>6. MeasuredGrowth(holding, asOf) =
            IF due = 0 \/ earlier[1] = 0 THEN <<0, 1>>
            ELSE <<recent[1] * earlier[2] - earlier[1] * recent[2], recent[2] * earlier[1]>>
    BY <1>5 DEF MeasuredGrowth, GrowthSpan
  <1> DEFINE shares == holding.shares
  <1> HIDE DEF holding, recent, earlier
  <1>7. /\ earlier[1] # 0
        /\ (recent[1] * earlier[2] - earlier[1] * recent[2]) * before
             = (recent[2] * earlier[1]) * (due - before)
    BY <1>2, <1>3, <1>4, GrowthIs
  <1> DEFINE rise == recent[1] * earlier[2] - earlier[1] * recent[2]
             base == recent[2] * earlier[1]
  <1>8. MeasuredGrowth(holding, asOf) = <<rise, base>>
    BY <1>6, <1>7
  <1>9. rise * before = base * (due - before)
    BY <1>7
  <1> HIDE DEF rise, base
  <1> QED
    BY <1>8, <1>9 DEF holding

-----------------------------------------------------------------------------
(* The run-rate was paid.                                                  *)

\* The reports up to a day are those of a shorter run.
LEMMA ReportsUpTo ==
    ASSUME NEW bought, NEW events, NEW n \in Nat, NEW m \in 0..n
    PROVE  /\ AreReports(ReportsOf(bought, events, n), n, bought, events)
           /\ AreReports(SubSeq(ReportsOf(bought, events, n), 1, m), m, bought, events)
  <1> DEFINE all == ReportsOf(bought, events, n)
             some == SubSeq(all, 1, m)
             one(i) == ReportsOf(bought, events, n)[i]
  <1>1. DOMAIN all = 1..n /\ all \in Seq({one(i) : i \in 1..n})
    <2>1. all = [i \in 1..n |-> one(i)]
      BY DEF ReportsOf
    <2> HIDE DEF all, one
    <2> QED
      BY <2>1
  <1>2. Len(all) = n
    BY <1>1
  <1>3. \A i \in 1..m : ReportsOf(bought, events, m)[i] = all[i]
    BY DEF ReportsOf
  <1>4. DOMAIN some = 1..m /\ Len(some) = m /\ \A i \in 1..m : some[i] = all[i]
    <2> HIDE DEF all, one
    <2> QED
      BY <1>1, <1>2
  <1> HIDE DEF all, some
  <1>5. AreReports(all, n, bought, events)
    BY <1>1, <1>2 DEF AreReports, all
  <1>6. AreReports(some, m, bought, events)
    BY <1>3, <1>4 DEF AreReports
  <1> QED
    BY <1>5, <1>6 DEF all, some

LEMMA YearWasPaid ==
    ASSUME AskedAbout
    PROVE  RunRateWasPaid
  <1> SUFFICES ASSUME asked.about = "income"
               PROVE  RunRateWasPaid
    BY DEF RunRateWasPaid
  <1>1. PICK bought \in Bought, events \in Events, value \in Values, since \in 0..YearDays, target \in Targets :
            asked = Question(bought, events, value, since, target)
    BY DEF AskedAbout
  <1> DEFINE lastDay == Today(events, since)
             asOf == lastDay - IncomeLag
             holding == HeldOn(bought, events, lastDay)
             reports == ReportsOf(bought, events, lastDay)
             entitled == Entitlements(holding, asOf)
             received == Received(reports, Trailing(reports), FullTax)
             lost == NothingLost(bought, events.splits)
             months == PaymentCalendar(entitled)
             before == SubSeq(reports, 1, Len(reports) - YearDays)
             yearBefore == IF before = <<>> THEN 0 ELSE Received(before, Trailing(before), FullTax).gross
             growth == MeasuredGrowth(holding, asOf)
             year == SumFunction(months)
             average == MonthlyAverage(reports, FullTax).takeHome
             progress == GoalProgress(target, average, AnnualGross(entitled))
             due == DueIn(bought, events, asOf)
             homes == [day \in DOMAIN entitled |-> TakeHome(entitled[day])]
  <1>2. /\ asked.bought = bought /\ asked.target = target /\ asked.asOf = asOf
        /\ asked.holding = holding /\ asked.reports = reports /\ asked.holding.splits = events.splits
    BY <1>1 DEF Question, HeldOn
  <1>3. lost <=> \A s \in DOMAIN asked.holding.splits :
            (SharesOn(asked.bought, asked.holding.splits, s) * asked.holding.splits[s][1])
                % asked.holding.splits[s][2] = 0
    BY <1>2 DEF NothingLost
  <1>4. /\ bought \in Nat /\ target \in Nat /\ target > 0 /\ YearDays \in Nat /\ YearDays >= 1
        /\ AreEvents(events) /\ lastDay \in Nat /\ IncomeLag \in Nat /\ IncomeLag >= 1
        /\ \A day \in DOMAIN events.dividends \cup DOMAIN events.splits : day <= asOf
    <2>1. bought \in Nat /\ target \in Nat /\ target > 0
      BY FiguresConstants
    <2>2. YearDays \in Nat /\ YearDays >= 1
      BY ReportsConstants
    <2>3. /\ AreEvents(events) /\ lastDay \in Nat /\ IncomeLag \in Nat /\ IncomeLag >= 1
          /\ \A day \in DOMAIN events.dividends \cup DOMAIN events.splits : day <= asOf
      BY EventsTyped
    <2> QED
      BY <2>1, <2>2, <2>3
  <1>5. asOf \in Int /\ asOf < lastDay /\ lastDay >= 1
    <2>1. \E day \in DOMAIN events.dividends \cup DOMAIN events.splits : day \in Nat /\ day <= asOf
      BY <1>4, FiguresConstants DEF AreEvents, IsHistory
    <2> HIDE DEF lastDay
    <2> QED
      BY <1>4, <2>1
  <1>6. /\ AreReports(reports, lastDay, bought, events) /\ Len(reports) = lastDay
        /\ \A m \in 0..lastDay : AreReports(SubSeq(reports, 1, m), m, bought, events)
    <2>1. lastDay \in Nat /\ 0 \in 0..lastDay
      BY <1>4
    <2> HIDE DEF lastDay
    <2>2. \A m \in 0..lastDay : /\ AreReports(reports, lastDay, bought, events)
                              /\ AreReports(SubSeq(reports, 1, m), m, bought, events)
      BY <2>1, ReportsUpTo
    <2> HIDE DEF reports
    <2>3. AreReports(reports, lastDay, bought, events)
      BY <2>1, <2>2
    <2> QED
      BY <2>2, <2>3 DEF AreReports
  <1>7. RunRateWasPaid <=>
            /\ AnnualGross(entitled) <= received.gross
            /\ lost => /\ AnnualGross(entitled) = received.gross
                       /\ year = received.takeHome
                       /\ NotBelow(progress.runRate, progress.received)
                       /\ yearBefore > 0 /\ received.gross > 0 =>
                             growth[1] * yearBefore = growth[2] * (received.gross - yearBefore)
            /\ TakeHome(AnnualGross(entitled)) - year \in 0..Cardinality(DOMAIN entitled)
            /\ {month \in DOMAIN months : months[month] > 0} = {PaidInMonth(day) : day \in
                    {d \in DOMAIN entitled : TakeHome(entitled[d]) > 0}}
    BY <1>2, <1>3 DEF RunRateWasPaid
  <1>8. received.gross = due /\ due \in Nat /\ received.takeHome = HomeIn(bought, events, asOf)
    BY <1>4, <1>5, <1>6, ReceivedIs
  <1>9. /\ AnnualGross(entitled) <= due
        /\ lost => AnnualGross(entitled) = due /\ SumFunctionOnSet(homes, DOMAIN entitled) = HomeIn(bought, events, asOf)
    BY <1>4, <1>5, AnnualIs
  <1>10. /\ IsFiniteSet(DOMAIN entitled) /\ DOMAIN entitled \subseteq Nat
         /\ \A day \in DOMAIN entitled : entitled[day] \in Nat
         /\ AnnualGross(entitled) = SumFunctionOnSet(entitled, DOMAIN entitled)
         /\ AnnualGross(entitled) \in Nat
    <2>1. IsHolding(holding)
      BY <1>4, HoldingTyped
    <2>2. DOMAIN holding.dividends \subseteq Nat
      BY <2>1 DEF IsHolding
    <2> HIDE DEF holding
    <2> QED
      BY <2>1, <2>2, EntitledTyped
  <1> HIDE DEF entitled
  <1>11. /\ year = SumFunctionOnSet(homes, DOMAIN entitled)
         /\ {month \in DOMAIN months : months[month] > 0} = {PaidInMonth(day) : day \in
                    {d \in DOMAIN entitled : TakeHome(entitled[d]) > 0}}
    BY <1>10, MonthsAddUp
  <1>12. /\ year \in Nat /\ TakeHome(AnnualGross(entitled)) - year \in 0..Cardinality(DOMAIN entitled)
         /\ TakeHome(AnnualGross(entitled)) \in Nat
    <2>1. \A day \in DOMAIN entitled : entitled[day] \in Nat /\ homes[day] = TakeHome(entitled[day])
      BY <1>10
    <2> HIDE DEF homes
    <2>2. /\ SumFunctionOnSet(homes, DOMAIN entitled) \in Nat
          /\ TakeHome(SumFunctionOnSet(entitled, DOMAIN entitled)) - SumFunctionOnSet(homes, DOMAIN entitled)
                \in 0..Cardinality(DOMAIN entitled)
      BY <1>10, <2>1, TaxesRoundUp
    <2> QED
      BY <1>10, <1>11, <2>2, TakeHomeRises
  <1>13. average = PerMonth(received.takeHome)
    BY DEF MonthlyAverage, Received, Together
  <1> HIDE DEF year, months, received
  <1>14. ASSUME lost PROVE year = received.takeHome /\ NotBelow(progress.runRate, progress.received)
    <2>1. year = received.takeHome
      BY <1>8, <1>9, <1>11, <1>14
    <2>2. PICK home \in Nat : home = TakeHome(AnnualGross(entitled)) /\ year <= home
      <3>1. Cardinality(DOMAIN entitled) \in Nat
        BY <1>10, FS_CardinalityType
      <3> QED
        BY <1>12, <3>1
    <2>3. PerMonth(year) \in Nat /\ PerMonth(home) \in Nat /\ PerMonth(year) <= PerMonth(home)
      BY <1>12, <2>2, PerMonthRises
    <2>4. progress.runRate = <<PerMonth(home), target>> /\ progress.received = <<PerMonth(year), target>>
      BY <1>13, <2>1, <2>2 DEF GoalProgress
    <2>5. PerMonth(home) * target >= PerMonth(year) * target
      BY <1>4, <2>3, ProductsRise
    <2> QED
      BY <2>1, <2>4, <2>5 DEF NotBelow
  <1>15. ASSUME yearBefore > 0 PROVE yearBefore = DueIn(bought, events, asOf - YearDays) /\ yearBefore \in Nat
    <2>1. PICK m \in Int : m = Len(reports) - YearDays /\ m = lastDay - YearDays
      BY <1>4, <1>6
    <2>2. before # <<>> /\ yearBefore = Received(before, Trailing(before), FullTax).gross
      BY <1>15
    <2>3. m >= 1
      <3> SUFFICES ASSUME m < 1 PROVE FALSE
        BY <2>1
      <3>1. SubSeq(reports, 1, m) = <<>>
        BY SubSeqEmpty
      <3> QED
        BY <2>1, <2>2, <3>1
    <2>4. AreReports(before, m, bought, events)
      BY <1>4, <1>6, <2>1, <2>3
    <2>5. m - IncomeLag = asOf - YearDays
      BY <1>4, <2>1
    <2> HIDE DEF before, yearBefore
    <2> QED
      BY <1>4, <2>2, <2>3, <2>4, <2>5, ReceivedIs
  <1>16. ASSUME lost, yearBefore > 0, received.gross > 0
         PROVE  growth[1] * yearBefore = growth[2] * (received.gross - yearBefore)
    <2>1. yearBefore = DueIn(bought, events, asOf - YearDays) /\ yearBefore \in Nat
      BY <1>15, <1>16
    <2> HIDE DEF yearBefore, lastDay
    <2>2. growth[1] * yearBefore = growth[2] * (due - yearBefore)
      BY <1>4, <1>5, <1>8, <1>16, <2>1, GrowthOfTheYears
    <2> QED
      BY <1>8, <2>2
  <1> HIDE DEF lost, growth, yearBefore, progress, due
  <1> QED
    BY <1>7, <1>8, <1>9, <1>11, <1>12, <1>14, <1>16

\* What the last year paid a shareholder who kept his shares is what the run-rate of a pay lag
\* earlier said, through every split that left no part of a share over, and never less, and its
\* growth is how that grew since the year before; by months it comes to its take-home but for the
\* roundings of the tax: for any history of dividends and splits, any lag and any rate of tax
\* (run_rate, received_income, dividend_growth, payment_calendar).
THEOREM RunRateIsPaid == FSpec => []RunRateWasPaid
  <1>1. AskedAbout => RunRateWasPaid
    BY YearWasPaid
  <1> QED
    BY <1>1, AskedIs, PTL

-----------------------------------------------------------------------------
(* What a holder was paid against what is restated.                        *)

\* The product over two sets that share nothing is the product of their products.
LEMMA ProductOfTwo ==
    ASSUME NEW S, IsFiniteSet(S), NEW f, \A x \in S : f[x] \in Ratios, NEW U \in SUBSET S
    PROVE  ProductOf(f, S) = Times(ProductOf(f, U), ProductOf(f, S \ U))
  <1> DEFINE R == S \ U
             P == {T \in SUBSET R : ProductOf(f, U \union T) = Times(ProductOf(f, U), ProductOf(f, T))}
  <1>1. \A T \in SUBSET S : IsFiniteSet(T) /\ ProductOf(f, T) \in Ratios
    <2> TAKE T \in SUBSET S
    <2>1. IsFiniteSet(T) /\ \A x \in T : f[x] \in Ratios
      BY FS_Subset
    <2> QED
      BY <2>1, ProductRemove
  <1>2. {} \in P
    <2>1. ProductOf(f, {}) = <<1, 1>>
      BY ProductRemove, FS_EmptySet
    <2>2. PICK a \in Pos, b \in Pos : ProductOf(f, U) = <<a, b>>
      BY <1>1 DEF Ratios
    <2>3. Times(<<a, b>>, <<1, 1>>) = <<a, b>>
      BY DEF Times, Pos
    <2> QED
      BY <2>1, <2>2, <2>3
  <1>3. ASSUME NEW T \in SUBSET R, NEW x \in R \ T, T \in P PROVE T \union {x} \in P
    <2> DEFINE V == T \union {x}
               W == U \union V
    <2>1. V \in SUBSET S /\ W \in SUBSET S /\ x \in V /\ x \in W /\ V \ {x} = T /\ W \ {x} = U \union T
      BY <1>3
    <2>2. \A K \in SUBSET S : \A y \in K : ProductOf(f, K) = Times(f[y], ProductOf(f, K \ {y}))
      <3> TAKE K \in SUBSET S
      <3>1. IsFiniteSet(K) /\ \A y \in K : f[y] \in Ratios
        BY <1>1
      <3> QED
        BY <3>1, ProductRemove
    <2>3. ProductOf(f, V) = Times(f[x], ProductOf(f, T))
      BY <2>1, <2>2
    <2>4. ProductOf(f, W) = Times(f[x], ProductOf(f, U \union T))
      BY <2>1, <2>2
    <2>5. ProductOf(f, U \union T) = Times(ProductOf(f, U), ProductOf(f, T))
      BY <1>3
    <2>6. f[x] \in Ratios /\ ProductOf(f, U) \in Ratios /\ ProductOf(f, T) \in Ratios
      BY <1>1, <1>3
    <2>7. ProductOf(f, W) = Times(ProductOf(f, U), ProductOf(f, V))
      BY <2>3, <2>4, <2>5, <2>6, TimesRegroups
    <2> QED
      BY <1>3, <2>7
  <1> HIDE DEF P
  <1>4. R \in P
    BY <1>1, <1>2, <1>3, Subsets
  <1>5. U \union R = S
    OBVIOUS
  <1> QED
    BY <1>4, <1>5 DEF P

Inverted(ratio) == <<ratio[2], ratio[1]>>

LEMMA InverseTyped ==
    ASSUME NEW a \in Ratios, NEW b \in Ratios
    PROVE  /\ Inverted(a) \in Ratios
           /\ Times(Inverted(a), Inverted(b)) = Inverted(Times(a, b))
  <1>1. PICK m \in Pos, n \in Pos, p \in Pos, q \in Pos : a = <<m, n>> /\ b = <<p, q>>
    BY DEF Ratios
  <1> QED
    BY <1>1 DEF Inverted, Times, Ratios

\* The product of the inverses is the inverse of the product.
LEMMA ProductOfInverses ==
    ASSUME NEW S, IsFiniteSet(S), NEW f, NEW g, \A x \in S : f[x] \in Ratios /\ g[x] = Inverted(f[x])
    PROVE  ProductOf(g, S) = Inverted(ProductOf(f, S))
  <1> DEFINE P == {T \in SUBSET S : ProductOf(g, T) = Inverted(ProductOf(f, T))}
  <1>1. \A x \in S : f[x] \in Ratios /\ g[x] \in Ratios
    BY InverseTyped
  <1>2. \A T \in SUBSET S : IsFiniteSet(T) /\ \A x \in T : f[x] \in Ratios /\ g[x] \in Ratios
    BY <1>1, FS_Subset
  <1>3. ASSUME NEW T \in SUBSET S
        PROVE  /\ ProductOf(f, T) \in Ratios
               /\ \A x \in T : /\ ProductOf(f, T) = Times(f[x], ProductOf(f, T \ {x}))
                               /\ ProductOf(g, T) = Times(g[x], ProductOf(g, T \ {x}))
    BY <1>2, ProductRemove
  <1>4. {} \in P
    <2>1. ProductOf(f, {}) = <<1, 1>> /\ ProductOf(g, {}) = <<1, 1>>
      BY ProductRemove, FS_EmptySet
    <2> QED
      BY <2>1 DEF Inverted
  <1>5. ASSUME NEW T \in SUBSET S, NEW x \in S \ T, T \in P PROVE T \union {x} \in P
    <2> DEFINE V == T \union {x}
    <2>1. V \in SUBSET S /\ x \in V /\ V \ {x} = T
      BY <1>5
    <2>2. ProductOf(f, V) = Times(f[x], ProductOf(f, T)) /\ ProductOf(g, V) = Times(g[x], ProductOf(g, T))
      BY <1>3, <2>1
    <2>3. ProductOf(g, T) = Inverted(ProductOf(f, T)) /\ g[x] = Inverted(f[x])
      BY <1>5
    <2>4. ProductOf(f, T) \in Ratios /\ f[x] \in Ratios
      BY <1>2, <1>3, <2>1
    <2>5. ProductOf(g, V) = Inverted(ProductOf(f, V))
      BY <2>2, <2>3, <2>4, InverseTyped
    <2> QED
      BY <2>1, <2>5
  <1> HIDE DEF P
  <1>6. S \in P
    BY <1>4, <1>5, Subsets
  <1> QED
    BY <1>6 DEF P

\* An amount a is the part p of an amount b.
IsPart(a, b, p) == (a[1] * b[2]) * p[2] = (b[1] * a[2]) * p[1]

\* If each of some amounts is a part of another, so is their sum of the others' sum.
LEMMA SumsOfParts ==
    ASSUME NEW S, IsFiniteSet(S), NEW f, NEW g, NEW part \in Ratios,
           \A x \in S : f[x] \in Shares /\ g[x] \in Shares /\ IsPart(f[x], g[x], part)
    PROVE  LET fs == FoldFunctionOnSet(Added, <<0, 1>>, f, S)
               gs == FoldFunctionOnSet(Added, <<0, 1>>, g, S)
           IN  fs \in Shares /\ gs \in Shares /\ IsPart(fs, gs, part)
  <1> DEFINE F == AddedsOf(f, S)
             G == AddedsOf(g, S)
             P == {T \in SUBSET S : IsPart(F[T], G[T], part)}
  <1>1. /\ FoldFunctionOnSet(Added, <<0, 1>>, f, S) = F[S]
        /\ \A T \in SUBSET S : F[T] \in Shares /\ F[T] = AddedStep(f, T, F)
    BY AddedUnfolds
  <1>2. /\ FoldFunctionOnSet(Added, <<0, 1>>, g, S) = G[S]
        /\ \A T \in SUBSET S : G[T] \in Shares /\ G[T] = AddedStep(g, T, G)
    BY AddedUnfolds
  <1>3. PICK a \in Pos, b \in Pos : part = <<a, b>>
    BY DEF Ratios
  <1> HIDE DEF F, G
  <1>4. {} \in P
    <2>1. F[{}] = <<0, 1>> /\ G[{}] = <<0, 1>>
      BY <1>1, <1>2 DEF AddedStep
    <2> QED
      BY <1>3, <2>1 DEF IsPart, Pos
  <1>5. ASSUME NEW T \in SUBSET S, T # {} PROVE \E x \in T : T \ {x} \in P => T \in P
    <2> DEFINE R == T \ {AnyOf(T)}
    <2>1. PICK x \in T : x = AnyOf(T)
      BY <1>5, AnyIsOne
    <2>2. F[T] = Added(f[x], F[R]) /\ F[R] \in Shares /\ f[x] \in Shares
      BY <1>1, <1>5, <2>1 DEF AddedStep
    <2>3. G[T] = Added(g[x], G[R]) /\ G[R] \in Shares /\ g[x] \in Shares
      BY <1>2, <1>5, <2>1 DEF AddedStep
    <2>4. ASSUME R \in P PROVE T \in P
      <3>1. PICK m \in Nat, n \in Pos, p \in Nat, q \in Pos : f[x] = <<m, n>> /\ g[x] = <<p, q>>
        BY <2>2, <2>3 DEF Shares
      <3>2. PICK M \in Nat, N \in Pos, U \in Nat, V \in Pos : F[R] = <<M, N>> /\ G[R] = <<U, V>>
        BY <2>2, <2>3 DEF Shares
      <3>3. (m * q) * b = (p * n) * a
        <4>1. IsPart(f[x], g[x], part)
          OBVIOUS
        <4> QED
          BY <1>3, <3>1, <4>1 DEF IsPart
      <3>4. (M * V) * b = (U * N) * a
        <4>1. IsPart(F[R], G[R], part)
          BY <2>4
        <4> QED
          BY <1>3, <3>2, <4>1 DEF IsPart
      <3>5. F[T] = <<m * N + M * n, n * N>> /\ G[T] = <<p * V + U * q, q * V>>
        BY <2>2, <2>3, <3>1, <3>2 DEF Added
      <3>6. ((m * N + M * n) * (q * V)) * b = ((p * V + U * q) * (n * N)) * a
        <4>1. ((m * N + M * n) * (q * V)) * b = (N * V) * ((m * q) * b) + (n * q) * ((M * V) * b)
          BY DEF Pos
        <4>2. ((p * V + U * q) * (n * N)) * a = (N * V) * ((p * n) * a) + (n * q) * ((U * N) * a)
          BY DEF Pos
        <4> QED
          BY <3>3, <3>4, <4>1, <4>2
      <3>7. IsPart(F[T], G[T], part)
        BY <1>3, <3>5, <3>6 DEF IsPart
      <3> QED
        BY <3>7
    <2> QED
      BY <2>1, <2>4
  <1> HIDE DEF P
  <1>6. S \in P
    BY <1>4, <1>5, Peeled
  <1>7. IsPart(F[S], G[S], part)
    BY <1>6 DEF P
  <1> QED
    BY <1>1, <1>2, <1>7

\* The same part of two amounts is more than nothing if they are, and in their order.
LEMMA PartsKeepOrder ==
    ASSUME NEW f \in Shares, NEW g \in Shares, NEW h \in Shares, NEW k \in Shares,
           NEW part \in Ratios, IsPart(f, g, part), IsPart(h, k, part)
    PROVE  /\ g[1] > 0 => f[1] > 0
           /\ NotBelow(g, k) => NotBelow(f, h)
  <1>1. PICK a \in Pos, b \in Pos : part = <<a, b>>
    BY DEF Ratios
  <1>2. PICK m \in Nat, n \in Pos, p \in Nat, q \in Pos : f = <<m, n>> /\ g = <<p, q>>
    BY DEF Shares
  <1>3. PICK M \in Nat, N \in Pos, U \in Nat, V \in Pos : h = <<M, N>> /\ k = <<U, V>>
    BY DEF Shares
  <1>4. (m * q) * b = (p * n) * a
    BY <1>1, <1>2 DEF IsPart
  <1>5. (M * V) * b = (U * N) * a
    BY <1>1, <1>3 DEF IsPart
  <1>6. ASSUME p > 0 PROVE m > 0
    <2>1. p \in Pos
      BY <1>6 DEF Pos
    <2>2. (p * n) * a > 0
      BY <2>1 DEF Pos
    <2>3. (0 * q) * b = 0
      BY DEF Pos
    <2>4. m # 0
      BY <1>4, <2>2, <2>3
    <2> QED
      BY <2>4
  <1>7. ASSUME p * V >= U * q PROVE m * N >= M * n
    <2> DEFINE scale == (q * V) * b
               mine == m * N
               other == M * n
    <2>1. scale \in Pos /\ mine \in Nat /\ other \in Nat
      BY DEF Pos
    <2>2. scale * mine = (N * V) * ((m * q) * b)
      BY DEF Pos
    <2>3. scale * other = (n * q) * ((M * V) * b)
      BY DEF Pos
    <2>4. (N * V) * ((p * n) * a) = ((n * N) * a) * (p * V)
      BY DEF Pos
    <2>5. (n * q) * ((U * N) * a) = ((n * N) * a) * (U * q)
      BY DEF Pos
    <2>6. ((n * N) * a) * (U * q) <= ((n * N) * a) * (p * V)
      <3>1. (n * N) * a \in Nat /\ U * q \in Int /\ p * V \in Int
        BY DEF Pos
      <3> QED
        BY <1>7, <3>1, TimesKeepsOrder
    <2>7. scale * other <= scale * mine
      BY <1>4, <1>5, <2>2, <2>3, <2>4, <2>5, <2>6
    <2> HIDE DEF scale, mine, other
    <2>8. other <= mine
      <3> SUFFICES ASSUME mine + 1 <= other PROVE FALSE
        BY <2>1
      <3>1. scale * (mine + 1) <= scale * other
        BY <2>1, TimesKeepsOrder DEF Pos
      <3>2. scale * (mine + 1) = scale * mine + scale /\ scale * mine \in Int /\ scale * other \in Int
        BY <2>1 DEF Pos
      <3> QED
        BY <2>1, <2>7, <3>1, <3>2 DEF Pos
    <2> QED
      BY <2>8 DEF mine, other
  <1>8. g[1] > 0 => f[1] > 0
    BY <1>2, <1>6
  <1> QED
    BY <1>2, <1>3, <1>7, <1>8 DEF NotBelow

-----------------------------------------------------------------------------
(* The dividends a stock paid.                                             *)

IsKnown(h, stock) ==
    /\ IsHistory(h.splits[stock])
    /\ IsFiniteSet(DOMAIN h.dividends[stock]) /\ DOMAIN h.dividends[stock] \subseteq Nat
    /\ \A day \in DOMAIN h.dividends[stock] : h.dividends[stock][day] \in Nat
    /\ h.close[stock] \in Nat

LEMMA KnownTyped ==
    ASSUME NEW h \in Histories, NEW stock \in Stocks
    PROVE  IsKnown(h, stock)
  BY StrategiesConstants DEF IsKnown, IsHistory, Ratios, Pos

\* What a holder of one share from the first day is paid on a day, and in a year.
PaidToHolder(h, stock, day) ==
    LET splits == h.splits[stock]
    IN  Times(<<h.dividends[stock][day], 1>>,
              Times(<<1, 1>>, ProductOf(splits, {s \in DOMAIN splits : s < day})))
PaidIn(h, stock, year) ==
    FoldFunction(Added, <<0, 1>>,
        [day \in DaysOfYear(year) \cap DOMAIN h.dividends[stock] |-> PaidToHolder(h, stock, day)])

LEMMA PaidIs ==
    ASSUME NEW stock, NEW year
    PROVE  HolderPaid(stock, 1, year) = PaidIn(history, stock, year)
  BY DEF HolderPaid, PaidIn, PaidToHolder

\* A fold of a function is one over its domain.
LEMMA FoldIs ==
    ASSUME NEW f
    PROVE  FoldFunction(Added, <<0, 1>>, f) = FoldFunctionOnSet(Added, <<0, 1>>, f, DOMAIN f)
  BY DEF FoldFunction

LEMMA ShareTimes ==
    ASSUME NEW amount \in Nat, NEW ratio \in Ratios
    PROVE  Times(<<amount, 1>>, ratio) \in Shares
  <1>1. PICK a \in Pos, b \in Pos : ratio = <<a, b>>
    BY DEF Ratios
  <1>2. amount * a \in Nat /\ 1 * b \in Pos
    BY DEF Pos
  <1> QED
    BY <1>1, <1>2 DEF Times, Shares

\* Restated on a later day, what is paid for a share is what a holder was paid for what the
\* share has become since the first day: the same part of it whenever it was paid.
LEMMA RestatedIsPart ==
    ASSUME NEW stock \in Stocks, history \in Histories, NEW on \in Int,
           NEW day \in DOMAIN history.dividends[stock]
    PROVE  LET splits == history.splits[stock]
               part == ProductOf(splits, {s \in DOMAIN splits : s <= on})
           IN  /\ part \in Ratios /\ PaidToHolder(history, stock, day) \in Shares
               /\ Restated(stock, day, on) \in Shares
               /\ day <= on => IsPart(PaidToHolder(history, stock, day), Restated(stock, day, on), part)
  <1> DEFINE splits == history.splits[stock]
             amount == history.dividends[stock][day]
             S == {s \in DOMAIN splits : s <= on}
             U == {s \in DOMAIN splits : s < day}
             V == {s \in DOMAIN splits : day <= s /\ s <= on}
             inverses == [s \in DOMAIN splits |-> <<splits[s][2], splits[s][1]>>]
  <1>1. IsHistory(splits) /\ amount \in Nat /\ day \in Nat
    BY KnownTyped DEF IsKnown
  <1>2. /\ S \in SUBSET DOMAIN splits /\ U \in SUBSET DOMAIN splits /\ V \in SUBSET DOMAIN splits
        /\ DOMAIN splits \subseteq Nat
    BY <1>1 DEF IsHistory
  <1>3. Restated(stock, day, on) = Times(<<amount, 1>>, ProductOf(inverses, V))
    BY DEF Restated
  <1>4. PaidToHolder(history, stock, day) = Times(<<amount, 1>>, Times(<<1, 1>>, ProductOf(splits, U)))
    BY DEF PaidToHolder
  <1>5. \A s \in DOMAIN splits : inverses[s] = Inverted(splits[s])
    BY DEF Inverted
  <1>6. day <= on => U \in SUBSET S /\ S \ U = V
    BY <1>1, <1>2
  <1> HIDE DEF splits, amount, S, U, V, inverses
  <1>7. \A T \in SUBSET DOMAIN splits : IsFiniteSet(T) /\ \A s \in T : splits[s] \in Ratios
    BY <1>1, FS_Subset DEF IsHistory
  <1>8. \A T \in SUBSET DOMAIN splits : ProductOf(splits, T) \in Ratios
    BY <1>7, ProductRemove
  <1>9. ProductOf(inverses, V) = Inverted(ProductOf(splits, V))
    <2>1. IsFiniteSet(V) /\ \A s \in V : splits[s] \in Ratios /\ inverses[s] = Inverted(splits[s])
      BY <1>2, <1>5, <1>7
    <2> QED
      BY <2>1, ProductOfInverses
  <1>10. PICK a \in Pos, b \in Pos : ProductOf(splits, U) = <<a, b>>
    BY <1>2, <1>8 DEF Ratios
  <1>11. PICK p \in Pos, q \in Pos : ProductOf(splits, V) = <<p, q>>
    BY <1>2, <1>8 DEF Ratios
  <1>12. PaidToHolder(history, stock, day) = <<amount * a, b>>
    <2>1. Times(<<1, 1>>, <<a, b>>) = <<a, b>> /\ 1 * b = b
      BY DEF Times, Pos
    <2> QED
      BY <1>4, <1>10, <2>1 DEF Times
  <1>13. Restated(stock, day, on) = <<amount * q, p>>
    <2>1. 1 * p = p
      BY DEF Pos
    <2> QED
      BY <1>3, <1>9, <1>11, <2>1 DEF Times, Inverted
  <1>14. PaidToHolder(history, stock, day) \in Shares /\ Restated(stock, day, on) \in Shares
    <2>1. amount * a \in Nat /\ amount * q \in Nat
      BY <1>1 DEF Pos
    <2> QED
      BY <1>12, <1>13, <2>1 DEF Shares
  <1>15. ASSUME day <= on
         PROVE  IsPart(PaidToHolder(history, stock, day), Restated(stock, day, on), ProductOf(splits, S))
    <2>1. ProductOf(splits, S) = Times(ProductOf(splits, U), ProductOf(splits, V))
      <3>1. IsFiniteSet(S) /\ \A s \in S : splits[s] \in Ratios
        BY <1>2, <1>7
      <3> QED
        BY <1>6, <1>15, <3>1, ProductOfTwo
    <2>2. ProductOf(splits, S) = <<a * p, b * q>>
      BY <1>10, <1>11, <2>1 DEF Times
    <2>3. ((amount * a) * p) * (b * q) = ((amount * q) * b) * (a * p)
      BY <1>1 DEF Pos
    <2> QED
      BY <1>12, <1>13, <2>2, <2>3 DEF IsPart
  <1>16. ProductOf(splits, S) \in Ratios
    BY <1>2, <1>8
  <1> QED
    BY <1>14, <1>15, <1>16 DEF splits, S

\* What is paid over days, as a fraction; nothing over days without a dividend.
LEMMA PaidOverTyped ==
    ASSUME NEW stock \in Stocks, history \in Histories, NEW days, NEW on \in Int
    PROVE  LET D == days \cap DOMAIN history.dividends[stock]
               f == [day \in D |-> Restated(stock, day, on)]
           IN  /\ IsFiniteSet(D) /\ D \subseteq DOMAIN history.dividends[stock]
               /\ PaidOver(stock, days, on) = FoldFunctionOnSet(Added, <<0, 1>>, f, D)
               /\ PaidOver(stock, days, on) \in Shares
               /\ PaidOver(stock, days, on)[1] > 0 => D # {}
  <1> DEFINE D == days \cap DOMAIN history.dividends[stock]
             f == [day \in D |-> Restated(stock, day, on)]
  <1>1. IsFiniteSet(D) /\ D \subseteq DOMAIN history.dividends[stock]
    BY KnownTyped, FS_Subset DEF IsKnown
  <1>2. PaidOver(stock, days, on) = FoldFunctionOnSet(Added, <<0, 1>>, f, D)
    BY DEF PaidOver, FoldFunction
  <1>3. \A day \in D : f[day] \in Shares
    BY <1>1, RestatedIsPart
  <1> HIDE DEF f, D
  <1>4. /\ FoldFunctionOnSet(Added, <<0, 1>>, f, D) = AddedsOf(f, D)[D]
        /\ AddedsOf(f, D)[D] \in Shares /\ AddedsOf(f, D)[D] = AddedStep(f, D, AddedsOf(f, D))
    BY <1>1, <1>3, AddedUnfolds
  <1>5. D = {} => AddedsOf(f, D)[D] = <<0, 1>>
    BY <1>4 DEF AddedStep
  <1> QED
    BY <1>1, <1>2, <1>4, <1>5 DEF D, f

\* What a year pays a holder is the same part, of each year that is over.
LEMMA YearsArePart ==
    ASSUME NEW stock \in Stocks, history \in Histories, NEW on \in Int,
           NEW year \in Int, year < YearOf(on)
    PROVE  LET splits == history.splits[stock]
               part == ProductOf(splits, {s \in DOMAIN splits : s <= on})
           IN  /\ part \in Ratios
               /\ PaidIn(history, stock, year) \in Shares
               /\ PaidOver(stock, DaysOfYear(year), on) \in Shares
               /\ IsPart(PaidIn(history, stock, year), PaidOver(stock, DaysOfYear(year), on), part)
  <1> DEFINE splits == history.splits[stock]
             part == ProductOf(splits, {s \in DOMAIN splits : s <= on})
             D == DaysOfYear(year) \cap DOMAIN history.dividends[stock]
             f == [day \in D |-> PaidToHolder(history, stock, day)]
             g == [day \in D |-> Restated(stock, day, on)]
  <1>1. YearLength \in Nat \ {0}
    BY RulesConstants
  <1>2. \A day \in DaysOfYear(year) : day <= on
    <2> DEFINE now == YearOf(on)
    <2>1. now \in Int /\ YearLength * now <= on
      BY <1>1, Quotient DEF YearOf
    <2> HIDE DEF now
    <2>2. year + 1 \in Int /\ year + 1 <= now
      BY <2>1 DEF now
    <2>3. YearLength * (year + 1) <= YearLength * now
      BY <1>1, <2>1, <2>2, TimesKeepsOrder
    <2> DEFINE end == (year + 1) * YearLength
    <2>4. end \in Int /\ end = YearLength * (year + 1) /\ YearLength * now \in Int
      BY <1>1, <2>1, <2>2
    <2>5. year * YearLength \in Int /\ DaysOfYear(year) = year * YearLength..end - 1
      BY <1>1 DEF DaysOfYear
    <2> HIDE DEF end
    <2> QED
      BY <2>1, <2>3, <2>4, <2>5
  <1>3. \A day \in D : /\ part \in Ratios /\ f[day] \in Shares /\ g[day] \in Shares
                       /\ IsPart(f[day], g[day], part)
    BY <1>2, RestatedIsPart
  <1>4. IsFiniteSet(D) /\ PaidOver(stock, DaysOfYear(year), on) = FoldFunctionOnSet(Added, <<0, 1>>, g, D)
    BY PaidOverTyped
  <1>5. PaidIn(history, stock, year) = FoldFunctionOnSet(Added, <<0, 1>>, f, D)
    BY DEF PaidIn, FoldFunction
  <1>6. part \in Ratios
    <2>1. {s \in DOMAIN splits : s <= on} \in SUBSET DOMAIN splits /\ IsHistory(splits)
      BY KnownTyped DEF IsKnown
    <2> HIDE DEF splits
    <2> DEFINE S == {s \in DOMAIN splits : s <= on}
    <2>2. IsFiniteSet(S) /\ \A s \in S : splits[s] \in Ratios
      BY <2>1, FS_Subset DEF IsHistory
    <2> HIDE DEF S
    <2>3. ProductOf(splits, S) \in Ratios
      BY <2>2, ProductRemove
    <2> QED
      BY <2>3 DEF S
  <1> HIDE DEF splits, part, D, f, g
  <1>7. LET fs == FoldFunctionOnSet(Added, <<0, 1>>, f, D)
            gs == FoldFunctionOnSet(Added, <<0, 1>>, g, D)
        IN  fs \in Shares /\ gs \in Shares /\ IsPart(fs, gs, part)
    BY <1>3, <1>4, <1>6, SumsOfParts
  <1> QED
    BY <1>4, <1>5, <1>6, <1>7 DEF part, splits

\* What the review asks of a stock, as the holder sees it.
GrewIn(h, stock, year) ==
    LET first == year - GrowthYears - 1
    IN  /\ \A y \in first..year - 1 : PaidIn(h, stock, y)[1] > 0
        /\ NotBelow(PaidIn(h, stock, year - 1), PaidIn(h, stock, first))

LEMMA PassedIsGrown ==
    ASSUME NEW stock, NEW t \in Tradables, NEW day \in Int, history \in Histories,
           Passes(stock, t, day)
    PROVE  /\ stock \in Stocks
           /\ GrewIn(history, stock, YearOf(day))
           /\ DOMAIN history.dividends[stock] \cap DaysOfYear(YearOf(day) - 1) # {}
  <1> DEFINE year == YearOf(day)
             first == year - GrowthYears - 1
             total(y) == PaidOver(stock, DaysOfYear(y), day)
             splits == history.splits[stock]
             part == ProductOf(splits, {s \in DOMAIN splits : s <= day})
  <1>1. /\ stock \in t.members
        /\ \A y \in first..year - 1 : total(y)[1] > 0
        /\ NotBelow(total(year - 1), total(first))
    BY DEF Passes
  <1>2. stock \in Stocks
    BY <1>1, StrategiesConstants
  <1>3. year \in Int /\ GrowthYears \in Nat \ {0}
    BY RulesConstants, StrategiesConstants, Quotient DEF YearOf
  <1>4. \A y \in first..year - 1 : /\ y \in Int /\ y < year /\ part \in Ratios
                                   /\ PaidIn(history, stock, y) \in Shares /\ total(y) \in Shares
                                   /\ IsPart(PaidIn(history, stock, y), total(y), part)
    <2> TAKE y \in first..year - 1
    <2>1. y \in Int /\ y < year
      BY <1>3
    <2> QED
      BY <1>2, <2>1, YearsArePart
  <1>5. year - 1 \in first..year - 1 /\ first \in first..year - 1
    BY <1>3
  <1>6. total(year - 1)[1] > 0
    BY <1>1, <1>5
  <1>7. DaysOfYear(year - 1) \cap DOMAIN history.dividends[stock] # {}
    BY <1>2, <1>6, PaidOverTyped
  <1> HIDE DEF first, year, total, part
  <1>8. \A y \in first..year - 1 : PaidIn(history, stock, y)[1] > 0
    BY <1>1, <1>4, PartsKeepOrder
  <1>9. NotBelow(PaidIn(history, stock, year - 1), PaidIn(history, stock, first))
    BY <1>1, <1>4, <1>5, PartsKeepOrder
  <1> QED
    BY <1>2, <1>7, <1>8, <1>9 DEF GrewIn, first, year

-----------------------------------------------------------------------------
(* The stock picked next.                                                  *)

\* Of two fractions one is not below the other.
LEMMA OneIsNotBelow ==
    ASSUME NEW a \in Shares, NEW b \in Shares
    PROVE  NotBelow(a, b) \/ NotBelow(b, a)
  <1>1. PICK m \in Nat, n \in Pos, p \in Nat, q \in Pos : a = <<m, n>> /\ b = <<p, q>>
    BY DEF Shares
  <1>2. m * q \in Nat /\ p * n \in Nat
    BY DEF Pos
  <1> QED
    BY <1>1, <1>2 DEF NotBelow

\* The order of the picks: by how crowded, then by how much it yields, then by its name.
Before(crowd, yield, a, b) ==
    \/ crowd[a] < crowd[b]
    \/ /\ crowd[a] = crowd[b]
       /\ \/ ~NotBelow(yield[b], yield[a])
          \/ NotBelow(yield[b], yield[a]) /\ NotBelow(yield[a], yield[b]) /\ a < b

LEMMA OneIsBefore ==
    ASSUME NEW U \in SUBSET Nat, NEW crowd \in [U -> Int], NEW yield \in [U -> Shares],
           NEW a \in U, NEW b \in U, a # b
    PROVE  Before(crowd, yield, a, b) \/ Before(crowd, yield, b, a)
  <1>1. NotBelow(yield[a], yield[b]) \/ NotBelow(yield[b], yield[a])
    BY OneIsNotBelow
  <1>2. crowd[a] \in Int /\ crowd[b] \in Int /\ a \in Nat /\ b \in Nat
    OBVIOUS
  <1> QED
    BY <1>1, <1>2 DEF Before

LEMMA BeforeAny ==
    ASSUME NEW U \in SUBSET Nat, NEW crowd \in [U -> Int], NEW yield \in [U -> Shares],
           NEW a \in U, NEW b \in U, NEW c \in U,
           Before(crowd, yield, a, b), Before(crowd, yield, b, c)
    PROVE  Before(crowd, yield, a, c)
  <1>1. /\ crowd[a] \in Int /\ crowd[b] \in Int /\ crowd[c] \in Int
        /\ a \in Nat /\ b \in Nat /\ c \in Nat
    OBVIOUS
  <1>2. yield[a] \in Signed /\ yield[b] \in Signed /\ yield[c] \in Signed
    BY DEF Shares, Signed
  <1> DEFINE nb(x, y) == NotBelow(yield[x], yield[y])
  <1>3. \A x, y, z \in {a, b, c} : nb(x, y) /\ nb(y, z) => nb(x, z)
    BY <1>2, NotBelowAny
  <1>4. \A x, y \in {a, b, c} : nb(x, y) \/ nb(y, x)
    BY OneIsNotBelow
  <1>5. \/ crowd[a] < crowd[b]
        \/ crowd[a] = crowd[b] /\ (~nb(b, a) \/ (nb(b, a) /\ nb(a, b) /\ a < b))
    BY DEF Before
  <1>6. \/ crowd[b] < crowd[c]
        \/ crowd[b] = crowd[c] /\ (~nb(c, b) \/ (nb(c, b) /\ nb(b, c) /\ b < c))
    BY DEF Before
  <1> HIDE DEF nb
  <1>7. \/ crowd[a] < crowd[c]
        \/ crowd[a] = crowd[c] /\ (~nb(c, a) \/ (nb(c, a) /\ nb(a, c) /\ a < c))
    <2>1. CASE crowd[a] < crowd[b] \/ crowd[b] < crowd[c]
      BY <1>1, <1>5, <1>6, <2>1
    <2>2. CASE crowd[a] = crowd[b] /\ crowd[b] = crowd[c]
      <3>1. nb(a, b) /\ nb(b, c)
        BY <1>1, <1>4, <1>5, <1>6, <2>2
      <3>2. nb(a, c)
        BY <1>3, <3>1
      <3>3. CASE ~nb(c, a)
        BY <2>2, <3>3
      <3>4. CASE nb(c, a)
        <4>1. nb(c, b) /\ nb(b, a)
          BY <1>3, <3>1, <3>4
        <4>2. a < b /\ b < c
          BY <1>1, <1>5, <1>6, <2>2, <4>1
        <4> QED
          BY <1>1, <2>2, <3>2, <3>4, <4>2
      <3> QED
        BY <3>3, <3>4
    <2> QED
      BY <1>1, <1>5, <1>6, <2>1, <2>2
  <1> QED
    BY <1>7 DEF Before, nb

\* Of some stocks there is one before all others.
LEMMA FirstOf ==
    ASSUME NEW U \in SUBSET Nat, IsFiniteSet(U), U # {},
           NEW crowd \in [U -> Int], NEW yield \in [U -> Shares]
    PROVE  \E a \in U : \A b \in U \ {a} : Before(crowd, yield, a, b)
  <1> DEFINE P == {T \in SUBSET U : T = {} \/ \E a \in T : \A b \in T \ {a} : Before(crowd, yield, a, b)}
  <1>1. {} \in P
    OBVIOUS
  <1>2. ASSUME NEW T \in SUBSET U, NEW x \in U \ T, T \in P PROVE T \union {x} \in P
    <2>1. CASE T = {}
      BY <2>1
    <2>2. CASE T # {}
      <3>1. PICK a \in T : \A b \in T \ {a} : Before(crowd, yield, a, b)
        BY <1>2, <2>2
      <3>2. CASE Before(crowd, yield, a, x)
        <4>1. \A b \in (T \union {x}) \ {a} : Before(crowd, yield, a, b)
          BY <3>1, <3>2
        <4> QED
          BY <4>1
      <3>3. CASE Before(crowd, yield, x, a)
        <4>1. ASSUME NEW b \in (T \union {x}) \ {x} PROVE Before(crowd, yield, x, b)
          <5>1. CASE b = a
            BY <3>3, <5>1
          <5>2. CASE b # a
            <6>1. Before(crowd, yield, a, b) /\ a \in U /\ b \in U
              BY <3>1, <4>1, <5>2
            <6> QED
              BY <3>3, <6>1, BeforeAny
          <5> QED
            BY <5>1, <5>2
        <4> QED
          BY <4>1
      <3>4. a \in U /\ x # a
        BY <1>2
      <3> QED
        BY <3>2, <3>3, <3>4, OneIsBefore
    <2> QED
      BY <2>1, <2>2
  <1> HIDE DEF P
  <1>3. U \in P
    BY <1>1, <1>2, Subsets
  <1> QED
    BY <1>3 DEF P

LEMMA YieldTyped ==
    ASSUME NEW stock \in Stocks, history \in Histories, NEW day \in Int
    PROVE  TrailingYield(stock, day) \in Shares
  <1> DEFINE paid == PaidOver(stock, {d \in 0..day : d > day - TrailingDays}, day)
             close == history.close[stock]
  <1>1. paid \in Shares /\ close \in Nat
    BY PaidOverTyped, KnownTyped DEF IsKnown
  <1>2. TrailingYield(stock, day) = IF close = 0 THEN <<0, 1>> ELSE Times(paid, <<1, close>>)
    BY DEF TrailingYield
  <1> HIDE DEF paid, close
  <1>3. PICK m \in Nat, n \in Pos : paid = <<m, n>>
    BY <1>1 DEF Shares
  <1>4. CASE close = 0
    BY <1>2, <1>4 DEF Shares, Pos
  <1>5. CASE close # 0
    <2>1. n * close \in Pos /\ m * 1 \in Nat
      BY <1>1, <1>5 DEF Pos
    <2> QED
      BY <1>2, <1>3, <1>5, <2>1 DEF Shares, Times
  <1> QED
    BY <1>4, <1>5

-----------------------------------------------------------------------------
(* The picks.                                                              *)

\* A set that grows by one stock of those left at a time: unless they run out it has as many
\* as it had turns, whatever the choice.
PickStep(next, i, picks) == IF i = 0 THEN {} ELSE picks[i - 1] \union {next[picks[i - 1]]}

LEMMA PicksUnfold ==
    ASSUME NEW candidates, IsFiniteSet(candidates), NEW n \in Nat, n <= Cardinality(candidates),
           NEW next, \A some \in SUBSET candidates :
                some # candidates => next[some] \in candidates \ some
    PROVE  LET picks == CHOOSE h : h = [i \in 0..n |-> PickStep(next, i, h)]
           IN  picks[n] \in SUBSET candidates /\ Cardinality(picks[n]) = n
  <1> DEFINE V == SUBSET candidates
             F == [p \in (1..n) \X V |->
                     IF p[2] = candidates THEN p[2] ELSE p[2] \union {next[p[2]]}]
             none == {}
  <1>1. none \in V /\ F \in [(1..n) \X V -> V]
    OBVIOUS
  <1>2. \A i \in 1..n, some \in V : some # candidates => F[<<i, some>>] = some \union {next[some]}
    OBVIOUS
  <1>3. \A some \in V : IsFiniteSet(some) /\ Cardinality(some) \in Nat
    BY FS_Subset, FS_CardinalityType
  <1> HIDE DEF F, none
  <1>4. PICK g : Steps(g, n, V, none, F)
    BY <1>1, StepByStep
  \* After i turns there are i, so that some are left.
  <1>5. ASSUME NEW some \in V, Cardinality(some) < n
        PROVE  /\ some # candidates
               /\ some \union {next[some]} \in V
               /\ Cardinality(some \union {next[some]}) = Cardinality(some) + 1
    <2>1. some # candidates /\ Cardinality(candidates) \in Nat
      BY <1>3, <1>5
    <2>2. next[some] \in candidates \ some
      BY <2>1
    <2>3. Cardinality(some \union {next[some]}) = Cardinality(some) + 1
      BY <1>3, <2>2, FS_AddElement
    <2> QED
      BY <2>1, <2>2, <2>3
  <1> DEFINE Grows(h) == {i \in Nat : i <= n => h[i] \in V /\ Cardinality(h[i]) = i}
  <1>6. Nat \subseteq Grows(g)
    <2>1. 0 \in Grows(g)
      BY <1>1, <1>4, FS_EmptySet DEF Steps, none
    <2>2. ASSUME NEW i \in Nat, i \in Grows(g) PROVE i + 1 \in Grows(g)
      <3>1. SUFFICES ASSUME i + 1 <= n PROVE g[i + 1] \in V /\ Cardinality(g[i + 1]) = i + 1
        OBVIOUS
      <3>2. g[i] \in V /\ Cardinality(g[i]) = i /\ i < n
        BY <2>2, <3>1
      <3>3. i + 1 \in 1..n /\ (i + 1) - 1 = i
        BY <3>1
      <3>4. g[i + 1] = F[<<i + 1, g[i]>>]
        BY <1>4, <3>3 DEF Steps
      <3> QED
        BY <1>2, <1>5, <3>2, <3>3, <3>4
    <2> HIDE DEF Grows
    <2> QED
      BY <2>1, <2>2, Naturals
  <1>7. g = [i \in 0..n |-> PickStep(next, i, g)]
    <2>1. ASSUME NEW i \in 0..n PROVE g[i] = PickStep(next, i, g)
      <3>1. CASE i = 0
        BY <1>4, <3>1 DEF Steps, PickStep, none
      <3>2. CASE i # 0
        <4>1. i \in 1..n /\ i - 1 \in Nat /\ i - 1 < n
          BY <3>2
        <4>2. g[i - 1] \in V /\ Cardinality(g[i - 1]) = i - 1
          BY <1>6, <4>1
        <4>3. g[i] = F[<<i, g[i - 1]>>]
          BY <1>4, <4>1 DEF Steps
        <4> QED
          BY <1>2, <1>5, <3>2, <4>1, <4>2, <4>3 DEF PickStep
      <3> QED
        BY <3>1, <3>2
    <2> QED
      BY <1>4, <2>1 DEF Steps
  <1> DEFINE picks == CHOOSE h : h = [i \in 0..n |-> PickStep(next, i, h)]
  <1>8. picks = [i \in 0..n |-> PickStep(next, i, picks)]
    BY <1>7
  <1> HIDE DEF picks
  <1>9. \A i \in 0..n : picks[i] = PickStep(next, i, picks)
    BY <1>8
  <1>10. Nat \subseteq Grows(picks)
    <2>1. 0 \in Grows(picks)
      <3>1. 0 \in 0..n /\ PickStep(next, 0, picks) = {}
        BY DEF PickStep
      <3>2. picks[0] = {}
        BY <1>9, <3>1
      <3> QED
        BY <3>2, FS_EmptySet
    <2>2. ASSUME NEW i \in Nat, i \in Grows(picks) PROVE i + 1 \in Grows(picks)
      <3>1. SUFFICES ASSUME i + 1 <= n PROVE picks[i + 1] \in V /\ Cardinality(picks[i + 1]) = i + 1
        OBVIOUS
      <3>2. picks[i] \in V /\ Cardinality(picks[i]) = i /\ i < n
        BY <2>2, <3>1
      <3>3. i + 1 \in 0..n /\ (i + 1) - 1 = i /\ i + 1 # 0
        BY <3>1
      <3>4. picks[i + 1] = picks[i] \union {next[picks[i]]}
        BY <1>9, <3>3 DEF PickStep
      <3> QED
        BY <1>5, <3>2, <3>4
    <2> HIDE DEF Grows
    <2> QED
      BY <2>1, <2>2, Naturals
  <1>11. picks[n] \in V /\ Cardinality(picks[n]) = n
    BY <1>10
  <1> QED
    BY <1>11 DEF picks

\* Of candidates that each paid in some month of the year before, MaxStocks are picked.
LEMMA SpreadPicks ==
    ASSUME NEW candidates \in SUBSET Stocks, MaxStocks < Cardinality(candidates),
           history \in Histories, NEW day \in Int,
           \A stock \in candidates : DOMAIN history.dividends[stock] \cap DaysOfYear(YearOf(day) - 1) # {}
    PROVE  Spread(candidates, day) \in SUBSET candidates /\ Cardinality(Spread(candidates, day)) = MaxStocks
  <1> DEFINE months == [stock \in candidates |->
                {Month(AddTradingDays(Calendar, d, PayLag)) % (YearLength \div MonthLength) :
                    d \in DOMAIN history.dividends[stock] \cap DaysOfYear(YearOf(day) - 1)}]
             crowding(picked, stock) ==
                Min({Cardinality({other \in picked : month \in months[other]}) : month \in months[stock]})
             better(picked, a, b) ==
                \/ crowding(picked, a) < crowding(picked, b)
                \/ /\ crowding(picked, a) = crowding(picked, b)
                   /\ \/ ~NotBelow(TrailingYield(b, day), TrailingYield(a, day))
                      \/ NotBelow(TrailingYield(b, day), TrailingYield(a, day))
                         /\ NotBelow(TrailingYield(a, day), TrailingYield(b, day)) /\ a < b
             next == [picked \in SUBSET candidates |->
                CHOOSE a \in candidates \ picked :
                    \A b \in candidates \ (picked \union {a}) : better(picked, a, b)]
             picks == CHOOSE h : h = [i \in 0..MaxStocks |-> PickStep(next, i, h)]
  <1>1. IsFiniteSet(candidates) /\ candidates \in SUBSET Nat /\ MaxStocks \in Nat
    BY StrategiesConstants, FS_Subset
  <1>2. Spread(candidates, day) = picks[MaxStocks]
    BY DEF Spread, PickStep
  <1>3. \A stock \in candidates : months[stock] # {}
    OBVIOUS
  <1> HIDE DEF months
  <1>4. ASSUME NEW picked \in SUBSET candidates, NEW stock \in candidates
        PROVE  crowding(picked, stock) \in Nat
    <2> DEFINE counts == {Cardinality({other \in picked : month \in months[other]}) : month \in months[stock]}
    <2>1. \A month \in months[stock] : Cardinality({other \in picked : month \in months[other]}) \in Nat
      <3> TAKE month \in months[stock]
      <3>1. IsFiniteSet({other \in picked : month \in months[other]})
        BY <1>1, FS_Subset
      <3> QED
        BY <3>1, FS_CardinalityType
    <2>2. counts \in SUBSET Nat /\ counts # {}
      BY <1>3, <2>1
    <2> HIDE DEF counts
    <2>3. PICK m \in counts : \A k \in counts : m <= k
      BY <2>2, Least
    <2>4. Min(counts) = m
      BY <2>2, <2>3, LeastIs
    <2> QED
      BY <2>2, <2>4 DEF counts
  <1>5. ASSUME NEW picked \in SUBSET candidates, picked # candidates
        PROVE  next[picked] \in candidates \ picked
    <2> DEFINE U == candidates \ picked
               crowd == [stock \in U |-> crowding(picked, stock)]
               yield == [stock \in U |-> TrailingYield(stock, day)]
    <2>1. U \in SUBSET Nat /\ IsFiniteSet(U) /\ U # {}
      BY <1>1, <1>5, FS_Subset
    <2>2. crowd \in [U -> Int]
      <3>1. ASSUME NEW stock \in U PROVE crowding(picked, stock) \in Int
        <4>1. stock \in candidates
          OBVIOUS
        <4> HIDE DEF U, crowding
        <4>2. crowding(picked, stock) \in Nat
          BY <1>4, <4>1
        <4> QED
          BY <4>2
      <3> HIDE DEF U, crowding
      <3> QED
        BY <3>1
    <2>3. yield \in [U -> Shares]
      <3>1. \A stock \in U : TrailingYield(stock, day) \in Shares
        BY YieldTyped
      <3> HIDE DEF U
      <3> QED
        BY <3>1
    <2> HIDE DEF crowding
    <2>4. \A a, b \in U : Before(crowd, yield, a, b) <=> better(picked, a, b)
      BY DEF Before
    <2> HIDE DEF crowd, yield, better
    <2>5. PICK a \in U : \A b \in U \ {a} : Before(crowd, yield, a, b)
      <3> HIDE DEF U
      <3> QED
        BY <2>1, <2>2, <2>3, FirstOf
    <2>6. \A b \in candidates \ (picked \union {a}) : better(picked, a, b)
      <3> TAKE b \in candidates \ (picked \union {a})
      <3>1. b \in U \ {a} /\ b \in U
        OBVIOUS
      <3> HIDE DEF U
      <3> QED
        BY <2>4, <2>5, <3>1
    <2>7. a \in candidates \ picked
      OBVIOUS
    <2> QED
      BY <2>6, <2>7
  <1> HIDE DEF crowding, better, next
  <1>6. \A some \in SUBSET candidates : some # candidates => next[some] \in candidates \ some
    BY <1>5
  <1>7. picks[MaxStocks] \in SUBSET candidates /\ Cardinality(picks[MaxStocks]) = MaxStocks
    <2>1. MaxStocks <= Cardinality(candidates)
      BY <1>1, FS_CardinalityType
    <2> QED
      BY <1>1, <1>6, <2>1, PicksUnfold
  <1> HIDE DEF picks
  <1> QED
    BY <1>2, <1>7

\* A review picks no more stocks than it may, and only those whose dividends grew.
LEMMA ReviewPicks ==
    ASSUME NEW p, NEW t \in Tradables, NEW day \in Int, history \in Histories
    PROVE  \E S \in SUBSET Stocks :
                /\ Review(p, t, day).memory = [set |-> S, year |-> YearOf(day)]
                /\ Cardinality(S) <= MaxStocks
                /\ \A stock \in S : GrewIn(history, stock, YearOf(day))
  <1> DEFINE candidates == {stock \in t.buyable \cup DOMAIN p.held : Passes(stock, t, day)}
             picked == IF Cardinality(candidates) <= MaxStocks THEN candidates ELSE Spread(candidates, day)
  <1>1. Review(p, t, day).memory = [set |-> picked, year |-> YearOf(day)]
    BY DEF Review
  <1>2. \A stock \in candidates : Passes(stock, t, day)
    OBVIOUS
  <1> HIDE DEF candidates
  <1>3. \A stock \in candidates :
            /\ stock \in Stocks /\ GrewIn(history, stock, YearOf(day))
            /\ DOMAIN history.dividends[stock] \cap DaysOfYear(YearOf(day) - 1) # {}
    BY <1>2, PassedIsGrown
  <1>4. candidates \in SUBSET Stocks /\ Cardinality(candidates) \in Nat /\ MaxStocks \in Nat
    <2>1. candidates \in SUBSET Stocks /\ IsFiniteSet(Stocks) /\ MaxStocks \in Nat
      BY <1>3, StrategiesConstants
    <2> QED
      BY <2>1, FS_Subset, FS_CardinalityType
  <1>5. picked \in SUBSET candidates /\ Cardinality(picked) <= MaxStocks
    <2>1. CASE Cardinality(candidates) <= MaxStocks
      BY <2>1
    <2>2. CASE MaxStocks < Cardinality(candidates)
      <3>1. Spread(candidates, day) \in SUBSET candidates /\ Cardinality(Spread(candidates, day)) = MaxStocks
        BY <1>3, <1>4, <2>2, SpreadPicks
      <3> QED
        BY <1>4, <2>2, <3>1
    <2> QED
      BY <1>4, <2>1, <2>2
  <1> HIDE DEF picked
  <1> QED
    BY <1>1, <1>3, <1>4, <1>5

\* What dividend-growth remembers: nothing yet, or the picks of a review and its year.
PicksGrew(h, memo) ==
    \/ memo = <<>>
    \/ \E S \in SUBSET Stocks, year \in Int :
        /\ memo = [set |-> S, year |-> year]
        /\ Cardinality(S) <= MaxStocks
        /\ \A stock \in S : GrewIn(h, stock, year)

\* The inductive invariant: the history is one of those that may have happened, from the
\* first day to the last, so that what a review saw of it stays true.
PicksInv ==
    /\ today \in Int
    /\ strategy = "none" => memory = <<>>
    /\ strategy # "none" => history \in Histories
    /\ strategy = "dividend-growth" => PicksGrew(history, memory)

LEMMA DecidedPicks ==
    ASSUME NEW p, NEW t \in Tradables, NEW day \in Int, history \in Histories,
           PicksGrew(history, memory)
    PROVE  PicksGrew(history, DividendGrowth(p, t, day).memory)
  <1>1. CASE Remembers("year") /\ memory.year = YearOf(day)
    BY <1>1 DEF DividendGrowth, Between
  <1>2. CASE ~(Remembers("year") /\ memory.year = YearOf(day))
    <2>1. DividendGrowth(p, t, day) = Review(p, t, day)
      BY <1>2 DEF DividendGrowth
    <2>2. YearOf(day) \in Int
      BY RulesConstants, Quotient DEF YearOf
    <2> QED
      BY <2>1, <2>2, ReviewPicks DEF PicksGrew
  <1> QED
    BY <1>1, <1>2

LEMMA PicksInvHolds == SSpec => []PicksInv
  <1>1. SInit => PicksInv
    BY StrategiesConstants DEF SInit, PicksInv
  <1>2. PicksInv /\ [SNext]_svars => PicksInv'
    <2> SUFFICES ASSUME PicksInv, [SNext]_svars PROVE PicksInv'
      OBVIOUS
    <2> USE DEF PicksInv
    <2>1. CASE UNCHANGED svars
      BY <2>1 DEF svars
    <2>2. ASSUME NEW name \in {"buy-and-hold", "monthly-savings", "dividend-growth"},
                 NEW events \in Histories, Begin(name, events)
          PROVE  PicksInv'
      BY <2>2 DEF Begin, PicksGrew
    <2>3. ASSUME NEW p \in Portfolios, NEW t \in Tradables, Decide(p, t)
          PROVE  PicksInv'
      <3>1. /\ strategy # "none" /\ strategy' = strategy /\ history' = history /\ today' = today
            /\ strategy = "dividend-growth" => memory' = DividendGrowth(p, t, today).memory
        BY <2>3 DEF Decide
      <3>2. strategy = "dividend-growth" => PicksGrew(history, memory')
        BY <3>1, DecidedPicks
      <3> QED
        BY <3>1, <3>2
    <2>4. CASE NextDay
      BY <2>4 DEF NextDay
    <2> QED
      BY <2>1, <2>2, <2>3, <2>4 DEF SNext
  <1> QED
    BY <1>1, <1>2, PTL DEF SSpec

\* What dividend-growth holds grew: whatever it was asked and whenever, it picks no more
\* stocks than it may, each paid dividends in every year it looks at, and in the last of them
\* no less than in the first to a holder who kept his shares through every split.
THEOREM PicksGrewForHolders == SSpec => []PickedDividendsGrew
  <1>1. PicksInv => PickedDividendsGrew
    <2> SUFFICES ASSUME PicksInv, strategy = "dividend-growth", memory # <<>>
                 PROVE  /\ Cardinality(memory.set) <= MaxStocks
                        /\ \A stock \in memory.set :
                            LET first == memory.year - GrowthYears - 1
                                paid(year) == HolderPaid(stock, 1, year)
                            IN  /\ \A year \in first..memory.year - 1 : paid(year)[1] > 0
                                /\ NotBelow(paid(memory.year - 1), paid(first))
      BY DEF PickedDividendsGrew
    <2>1. /\ Cardinality(memory.set) <= MaxStocks
          /\ \A stock \in memory.set : GrewIn(history, stock, memory.year)
      BY DEF PicksInv, PicksGrew
    <2> QED
      BY <2>1, PaidIs DEF GrewIn
  <1> QED
    BY <1>1, PicksInvHolds, PTL

-----------------------------------------------------------------------------
(* Decimals: the powers of ten, and what the roundings may take off.        *)

TensStep(i, g) == IF i = 0 THEN 1 ELSE 10 * g[i - 1]

\* The powers of ten, each ten times the one before.
LEMMA TensAre ==
    /\ Digits + 4 \in Nat /\ Digits \in Nat \ {0}
    /\ Tens \in [0..Digits + 4 -> Nat \ {0}] /\ Tens[0] = 1
    /\ \A i \in 1..Digits + 4 : Tens[i] = 10 * Tens[i - 1]
  <1> DEFINE n == Digits + 4
             V == Nat \ {0}
             F == [p \in (1..n) \X V |-> 10 * p[2]]
  <1>1. n \in Nat /\ Digits \in Nat \ {0} /\ n = Digits + 4
    BY StrategiesConstants
  <1>2. 1 \in V /\ F \in [(1..n) \X V -> V] /\ \A i \in 1..n, v \in V : F[<<i, v>>] = 10 * v
    OBVIOUS
  <1>3. Tens = CHOOSE g : g = [i \in 0..n |-> TensStep(i, g)]
    BY DEF Tens, TensStep
  <1> HIDE DEF F, n, V
  <1>4. PICK h : Steps(h, n, V, 1, F)
    BY <1>1, <1>2, StepByStep
  <1>5. h = [i \in 0..n |-> TensStep(i, h)]
    <2>1. h \in [0..n -> V] /\ h[0] = 1 /\ \A i \in 1..n : h[i] = F[<<i, h[i - 1]>>]
      BY <1>4 DEF Steps
    <2>2. ASSUME NEW i \in 0..n PROVE h[i] = TensStep(i, h)
      <3>1. CASE i = 0
        BY <2>1, <3>1 DEF TensStep
      <3>2. CASE i # 0
        <4>1. i \in 1..n /\ i - 1 \in 0..n
          BY <1>1, <3>2
        <4>2. h[i] = F[<<i, h[i - 1]>>] /\ h[i - 1] \in V
          BY <2>1, <4>1
        <4> QED
          BY <1>2, <3>2, <4>1, <4>2 DEF TensStep
      <3> QED
        BY <3>1, <3>2
    <2> QED
      BY <2>1, <2>2
  <1>6. Tens = [i \in 0..n |-> TensStep(i, Tens)]
    BY <1>3, <1>5
  <1>7. /\ DOMAIN Tens = 0..n
        /\ \A i \in 0..n : Tens[i] = TensStep(i, Tens)
    BY <1>6
  <1>8. Tens[0] = 1 /\ \A i \in 1..n : Tens[i] = 10 * Tens[i - 1]
    BY <1>1, <1>7 DEF TensStep
  <1>9. Nat \subseteq {i \in Nat : i <= n => Tens[i] \in V}
    <2> DEFINE Good == {i \in Nat : i <= n => Tens[i] \in V}
    <2>1. 0 \in Good
      BY <1>8 DEF V
    <2>2. ASSUME NEW i \in Nat, i \in Good PROVE i + 1 \in Good
      <3>1. SUFFICES ASSUME i + 1 <= n PROVE Tens[i + 1] \in V
        OBVIOUS
      <3>2. Tens[i] \in V /\ i + 1 \in 1..n /\ (i + 1) - 1 = i
        BY <1>1, <2>2, <3>1
      <3> QED
        BY <1>8, <3>2 DEF V
    <2> HIDE DEF Good
    <2>3. Nat \subseteq Good
      BY <2>1, <2>2, Naturals
    <2> QED
      BY <2>3 DEF Good
  <1>10. \A i \in 0..n : Tens[i] \in V
    BY <1>1, <1>9
  <1> QED
    BY <1>1, <1>6, <1>7, <1>8, <1>10 DEF V, n

\* They multiply.
LEMMA TensTimes ==
    ASSUME NEW a \in Nat, NEW b \in Nat, a + b <= Digits + 4
    PROVE  Tens[a + b] = Tens[a] * Tens[b] /\ Tens[a] \in Nat \ {0} /\ Tens[b] \in Nat \ {0}
  <1> DEFINE n == Digits + 4
             P == {c \in Nat : a + c <= n => Tens[a + c] = Tens[a] * Tens[c]}
  <1>1. /\ n \in Nat /\ \A i \in 0..n : Tens[i] \in Nat \ {0}
        /\ Tens[0] = 1 /\ \A i \in 1..n : Tens[i] = 10 * Tens[i - 1]
    BY TensAre
  <1>2. a + b <= n
    OBVIOUS
  <1> HIDE DEF n
  <1>3. 0 \in P
    <2>1. SUFFICES ASSUME a + 0 <= n PROVE Tens[a + 0] = Tens[a] * Tens[0]
      OBVIOUS
    <2>2. a \in 0..n /\ a + 0 = a
      BY <1>1, <2>1
    <2>3. Tens[a] \in Nat
      BY <1>1, <2>2
    <2> QED
      BY <1>1, <2>2, <2>3
  <1>4. ASSUME NEW c \in Nat, c \in P PROVE c + 1 \in P
    <2>1. SUFFICES ASSUME a + (c + 1) <= n PROVE Tens[a + (c + 1)] = Tens[a] * Tens[c + 1]
      OBVIOUS
    <2>2. /\ a \in 0..n /\ c \in 0..n /\ c + 1 \in 1..n /\ a + (c + 1) \in 1..n
          /\ (c + 1) - 1 = c /\ (a + (c + 1)) - 1 = a + c /\ a + c <= n
      BY <1>1, <2>1
    <2>3. Tens[c + 1] = 10 * Tens[c] /\ Tens[a + (c + 1)] = 10 * Tens[a + c]
      BY <1>1, <2>2
    <2>4. Tens[a + c] = Tens[a] * Tens[c] /\ Tens[a] \in Nat /\ Tens[c] \in Nat
      BY <1>1, <1>4, <2>2
    <2> QED
      BY <2>3, <2>4
  <1> HIDE DEF P
  <1>5. b \in P
    BY <1>3, <1>4, Naturals
  <1>6. a \in 0..n /\ b \in 0..n
    BY <1>1, <1>2
  <1> QED
    BY <1>1, <1>2, <1>5, <1>6 DEF P, n

\* More zeros is no less.
LEMMA TensRise ==
    ASSUME NEW a \in Nat, NEW b \in Nat, a <= b, b <= Digits + 4
    PROVE  Tens[a] <= Tens[b]
  <1>1. b - a \in Nat /\ a + (b - a) = b
    OBVIOUS
  <1> DEFINE c == b - a
  <1> HIDE DEF c
  <1>2. c \in Nat /\ a + c = b
    BY <1>1 DEF c
  <1>3. Tens[b] = Tens[a] * Tens[c] /\ Tens[a] \in Nat \ {0} /\ Tens[c] \in Nat \ {0}
    BY <1>2, TensTimes
  <1>4. Tens[a] * 1 <= Tens[a] * Tens[c]
    BY <1>3, TimesKeepsOrder
  <1> QED
    BY <1>3, <1>4

\* A decimal has no more places than a ratio is kept to; its parts are those of the last one.
Places == Digits + 2
One == Tens[Places]
Decimals == {a \in Nat \X Nat : a[2] <= Places}
Parts(a) == a[1] * Tens[Places - a[2]]

LEMMA OneIs ==
    /\ Places \in Nat /\ Places <= Digits + 4 /\ One \in Nat /\ 1000 <= One
    /\ Tens[0] = 1 /\ Tens[3] = 1000
    /\ One = 100 * Tens[Digits] /\ Tens[Digits] \in Nat
  <1>1. /\ Digits \in Nat \ {0}
        /\ \A i \in 0..Digits + 4 : Tens[i] \in Nat \ {0}
        /\ Tens[0] = 1 /\ \A i \in 1..Digits + 4 : Tens[i] = 10 * Tens[i - 1]
    BY TensAre
  <1>2. Tens[1] = 10 * Tens[0] /\ Tens[2] = 10 * Tens[1] /\ Tens[3] = 10 * Tens[2]
    <2>1. 1 \in 1..Digits + 4 /\ 2 \in 1..Digits + 4 /\ 3 \in 1..Digits + 4 /\ 1 - 1 = 0 /\ 2 - 1 = 1 /\ 3 - 1 = 2
      BY <1>1
    <2> QED
      BY <1>1, <2>1
  <1>3. Tens[3] <= Tens[Digits + 2]
    BY <1>1, TensRise
  <1>4. /\ Digits + 1 \in 1..Digits + 4 /\ (Digits + 1) - 1 = Digits
        /\ Digits + 2 \in 1..Digits + 4 /\ (Digits + 2) - 1 = Digits + 1
        /\ Digits \in 0..Digits + 4 /\ Digits + 2 \in 0..Digits + 4
    BY <1>1
  <1>5. Tens[Digits + 1] = 10 * Tens[Digits] /\ Tens[Digits + 2] = 10 * Tens[Digits + 1]
    BY <1>1, <1>4
  <1>6. Tens[Digits] \in Nat /\ Tens[Digits + 2] \in Nat
    BY <1>1, <1>4
  <1> QED
    BY <1>1, <1>2, <1>3, <1>5, <1>6 DEF Places, One

LEMMA PartsAre ==
    ASSUME NEW a \in Decimals
    PROVE  /\ Parts(a) \in Nat /\ a[1] \in Nat /\ a[2] \in Nat /\ a[2] <= Places
           /\ Parts(a) = Grown(a, Places)
           /\ \A e \in a[2]..Places : Grown(a, e) \in Nat /\ Parts(a) = Grown(a, e) * Tens[Places - e]
  <1>1. a[1] \in Nat /\ a[2] \in Nat /\ a[2] <= Places
    BY DEF Decimals
  <1>2. Places \in Nat /\ Places <= Digits + 4 /\ Digits + 4 \in Nat
    BY OneIs, TensAre
  <1>3. ASSUME NEW e \in a[2]..Places
        PROVE  Grown(a, e) \in Nat /\ Parts(a) = Grown(a, e) * Tens[Places - e]
    <2> DEFINE x == e - a[2]
               y == Places - e
    <2>1. x \in Nat /\ y \in Nat /\ x + y = Places - a[2] /\ x + y <= Digits + 4
      BY <1>1, <1>2
    <2>2. Grown(a, e) = a[1] * Tens[x] /\ Parts(a) = a[1] * Tens[Places - a[2]]
      BY DEF Grown, Parts
    <2> HIDE DEF x
    <2>3. Tens[x + y] = Tens[x] * Tens[y] /\ Tens[x] \in Nat /\ Tens[y] \in Nat
      <3> HIDE DEF y
      <3> QED
        BY <2>1, TensTimes
    <2>4. a[1] * (Tens[x] * Tens[y]) = (a[1] * Tens[x]) * Tens[y] /\ a[1] * Tens[x] \in Nat
      BY <1>1, <2>3
    <2> QED
      BY <2>1, <2>2, <2>3, <2>4
  <1>4. Places \in a[2]..Places /\ Places - Places = 0
    BY <1>1, <1>2
  <1>5. Parts(a) \in Nat /\ Parts(a) = Grown(a, Places)
    <2>1. Grown(a, Places) \in Nat
      BY <1>3, <1>4
    <2> QED
      BY <2>1 DEF Grown, Parts
  <1> QED
    BY <1>1, <1>3, <1>5

\* The later of two last places.
LEMMA LastPlace ==
    ASSUME NEW a \in Decimals, NEW b \in Decimals
    PROVE  LET e == Max({a[2], b[2]})
           IN  e \in 0..Places /\ e \in a[2]..Places /\ e \in b[2]..Places
  <1> DEFINE e == Max({a[2], b[2]})
  <1>1. a[2] \in Nat /\ a[2] <= Places /\ b[2] \in Nat /\ b[2] <= Places /\ Places \in Nat
    BY PartsAre, OneIs
  <1>2. CASE a[2] <= b[2]
    <2>1. {a[2], b[2]} \in SUBSET Int /\ b[2] \in {a[2], b[2]} /\ \A k \in {a[2], b[2]} : k <= b[2]
      BY <1>1, <1>2
    <2>2. e = b[2]
      BY <2>1, GreatestIs
    <2> HIDE DEF e
    <2>3. e \in 0..Places /\ e \in a[2]..Places /\ e \in b[2]..Places
      BY <1>1, <1>2, <2>2
    <2> QED
      BY <2>3 DEF e
  <1>3. CASE b[2] <= a[2]
    <2>1. {a[2], b[2]} \in SUBSET Int /\ a[2] \in {a[2], b[2]} /\ \A k \in {a[2], b[2]} : k <= a[2]
      BY <1>1, <1>3
    <2>2. e = a[2]
      BY <2>1, GreatestIs
    <2> HIDE DEF e
    <2>3. e \in 0..Places /\ e \in a[2]..Places /\ e \in b[2]..Places
      BY <1>1, <1>3, <2>2
    <2> QED
      BY <2>3 DEF e
  <1> QED
    BY <1>1, <1>2, <1>3

\* The order of decimals is that of their parts.
LEMMA AtMostIs ==
    ASSUME NEW a \in Decimals, NEW b \in Decimals
    PROVE  AtMost(a, b) <=> Parts(a) <= Parts(b)
  <1> DEFINE e == Max({a[2], b[2]})
  <1>1. a[2] \in Nat /\ a[2] <= Places /\ b[2] \in Nat /\ b[2] <= Places /\ Places \in Nat /\ Places <= Digits + 4
    BY PartsAre, OneIs
  <1>2. e \in a[2]..Places /\ e \in b[2]..Places
    BY LastPlace
  <1>3. AtMost(a, b) <=> Grown(a, e) <= Grown(b, e)
    BY DEF AtMost
  <1> HIDE DEF e
  <1> DEFINE t == Tens[Places - e]
             x == Grown(a, e)
             y == Grown(b, e)
  <1>4. /\ x \in Nat /\ Parts(a) = x * t
        /\ y \in Nat /\ Parts(b) = y * t
    BY <1>2, PartsAre
  <1>5. t \in Nat \ {0}
    <2>1. Places - e \in 0..Digits + 4
      <3>1. Digits + 4 \in Nat
        BY TensAre
      <3>2. e \in Nat /\ e <= Places
        BY <1>1, <1>2
      <3> QED
        BY <1>1, <3>1, <3>2
    <2> QED
      BY <2>1, TensAre
  <1> HIDE DEF t, x, y
  <1>6. x <= y => t * x <= t * y
    BY <1>4, <1>5, TimesKeepsOrder
  <1>7. y < x => t * y < t * x
    <2>1. SUFFICES ASSUME y + 1 <= x PROVE t * y < t * x
      BY <1>4
    <2>2. t * (y + 1) <= t * x /\ t * (y + 1) = t * y + t /\ t * y \in Int /\ t * x \in Int
      BY <1>4, <1>5, <2>1, TimesKeepsOrder
    <2> QED
      BY <1>5, <2>2
  <1>8. x * t = t * x /\ y * t = t * y /\ t * x \in Int /\ t * y \in Int
    BY <1>4, <1>5
  <1> QED
    BY <1>3, <1>4, <1>6, <1>7, <1>8 DEF x, y

\* Rounded half to even is within a half.
LEMMA HalfEvenNear ==
    ASSUME NEW n \in Int, NEW d \in Nat \ {0}
    PROVE  /\ HalfEven(n, d) \in Int
           /\ 2 * (d * HalfEven(n, d)) <= 2 * n + d /\ 2 * n <= 2 * (d * HalfEven(n, d)) + d
  <1> DEFINE q == n \div d
             r == n % d
             h == Half(n, d)
             D == 2 * d
             N == 2 * n + d
  <1>1. q \in Int /\ r \in 0..d - 1 /\ n = d * q + r
    BY Quotient, Remainder
  <1>2. D \in Nat \ {0} /\ N \in Int
    OBVIOUS
  <1>3. h = N \div D
    BY DEF Half
  <1> HIDE DEF q, r, h
  <1>4. h \in Int /\ D * h <= N /\ N < D * h + D
    <2> HIDE DEF D, N
    <2> QED
      BY <1>2, <1>3, Quotient
  <1>5. D * h = 2 * (d * h) /\ d * h \in Int
    BY <1>4
  <1>6. CASE 2 * r # d
    <2>1. HalfEven(n, d) = h
      BY <1>6 DEF HalfEven, r, h
    <2> QED
      BY <1>4, <1>5, <2>1
  <1>7. CASE 2 * r = d
    <2>1. HalfEven(n, d) = q + (q % 2)
      BY <1>7 DEF HalfEven, r, q
    <2>2. q % 2 \in {0, 1}
      BY <1>1
    <2>3. d * (q + 0) = d * q /\ d * (q + 1) = d * q + d /\ d * q \in Int
      BY <1>1
    <2> DEFINE a == d * q
    <2>4. a \in Int /\ 2 * n = 2 * a + d
      BY <1>1, <1>7, <2>3
    <2>5. CASE q % 2 = 0
      <3>1. HalfEven(n, d) = q /\ d * HalfEven(n, d) = a
        BY <1>1, <2>1, <2>3, <2>5
      <3> QED
        BY <1>1, <2>4, <3>1
    <2>6. CASE q % 2 = 1
      <3>1. HalfEven(n, d) = q + 1 /\ d * HalfEven(n, d) = a + d
        BY <1>1, <2>1, <2>3, <2>6
      <3> QED
        BY <1>1, <2>4, <3>1
    <2> QED
      BY <2>2, <2>5, <2>6
  <1> QED
    BY <1>6, <1>7

\* A number written with places is kept within a half of a thousand parts.
LEMMA KeptIs ==
    ASSUME NEW m \in Nat, NEW e \in 0..Places, m < 10 * Tens[e]
    PROVE  /\ Kept(m, e) \in Decimals
           /\ 2 * Parts(Kept(m, e)) <= 2 * (m * Tens[Places - e]) + 1000
           /\ 2 * (m * Tens[Places - e]) <= 2 * Parts(Kept(m, e)) + 1000
  <1> DEFINE fit == {k \in 0..4 : m \div Tens[k] < Tens[Digits]}
             drop == Min(fit)
             room == IF e + 1 <= Digits THEN 0 ELSE e + 1 - Digits
             h == HalfEven(m, Tens[drop])
             T == Tens[Places - e]
             w == Tens[drop]
  <1>1. /\ Digits \in Nat \ {0} /\ Places = Digits + 2 /\ e \in Nat /\ e <= Digits + 2
        /\ \A i \in 0..Digits + 4 : Tens[i] \in Nat \ {0}
        /\ Tens[0] = 1 /\ Tens[3] = 1000
    <2>1. Digits \in Nat \ {0} /\ \A i \in 0..Digits + 4 : Tens[i] \in Nat \ {0}
      BY TensAre
    <2>2. Tens[0] = 1 /\ Tens[3] = 1000
      BY OneIs
    <2> QED
      BY <2>1, <2>2 DEF Places
  <1>2. room \in 0..3 /\ e + 1 <= Digits + room /\ (room # 0 => e + 1 = Digits + room) /\ room <= e
    BY <1>1
  <1> HIDE DEF room
  <1>3. room \in fit
    <2>1. Tens[room] \in Nat \ {0} /\ Tens[Digits] \in Nat \ {0} /\ Tens[Digits + room] = Tens[Digits] * Tens[room]
      <3>1. Digits \in Nat /\ room \in Nat /\ Digits + room <= Digits + 4
        BY <1>1, <1>2
      <3> QED
        BY <3>1, TensTimes
    <2>2. Tens[e + 1] <= Tens[Digits + room] /\ Tens[e + 1] = 10 * Tens[e]
      <3>1. e + 1 \in Nat /\ Digits + room \in Nat /\ Digits + room <= Digits + 4
            /\ e + 1 \in 1..Digits + 4 /\ (e + 1) - 1 = e
        BY <1>1, <1>2
      <3>2. Tens[e + 1] <= Tens[Digits + room]
        BY <1>2, <3>1, TensRise
      <3> QED
        BY <3>1, <3>2, TensAre
    <2>3. Tens[e] \in Nat
      BY <1>1
    <2>4. m < Tens[room] * Tens[Digits]
      <3> DEFINE a == Tens[Digits] * Tens[room]
      <3>1. a \in Nat /\ Tens[room] * Tens[Digits] = a
        BY <2>1
      <3> HIDE DEF a
      <3>2. Tens[Digits + room] = a
        BY <2>1 DEF a
      <3> QED
        BY <2>2, <2>3, <3>1, <3>2
    <2>5. m \div Tens[room] < Tens[Digits]
      BY <2>1, <2>4, QuotientIsLess
    <2> QED
      BY <1>2, <2>5
  <1>4. drop \in fit /\ drop \in Nat /\ drop <= room
    <2>1. fit \in SUBSET Nat /\ fit # {}
      BY <1>3
    <2> HIDE DEF fit
    <2>2. PICK n \in fit : \A k \in fit : n <= k
      BY <2>1, Least
    <2>3. fit \in SUBSET Int
      BY <2>1
    <2>4. Min(fit) = n
      BY <2>2, <2>3, LeastIs
    <2> QED
      BY <1>3, <2>1, <2>2, <2>4
  <1>5. Kept(m, e) = <<h, e - drop>>
    BY DEF Kept
  <1> HIDE DEF drop, fit
  <1>6. drop \in 0..Digits + 4 /\ drop <= e /\ w \in Nat \ {0} /\ Places - e \in 0..Digits + 4 /\ T \in Nat \ {0}
    <2>1. drop \in 0..Digits + 4 /\ drop <= e /\ Places - e \in 0..Digits + 4
      BY <1>1, <1>2, <1>4
    <2> QED
      BY <1>1, <2>1
  <1>7. h \in Int /\ 2 * (w * h) <= 2 * m + w /\ 2 * m <= 2 * (w * h) + w
    <2>1. h = HalfEven(m, w)
      OBVIOUS
    <2> HIDE DEF w, h
    <2>2. m \in Int
      OBVIOUS
    <2> QED
      BY <1>6, <2>1, <2>2, HalfEvenNear
  <1> HIDE DEF h
  <1>8. h \in Nat
    <2>1. SUFFICES ASSUME h <= -1 PROVE FALSE
      BY <1>7
    <2> HIDE DEF w
    <2>2. w * h <= w * (-1) /\ w * (-1) = -w /\ w * h \in Int
      BY <1>6, <1>7, <2>1, TimesKeepsOrder
    <2> QED
      BY <1>6, <1>7, <2>2
  <1>9. Kept(m, e) \in Decimals
    BY <1>1, <1>4, <1>5, <1>6, <1>8 DEF Decimals
  <1>10. Parts(Kept(m, e)) = (w * h) * T
    <2>1. Places - (e - drop) = drop + (Places - e) /\ Places - e \in Nat /\ drop + (Places - e) <= Digits + 4
      BY <1>1, <1>2, <1>4
    <2>2. Tens[drop + (Places - e)] = w * T
      BY <1>4, <2>1, TensTimes
    <2>3. Parts(Kept(m, e)) = h * Tens[Places - (e - drop)]
      BY <1>5 DEF Parts
    <2>4. Parts(Kept(m, e)) = h * (w * T)
      BY <2>1, <2>2, <2>3
    <2> HIDE DEF w, T
    <2> QED
      BY <1>6, <1>7, <2>4
  <1>11. CASE drop = 0
    <2>1. w = 1
      BY <1>1, <1>11
    <2>2. w * h = m
      BY <1>7, <2>1
    <2>3. Parts(Kept(m, e)) = m * T /\ m * T \in Nat
      BY <1>6, <1>10, <2>2
    <2> QED
      BY <1>9, <2>3
  <1>12. CASE drop # 0
    <2>1. room # 0 /\ drop + (Places - e) <= 3 /\ drop + (Places - e) \in Nat /\ Places - e \in Nat
      BY <1>1, <1>2, <1>4, <1>12
    <2>2. w * T <= 1000 /\ w * T = Tens[drop + (Places - e)]
      <3>1. 3 \in Nat /\ 3 <= Digits + 4 /\ drop + (Places - e) <= Digits + 4
        BY <1>1, <2>1
      <3>2. Tens[drop + (Places - e)] <= Tens[3]
        BY <2>1, <3>1, TensRise
      <3> QED
        BY <1>1, <1>4, <2>1, <3>1, <3>2, TensTimes
    <2> DEFINE a == w * h
               b == 2 * a
               c == 2 * m + w
               d == b + w
    <2>3. a \in Int /\ b \in Int /\ c \in Int /\ d \in Int /\ b <= c /\ 2 * m <= d /\ 2 * m \in Int
      BY <1>6, <1>7
    <2>4. T * b = 2 * (a * T) /\ T * c = 2 * (m * T) + w * T /\ T * d = 2 * (a * T) + w * T /\ T * (2 * m) = 2 * (m * T)
      <3> HIDE DEF w, T
      <3>1. w * h \in Int
        BY <1>6, <1>7
      <3> DEFINE z == w * h
      <3> HIDE DEF z
      <3>2. z \in Int
        BY <3>1 DEF z
      <3> QED
        BY <1>6, <3>2 DEF z
    <2>5. T * b <= T * c /\ T * (2 * m) <= T * d
      <3> HIDE DEF b, c, d, T
      <3> QED
        BY <1>6, <2>3, TimesKeepsOrder
    <2>6. Parts(Kept(m, e)) = a * T /\ a * T \in Int /\ m * T \in Int /\ w * T \in Int
      BY <1>6, <1>10, <2>3
    <2> HIDE DEF a, b, c, d, T, w
    <2> QED
      BY <1>9, <2>2, <2>4, <2>5, <2>6 DEF T
  <1> QED
    BY <1>11, <1>12

\* A number of parts that its places can write is below ten.
LEMMA BelowTen ==
    ASSUME NEW e \in 0..Places, NEW m \in Nat, m * Tens[Places - e] < 10 * One
    PROVE  m < 10 * Tens[e]
  <1> DEFINE T == Tens[Places - e]
  <1>1. Places \in Nat /\ e \in Nat /\ Places - e \in Nat /\ Places <= Digits + 4 /\ e + (Places - e) = Places
    BY OneIs
  <1>2. One = Tens[e] * T /\ T \in Nat \ {0} /\ Tens[e] \in Nat \ {0}
    <2> DEFINE d == Places - e
    <2>1. d \in Nat /\ e + d = Places /\ e + d <= Digits + 4
      BY <1>1
    <2> HIDE DEF d
    <2>2. Tens[e + d] = Tens[e] * Tens[d] /\ Tens[e] \in Nat \ {0} /\ Tens[d] \in Nat \ {0}
      BY <1>1, <2>1, TensTimes
    <2> QED
      BY <2>1, <2>2 DEF One, d
  <1>3. m * T < 10 * One
    OBVIOUS
  <1> DEFINE s == 10 * Tens[e]
  <1>4. s \in Nat /\ T * s = 10 * One
    BY <1>2
  <1> HIDE DEF T, s
  <1>5. SUFFICES ASSUME s <= m PROVE FALSE
    BY <1>4 DEF s
  <1>6. T * s <= T * m /\ T * m = m * T /\ T * m \in Int
    BY <1>2, <1>4, <1>5, TimesKeepsOrder
  <1> QED
    BY <1>2, <1>3, <1>4, <1>6, OneIs

\* What a sum and a difference of decimals are, but for half of a thousand parts.
LEMMA PlusIs ==
    ASSUME NEW a \in Decimals, NEW b \in Decimals, Parts(a) + Parts(b) < 10 * One
    PROVE  /\ Plus(a, b) \in Decimals
           /\ Parts(Plus(a, b)) <= Parts(a) + Parts(b) + 500
           /\ Parts(a) + Parts(b) <= Parts(Plus(a, b)) + 500
  <1> DEFINE e == Max({a[2], b[2]})
             x == Grown(a, e)
             y == Grown(b, e)
             T == Tens[Places - e]
  <1>1. e \in 0..Places /\ e \in a[2]..Places /\ e \in b[2]..Places
    BY LastPlace
  <1>2. Plus(a, b) = Kept(x + y, e)
    BY DEF Plus
  <1> HIDE DEF e
  <1>3. x \in Nat /\ y \in Nat /\ Parts(a) = x * T /\ Parts(b) = y * T /\ Parts(a) \in Nat /\ Parts(b) \in Nat
    BY <1>1, PartsAre
  <1>4. T \in Nat
    <2>1. Places - e \in 0..Digits + 4
      BY <1>1, OneIs, TensAre
    <2> QED
      BY <2>1, TensAre
  <1> HIDE DEF x, y
  <1>5. x + y \in Nat /\ (x + y) * T = Parts(a) + Parts(b)
    BY <1>3, <1>4
  <1>6. x + y < 10 * Tens[e]
    BY <1>1, <1>5, BelowTen
  <1> DEFINE m == x + y
  <1> HIDE DEF m
  <1>7. /\ Kept(m, e) \in Decimals
        /\ 2 * Parts(Kept(m, e)) <= 2 * (m * Tens[Places - e]) + 1000
        /\ 2 * (m * Tens[Places - e]) <= 2 * Parts(Kept(m, e)) + 1000
    BY <1>1, <1>5, <1>6, KeptIs DEF m
  <1>8. Parts(Kept(m, e)) \in Nat
    BY <1>7, PartsAre
  <1> QED
    BY <1>2, <1>3, <1>5, <1>7, <1>8 DEF m

LEMMA MinusIs ==
    ASSUME NEW a \in Decimals, NEW b \in Decimals, Parts(b) <= Parts(a), Parts(a) < 10 * One
    PROVE  /\ Minus(a, b) \in Decimals
           /\ Parts(Minus(a, b)) <= Parts(a) - Parts(b) + 500
           /\ Parts(a) - Parts(b) <= Parts(Minus(a, b)) + 500
  <1> DEFINE e == Max({a[2], b[2]})
             x == Grown(a, e)
             y == Grown(b, e)
             T == Tens[Places - e]
  <1>1. e \in 0..Places /\ e \in a[2]..Places /\ e \in b[2]..Places
    BY LastPlace
  <1>2. Minus(a, b) = Kept(x - y, e)
    BY DEF Minus
  <1> HIDE DEF e
  <1>3. x \in Nat /\ y \in Nat /\ Parts(a) = x * T /\ Parts(b) = y * T /\ Parts(a) \in Nat /\ Parts(b) \in Nat
    BY <1>1, PartsAre
  <1>4. T \in Nat \ {0}
    <2>1. Places - e \in 0..Digits + 4
      BY <1>1, OneIs, TensAre
    <2> QED
      BY <2>1, TensAre
  <1> HIDE DEF x, y
  <1>5. (x - y) * T = Parts(a) - Parts(b)
    BY <1>3, <1>4
  <1>6. x - y \in Nat
    <2>1. SUFFICES ASSUME x + 1 <= y PROVE FALSE
      BY <1>3
    <2> HIDE DEF T
    <2>2. T * (x + 1) <= T * y /\ T * (x + 1) = x * T + T /\ T * y = y * T /\ x * T \in Int /\ y * T \in Int
      BY <1>3, <1>4, <2>1, TimesKeepsOrder
    <2> QED
      BY <1>3, <1>4, <2>2
  <1> DEFINE m == x - y
  <1> HIDE DEF m
  <1>7. m \in Nat /\ m * Tens[Places - e] = Parts(a) - Parts(b)
    BY <1>5, <1>6 DEF m
  <1>8. m * Tens[Places - e] < 10 * One
    BY <1>3, <1>7, OneIs
  <1>9. m < 10 * Tens[e]
    BY <1>1, <1>7, <1>8, BelowTen
  <1>10. /\ Kept(m, e) \in Decimals
         /\ 2 * Parts(Kept(m, e)) <= 2 * (m * Tens[Places - e]) + 1000
         /\ 2 * (m * Tens[Places - e]) <= 2 * Parts(Kept(m, e)) + 1000
    BY <1>1, <1>7, <1>9, KeptIs
  <1>11. Parts(Kept(m, e)) \in Nat
    BY <1>10, PartsAre
  <1> QED
    BY <1>2, <1>3, <1>7, <1>10, <1>11 DEF m

LEMMA ZeroIs == Zero \in Decimals /\ Parts(Zero) = 0
  <1>1. Places \in Nat /\ Tens[Places] \in Nat
    BY OneIs DEF One
  <1>2. Zero \in Decimals
    BY <1>1 DEF Zero, Decimals
  <1>3. Parts(Zero) = 0 * Tens[Places]
    BY <1>1 DEF Zero, Parts
  <1> QED
    BY <1>1, <1>2, <1>3

\* A ratio of a part of the whole is no more than it is, and less than a thousand parts less.
LEMMA RatioIs ==
    ASSUME NEW part \in Nat, NEW whole \in Nat, part <= whole
    PROVE  /\ RatioDown(part, whole) \in Decimals
           /\ Parts(RatioDown(part, whole)) <= One
           /\ whole = 0 => Parts(RatioDown(part, whole)) = 0
           /\ whole * Parts(RatioDown(part, whole)) <= part * One
           /\ whole # 0 => part * One < whole * (Parts(RatioDown(part, whole)) + 1000)
  <1>1. /\ Digits \in Nat \ {0} /\ Places = Digits + 2
        /\ \A i \in 0..Digits + 4 : Tens[i] \in Nat \ {0}
    BY TensAre DEF Places
  <1>2. CASE whole = 0
    <2>1. RatioDown(part, whole) = Zero /\ part = 0
      BY <1>2 DEF RatioDown
    <2> QED
      BY <1>2, <2>1, ZeroIs, OneIs
  <1>3. CASE whole # 0
    <2> DEFINE fit == {e \in 0..Digits + 2 : (part * Tens[e]) \div whole < Tens[Digits]}
               e == Max(fit)
               q == (part * Tens[e]) \div whole
               T == Tens[Places - e]
               first == Digits - 1
    <2>1. RatioDown(part, whole) = <<q, e>>
      BY <1>3 DEF RatioDown
    <2>2. whole \in Nat \ {0}
      BY <1>3
    <2>3. first \in fit
      <3>1. first \in 0..Digits + 2 /\ first \in Nat /\ first + 1 = Digits /\ first <= Digits /\ Digits \in 1..Digits + 4 /\ Digits - 1 = first
        BY <1>1
      <3>2. Tens[Digits] = 10 * Tens[first] /\ Tens[first] \in Nat \ {0}
        BY <1>1, <3>1, TensAre
      <3> DEFINE t == Tens[first]
      <3>3. t \in Nat \ {0} /\ t < Tens[Digits] /\ Tens[Digits] \in Nat
        BY <3>2
      <3> HIDE DEF t
      <3>4. t * part <= t * whole /\ t * part = part * t /\ part * t \in Nat /\ t * whole = whole * t /\ whole * t \in Nat
        BY <2>2, <3>3, TimesKeepsOrder
      <3>5. whole * (t + 1) <= whole * Tens[Digits] /\ whole * (t + 1) = whole * t + whole
        BY <2>2, <3>3, TimesKeepsOrder
      <3>6. part * t < whole * Tens[Digits]
        BY <2>2, <3>3, <3>4, <3>5
      <3>7. (part * t) \div whole < Tens[Digits]
        BY <2>2, <3>3, <3>4, <3>6, QuotientIsLess
      <3> QED
        BY <3>1, <3>7 DEF t
    <2>4. e \in fit /\ first <= e
      <3>1. fit \in SUBSET (0..Digits + 2) /\ Digits + 2 \in Nat /\ fit # {}
        BY <1>1, <2>3
      <3> HIDE DEF fit
      <3>2. PICK n \in fit : \A k \in fit : k <= n
        BY <3>1, Greatest
      <3>3. fit \in SUBSET Int
        BY <3>1
      <3>4. Max(fit) = n
        BY <3>2, <3>3, GreatestIs
      <3> QED
        BY <2>3, <3>2, <3>4
    <2>5. e \in 0..Places /\ e \in Nat /\ Places - e \in Nat /\ Places - e <= 3 /\ e + (Places - e) = Places
      BY <1>1, <2>4
    <2> HIDE DEF fit, e
    <2>6. Tens[e] \in Nat \ {0} /\ T \in Nat \ {0} /\ Tens[e] * T = One
      <3> DEFINE d == Places - e
      <3>1. d \in Nat /\ e + d = Places /\ e + d <= Digits + 4
        BY <1>1, <2>5
      <3> HIDE DEF d
      <3>2. Tens[e + d] = Tens[e] * Tens[d] /\ Tens[e] \in Nat \ {0} /\ Tens[d] \in Nat \ {0}
        BY <2>5, <3>1, TensTimes
      <3> QED
        BY <3>1, <3>2 DEF One, d
    <2>7. T <= 1000
      <3>1. Tens[Places - e] <= Tens[3]
        BY <1>1, <2>5, TensRise
      <3> QED
        BY <3>1, OneIs
    <2>8. part * Tens[e] \in Nat
      BY <2>6
    <2>9. q \in Int /\ whole * q <= part * Tens[e] /\ part * Tens[e] < whole * q + whole
      <3> DEFINE n == part * Tens[e]
      <3> HIDE DEF n
      <3>1. n \in Int
        BY <2>8 DEF n
      <3>2. n \div whole \in Int /\ whole * (n \div whole) <= n /\ n < whole * (n \div whole) + whole
        BY <2>2, <3>1, Quotient
      <3> QED
        BY <3>2 DEF n
    <2> HIDE DEF q
    <2>10. q \in Nat
      <3>1. SUFFICES ASSUME q <= -1 PROVE FALSE
        BY <2>9
      <3>2. whole * q <= whole * (-1) /\ whole * (-1) = -whole /\ whole * q \in Int
        BY <2>2, <2>9, <3>1, TimesKeepsOrder
      <3> QED
        BY <2>2, <2>8, <2>9, <3>2
    <2>11. RatioDown(part, whole) \in Decimals /\ Parts(RatioDown(part, whole)) = q * T
      BY <2>1, <2>5, <2>10 DEF Decimals, Parts
    <2> DEFINE a == whole * q
               b == part * Tens[e]
    <2>12. a \in Int /\ b \in Nat /\ a <= b /\ b < a + whole
      BY <2>2, <2>8, <2>9
    <2>13. T * a = whole * (q * T) /\ T * b = part * One /\ T * (a + whole) = whole * (q * T) + whole * T
      <3>1. T * b = part * (Tens[e] * T)
        BY <2>6
      <3>2. T * a = whole * (q * T) /\ T * (a + whole) = T * a + whole * T
        <4> HIDE DEF T
        <4> QED
          BY <2>6, <2>10
      <3> QED
        BY <2>6, <3>1, <3>2
    <2>14. T * a <= T * b
      <3> HIDE DEF T, a, b
      <3> QED
        BY <2>6, <2>12, TimesKeepsOrder
    <2>15. T * b < T * (a + whole)
      <3> DEFINE c == a + whole
      <3>1. c \in Int /\ b + 1 <= c
        BY <2>12
      <3> HIDE DEF T, a, b, c
      <3>2. T * (b + 1) <= T * c /\ T * (b + 1) = T * b + T /\ T * b \in Int /\ T * c \in Int
        BY <2>6, <2>12, <3>1, TimesKeepsOrder
      <3>3. T * b < T * c
        BY <2>6, <3>2
      <3> QED
        BY <3>3 DEF c
    <2>16. whole * T <= whole * 1000
      <3> HIDE DEF T
      <3> QED
        BY <2>2, <2>6, <2>7, TimesKeepsOrder
    <2> DEFINE g == q * T
    <2>17. g \in Nat
      BY <2>6, <2>10
    <2> HIDE DEF a, b, T
    <2>18. whole * (g + 1000) = whole * g + whole * 1000 /\ whole * g \in Int
      <3> HIDE DEF g
      <3> QED
        BY <2>17
    <2>19. whole * g <= part * One /\ part * One < whole * (g + 1000) /\ part * One \in Int
      BY <2>6, <2>13, <2>14, <2>15, <2>16, <2>18, OneIs
    <2> HIDE DEF g
    <2>20. g <= One
      <3>1. SUFFICES ASSUME One + 1 <= g PROVE FALSE
        BY <2>17, OneIs
      <3>2. whole * (One + 1) <= whole * g /\ whole * (One + 1) = whole * One + whole
        BY <2>2, <2>17, <3>1, OneIs, TimesKeepsOrder
      <3>3. One * part <= One * whole /\ One * part = part * One /\ One * whole = whole * One /\ whole * One \in Int
        BY <2>2, OneIs, TimesKeepsOrder
      <3> QED
        BY <2>2, <2>18, <2>19, <3>2, <3>3
    <2> QED
      BY <1>3, <2>11, <2>19, <2>20 DEF g
  <1> QED
    BY <1>2, <1>3

\* The rupiah a weight needs are enough for it, and less than one more.
LEMMA RupiahUpIs ==
    ASSUME NEW a \in Decimals, NEW v \in Nat
    PROVE  /\ RupiahUp(a, v) \in Nat
           /\ v * Parts(a) <= RupiahUp(a, v) * One
           /\ RupiahUp(a, v) * One < v * Parts(a) + One
  <1> DEFINE t == Tens[a[2]]
             T == Tens[Places - a[2]]
             n == a[1] * v
             r == CeilDiv(n, t)
  <1>1. a[1] \in Nat /\ a[2] \in Nat /\ a[2] <= Places /\ Places \in Nat /\ Places <= Digits + 4 /\ Parts(a) = a[1] * T
    BY PartsAre, OneIs DEF Parts
  <1>2. t \in Nat \ {0} /\ T \in Nat \ {0} /\ t * T = One
    <2> DEFINE e == a[2]
               d == Places - e
    <2>1. e \in Nat /\ d \in Nat /\ e + d = Places /\ e + d <= Digits + 4
      BY <1>1
    <2> HIDE DEF d, e
    <2>2. Tens[e + d] = Tens[e] * Tens[d] /\ Tens[e] \in Nat \ {0} /\ Tens[d] \in Nat \ {0}
      BY <2>1, TensTimes
    <2> QED
      BY <2>1, <2>2 DEF One, d, e
  <1>3. n \in Nat
    BY <1>1
  <1>4. RupiahUp(a, v) = r
    BY DEF RupiahUp
  <1>5. r \in Int /\ n <= t * r /\ t * r < n + t
    <2> HIDE DEF n, t
    <2>1. n \in Int /\ t \in Nat \ {0}
      BY <1>2, <1>3
    <2>2. CeilDiv(n, t) \in Int /\ n <= t * CeilDiv(n, t) /\ t * CeilDiv(n, t) < n + t
      BY <2>1, CeilIsEnough
    <2> QED
      BY <2>2
  <1> HIDE DEF r, t, T
  <1>6. r \in Nat
    <2>1. SUFFICES ASSUME r <= -1 PROVE FALSE
      BY <1>5
    <2>2. t * r <= t * (-1) /\ t * (-1) = -t /\ t * r \in Int
      BY <1>2, <1>5, <2>1, TimesKeepsOrder
    <2> HIDE DEF n
    <2> QED
      BY <1>2, <1>3, <1>5, <2>2
  <1> DEFINE c == t * r
  <1>7. c \in Int /\ T * c = r * One /\ T * n = v * Parts(a) /\ T * (n + t) = v * Parts(a) + One
    <2>1. T * c = r * (t * T) /\ c \in Int
      BY <1>2, <1>6
    <2>2. T * n = v * (a[1] * T)
      BY <1>1, <1>2
    <2>3. T * (n + t) = T * n + t * T
      <3> HIDE DEF n
      <3> QED
        BY <1>2, <1>3
    <2> QED
      BY <1>1, <1>2, <2>1, <2>2, <2>3
  <1> DEFINE m == n + t
  <1>8. m \in Int /\ n <= c /\ c + 1 <= m
    BY <1>2, <1>3, <1>5, <1>7
  <1>9. T * n <= T * c /\ T * (c + 1) <= T * m /\ T * (c + 1) = T * c + T
    <2> HIDE DEF n, c, m
    <2> QED
      BY <1>2, <1>3, <1>7, <1>8, TimesKeepsOrder
  <1>10. T * c \in Int /\ T * m \in Int /\ T * n \in Int
    <2> HIDE DEF n, c, m
    <2> QED
      BY <1>2, <1>3, <1>7, <1>8
  <1>11. T * c < T * m
    <2> HIDE DEF n, c, m
    <2> QED
      BY <1>2, <1>9, <1>10
  <1> QED
    BY <1>4, <1>6, <1>7, <1>9, <1>11

-----------------------------------------------------------------------------
(* What a portfolio's weights are, and what new weights put on top of them.  *)

LEMMA PortfolioIs ==
    ASSUME NEW p \in Portfolios
    PROVE  /\ Value(p) \in Nat /\ p.cash \in Nat /\ p.cash <= Value(p)
           /\ DOMAIN p.held \in SUBSET Stocks /\ IsFiniteSet(DOMAIN p.held)
           /\ \A stock : Held(p, stock) \in Nat /\ Held(p, stock) + p.cash <= Value(p)
  <1> DEFINE S == DOMAIN p.held
             sum == SumFunctionOnSet(p.held, S)
  <1>1. /\ p.cash \in Nat /\ p.unsettled \in Nat /\ S \in SUBSET Stocks /\ p.held \in [S -> Nat]
        /\ IsFiniteSet(S)
    BY StrategiesConstants, FS_Subset
  <1>2. Value(p) = p.cash + p.unsettled + sum
    BY DEF Value, SumFunction
  <1>3. sum \in Nat
    BY <1>1, SumNat
  <1>4. ASSUME NEW stock PROVE Held(p, stock) \in Nat /\ Held(p, stock) <= sum
    <2>1. CASE stock \notin S
      BY <1>3, <2>1 DEF Held
    <2>2. CASE stock \in S
      <3> DEFINE rest == SumFunctionOnSet(p.held, S \ {stock})
      <3>1. Held(p, stock) = p.held[stock] /\ p.held[stock] \in Nat
        BY <1>1, <2>2 DEF Held
      <3>2. \A x \in S : p.held[x] \in Int
        BY <1>1
      <3>3. sum = p.held[stock] + rest
        BY <1>1, <2>2, <3>2, SumRemove
      <3>4. IsFiniteSet(S \ {stock}) /\ \A x \in S \ {stock} : p.held[x] \in Nat
        BY <1>1, FS_Subset
      <3>5. rest \in Nat
        BY <3>4, SumNat
      <3> HIDE DEF rest, sum
      <3> QED
        BY <3>1, <3>3, <3>5
    <2> QED
      BY <2>1, <2>2
  <1> HIDE DEF sum
  <1>5. \A stock : Held(p, stock) \in Nat /\ Held(p, stock) + p.cash <= Value(p)
    <2> SUFFICES ASSUME NEW stock PROVE Held(p, stock) \in Nat /\ Held(p, stock) + p.cash <= Value(p)
      OBVIOUS
    <2> QED
      BY <1>1, <1>2, <1>3, <1>4
  <1> QED
    BY <1>1, <1>2, <1>3, <1>5

LEMMA WeightIs ==
    ASSUME NEW p \in Portfolios, NEW stock
    PROVE  /\ Weight(p, stock) \in Decimals /\ Parts(Weight(p, stock)) \in Nat
           /\ Parts(Weight(p, stock)) <= One
           /\ Value(p) = 0 => Parts(Weight(p, stock)) = 0
           /\ Value(p) * Parts(Weight(p, stock)) <= Held(p, stock) * One
  <1>1. Held(p, stock) \in Nat /\ Value(p) \in Nat /\ Held(p, stock) <= Value(p)
    BY PortfolioIs
  <1>2. Weight(p, stock) \in Decimals
    BY <1>1, RatioIs DEF Weight
  <1> QED
    BY <1>1, <1>2, RatioIs, PartsAre DEF Weight

\* A share of the cash on top of a stock's weight is within the whole.
LEMMA SharePlus ==
    ASSUME NEW p \in Portfolios, NEW c \in 0..p.cash, NEW stock
    PROVE  LET w == Weight(p, stock)
               share == RatioDown(c, Value(p))
           IN  /\ share \in Decimals /\ Parts(share) \in Nat
               /\ Plus(w, share) \in Decimals /\ Parts(Plus(w, share)) \in Nat
               /\ Parts(Plus(w, share)) <= Parts(w) + Parts(share) + 500
               /\ Parts(w) + Parts(share) <= Parts(Plus(w, share)) + 500
               /\ Value(p) * Parts(share) <= c * One
               /\ c * One <= Value(p) * Parts(share) + Value(p) * 1000
  <1> DEFINE v == Value(p)
             w == Weight(p, stock)
             share == RatioDown(c, v)
             held == Held(p, stock)
             W == Parts(w)
             S == Parts(share)
  <1>1. v \in Nat /\ p.cash \in Nat /\ p.cash <= v /\ held \in Nat /\ held + p.cash <= v /\ c \in Nat /\ c <= p.cash
    BY PortfolioIs
  <1>2. w \in Decimals /\ W \in Nat /\ (v = 0 => W = 0) /\ v * W <= held * One
    BY WeightIs
  <1>3. /\ share \in Decimals
        /\ v = 0 => S = 0
        /\ v * S <= c * One
        /\ v # 0 => c * One < v * (S + 1000)
    <2>1. c <= v
      BY <1>1
    <2> HIDE DEF v
    <2> QED
      BY <1>1, <2>1, RatioIs
  <1>4. S \in Nat
    BY <1>3, PartsAre
  <1>5. One \in Nat /\ 1000 <= One
    BY OneIs
  <1>6. c * One <= v * S + v * 1000
    <2> HIDE DEF v, S
    <2>1. CASE v = 0
      BY <1>1, <1>3, <1>4, <1>5, <2>1
    <2>2. CASE v # 0
      <3>1. v * (S + 1000) = v * S + v * 1000 /\ v * S \in Int /\ c * One \in Int
        BY <1>1, <1>4, <1>5
      <3> QED
        BY <1>1, <1>3, <2>2, <3>1
    <2> QED
      BY <2>1, <2>2
  <1>7. W + S <= One
    <2> HIDE DEF v, S, W, held
    <2>1. CASE v = 0
      BY <1>2, <1>3, <1>5, <2>1
    <2>2. CASE v # 0
      <3>1. SUFFICES ASSUME One + 1 <= W + S PROVE FALSE
        BY <1>2, <1>4, <1>5
      <3> DEFINE b == W + S
                 h == held + c
      <3>2. v * (One + 1) <= v * b /\ v * (One + 1) = v * One + v /\ v * b = v * W + v * S
        <4>1. b \in Int /\ One + 1 \in Int /\ One + 1 <= b
          BY <1>2, <1>4, <1>5, <3>1
        <4>2. v * b = v * W + v * S
          BY <1>1, <1>2, <1>4
        <4>3. v * (One + 1) = v * One + v
          BY <1>1, <1>5
        <4> HIDE DEF b
        <4>4. v * (One + 1) <= v * b
          BY <1>1, <4>1, TimesKeepsOrder
        <4> QED
          BY <4>2, <4>3, <4>4
      <3>3. One * h <= One * v /\ One * h = held * One + c * One /\ One * v = v * One
        <4>1. h \in Int /\ h <= v /\ One * h = held * One + c * One
          BY <1>1, <1>5
        <4> HIDE DEF h
        <4> QED
          BY <1>1, <1>5, <4>1, TimesKeepsOrder
      <3>4. v * W \in Int /\ v * S \in Int /\ held * One \in Int /\ c * One \in Int /\ v * One \in Int
        BY <1>1, <1>2, <1>4, <1>5
      <3> HIDE DEF b, h
      <3> QED
        BY <1>1, <1>2, <1>3, <2>2, <3>2, <3>3, <3>4
    <2> QED
      BY <2>1, <2>2
  <1>8. W + S < 10 * One
    BY <1>2, <1>4, <1>5, <1>7
  <1>9. /\ Plus(w, share) \in Decimals
        /\ Parts(Plus(w, share)) <= W + S + 500
        /\ W + S <= Parts(Plus(w, share)) + 500
    <2> HIDE DEF w, share
    <2> QED
      BY <1>2, <1>3, <1>8, PlusIs
  <1>10. Parts(Plus(w, share)) \in Nat
    BY <1>9, PartsAre
  <1> QED
    BY <1>3, <1>4, <1>6, <1>9, <1>10

\* What is put on top, stock by stock.
Gained(p, given) == [stock \in DOMAIN given |-> Parts(given[stock]) - Parts(Weight(p, stock))]

LEMMA SpentIs ==
    ASSUME NEW p \in Portfolios, NEW given, \A stock \in DOMAIN given : given[stock] \in Decimals
    PROVE  /\ Spent(p, given) = <<Value(p) * SumFunctionOnSet(Gained(p, given), DOMAIN given), One>>
           /\ \A stock \in DOMAIN given : Gained(p, given)[stock] \in Int
  <1> DEFINE grown == [stock \in DOMAIN given |->
                        Grown(given[stock], Digits + 2) - Grown(Weight(p, stock), Digits + 2)]
  <1>1. ASSUME NEW stock \in DOMAIN given
        PROVE  /\ Grown(given[stock], Digits + 2) = Parts(given[stock]) /\ Parts(given[stock]) \in Nat
               /\ Grown(Weight(p, stock), Digits + 2) = Parts(Weight(p, stock)) /\ Parts(Weight(p, stock)) \in Nat
    BY WeightIs, PartsAre DEF Places
  <1>2. grown = Gained(p, given)
    BY <1>1 DEF Gained
  <1>3. Spent(p, given) = <<Value(p) * SumFunction(grown), One>>
    BY DEF Spent, One, Places
  <1>4. DOMAIN grown = DOMAIN given
    OBVIOUS
  <1>5. SumFunction(grown) = SumFunctionOnSet(grown, DOMAIN given)
    BY <1>4 DEF SumFunction
  <1> HIDE DEF grown
  <1>6. \A stock \in DOMAIN given : Gained(p, given)[stock] \in Int
    BY <1>1 DEF Gained
  <1> QED
    BY <1>2, <1>3, <1>5, <1>6

\* What the roundings of all stocks take off is less than a rupiah.
Dust(p) == 500 * Value(p)

LEMMA DustIs ==
    ASSUME PreciseShares, NEW p \in Portfolios, NEW n \in Nat, n <= Cardinality(Stocks)
    PROVE  Dust(p) \in Nat /\ n * Dust(p) \in Nat /\ 3 * (n * Dust(p)) < One
  <1> DEFINE v == Value(p)
             N == Cardinality(Stocks)
             d == Dust(p)
  <1>1. v \in Nat /\ d \in Nat /\ d = 500 * v
    BY PortfolioIs DEF Dust
  <1>2. N \in Nat /\ 15 * N * v < Tens[Digits]
    BY StrategiesConstants, FS_CardinalityType DEF PreciseShares
  <1>3. One = 100 * Tens[Digits] /\ Tens[Digits] \in Nat
    BY OneIs
  <1> HIDE DEF v, N, d
  <1>4. 15 * N * v = 15 * (N * v) /\ N * v \in Nat /\ N * d = 500 * (N * v)
    BY <1>1, <1>2
  <1>5. 3 * (N * d) < One
    BY <1>2, <1>3, <1>4
  <1>6. d * n <= d * N /\ d * n = n * d /\ d * N = N * d /\ n * d \in Nat /\ N * d \in Nat
    <2>1. n <= N
      BY DEF N
    <2> QED
      BY <1>1, <1>2, <2>1, TimesKeepsOrder
  <1>7. 3 * (n * d) < One
    BY <1>5, <1>6, OneIs
  <1> QED
    BY <1>1, <1>6, <1>7 DEF d

LEMMA AllOfIs ==
    ASSUME NEW amount \in Nat, NEW x \in Int, NEW stocks \in Nat,
           (amount - stocks) * One <= x, x < (amount + 1) * One
    PROVE  AllOf(amount, <<x, One>>, stocks)
  <1>1. One \in Nat /\ (amount - stocks) * One \in Int /\ (amount + 1) * One \in Int
    BY OneIs
  <1>2. x * 1 = x
    OBVIOUS
  <1> QED
    BY <1>1, <1>2 DEF AllOf, NotBelow

\* Weights as they are held put nothing on top.
LEMMA HeldSpend ==
    ASSUME NEW p \in Portfolios
    PROVE  AllOf(0, Spent(p, HeldWeights(p)), 0) /\ AllOf(0, Spent(p, HeldWeights(p)), Cardinality(Stocks))
  <1> DEFINE S == DOMAIN p.held
             given == HeldWeights(p)
  <1>1. DOMAIN given = S /\ \A stock \in S : given[stock] = Weight(p, stock)
    BY DEF HeldWeights
  <1> HIDE DEF given
  <1>2. \A stock \in DOMAIN given : given[stock] \in Decimals
    BY <1>1, WeightIs
  <1>3. Spent(p, given) = <<Value(p) * SumFunctionOnSet(Gained(p, given), S), One>>
    BY <1>1, <1>2, SpentIs
  <1>4. \A stock \in S : Gained(p, given)[stock] = 0
    <2> SUFFICES ASSUME NEW stock \in S PROVE Gained(p, given)[stock] = 0
      OBVIOUS
    <2>1. Parts(Weight(p, stock)) \in Nat
      BY WeightIs
    <2> QED
      BY <1>1, <2>1 DEF Gained
  <1>5. SumFunctionOnSet(Gained(p, given), S) = 0
    BY <1>4, PortfolioIs, SumZero
  <1>6. Value(p) * 0 = 0
    BY PortfolioIs
  <1>7. Spent(p, given) = <<0, One>>
    BY <1>3, <1>5, <1>6
  <1>8. Cardinality(Stocks) \in Nat /\ One \in Nat /\ 1000 <= One
    BY StrategiesConstants, FS_CardinalityType, OneIs
  <1>9. \A n \in Nat : (0 - n) * One <= 0
    <2> SUFFICES ASSUME NEW n \in Nat PROVE (0 - n) * One <= 0
      OBVIOUS
    <2>1. One * (0 - n) <= One * 0 /\ One * 0 = 0 /\ One * (0 - n) = (0 - n) * One
      BY <1>8, TimesKeepsOrder
    <2> QED
      BY <2>1
  <1>10. AllOf(0, <<0, One>>, 0) /\ AllOf(0, <<0, One>>, Cardinality(Stocks))
    BY <1>8, <1>9, AllOfIs
  <1> QED
    BY <1>7, <1>10 DEF given

\* Parts of the cash put on top of what is held add up to the cash, but for the rupiah that
\* dividing it leaves over.
LEMMA SharedIs ==
    ASSUME PreciseShares, NEW p \in Portfolios, NEW buying \in SUBSET Stocks, buying # {}, NEW c \in 0..p.cash
    PROVE  AllOf(c, Spent(p, Shared(p, buying, c)), Cardinality(Stocks))
  <1> DEFINE v == Value(p)
             n == Cardinality(buying)
             N == Cardinality(Stocks)
             q == c \div n
             each == RatioDown(q, v)
             E == Parts(each)
             S == DOMAIN p.held \cup buying
             given == Shared(p, buying, c)
             g == Gained(p, given)
             d == Dust(p)
  <1>1. /\ v \in Nat /\ p.cash \in Nat /\ c \in Nat /\ c <= p.cash
        /\ S \in SUBSET Stocks /\ IsFiniteSet(Stocks) /\ IsFiniteSet(S) /\ IsFiniteSet(buying)
    <2>1. v \in Nat /\ p.cash \in Nat /\ DOMAIN p.held \in SUBSET Stocks
      BY PortfolioIs
    <2>2. IsFiniteSet(Stocks)
      BY StrategiesConstants
    <2>3. S \in SUBSET Stocks
      BY <2>1
    <2>4. IsFiniteSet(S) /\ IsFiniteSet(buying)
      BY <2>2, <2>3, FS_Subset
    <2> QED
      BY <2>1, <2>2, <2>3, <2>4
  <1>2. n \in Nat \ {0} /\ N \in Nat /\ n <= N
    BY <1>1, FS_CardinalityType, FS_EmptySet, FS_Subset
  <1>3. q \in Int /\ n * q <= c /\ c < n * q + n
    <2> HIDE DEF n
    <2> QED
      BY <1>1, <1>2, Quotient
  <1>4. q \in 0..p.cash
    <2> HIDE DEF n, q
    <2>1. q \in Nat
      <3>1. SUFFICES ASSUME q <= -1 PROVE FALSE
        BY <1>3
      <3>2. n * q <= n * (-1) /\ n * (-1) = -n /\ n * q \in Int
        BY <1>2, <1>3, <3>1, TimesKeepsOrder
      <3> QED
        BY <1>1, <1>2, <1>3, <3>2
    <2>2. q * 1 <= q * n /\ q * n = n * q /\ n * q \in Int
      BY <1>2, <2>1, TimesKeepsOrder
    <2> QED
      BY <1>1, <1>3, <2>1, <2>2
  <1>5. /\ DOMAIN given = S
        /\ \A stock \in buying : given[stock] = Plus(Weight(p, stock), each)
        /\ \A stock \in S \ buying : given[stock] = Weight(p, stock)
    BY DEF Shared
  <1>6. /\ E \in Nat /\ v * E <= q * One /\ q * One <= v * E + v * 1000
        /\ \A stock \in buying :
            /\ given[stock] \in Decimals /\ g[stock] \in Int
            /\ E - 500 <= g[stock] /\ g[stock] <= E + 500
    <2>1. ASSUME NEW stock \in buying
          PROVE  /\ E \in Nat /\ v * E <= q * One /\ q * One <= v * E + v * 1000
                 /\ given[stock] \in Decimals /\ g[stock] \in Int
                 /\ E - 500 <= g[stock] /\ g[stock] <= E + 500
      <3>1. /\ each \in Decimals /\ E \in Nat
            /\ given[stock] \in Decimals /\ Parts(given[stock]) \in Nat
            /\ Parts(given[stock]) <= Parts(Weight(p, stock)) + E + 500
            /\ Parts(Weight(p, stock)) + E <= Parts(given[stock]) + 500
            /\ v * E <= q * One
            /\ q * One <= v * E + v * 1000
        <4> HIDE DEF q, given
        <4> QED
          BY <1>4, <1>5, SharePlus
      <3>2. Parts(Weight(p, stock)) \in Nat
        BY WeightIs
      <3>3. g[stock] = Parts(given[stock]) - Parts(Weight(p, stock))
        BY <1>5 DEF Gained
      <3> HIDE DEF E, g, given, v, q
      <3> QED
        BY <3>1, <3>2, <3>3
    <2> HIDE DEF E, g, given, v, q
    <2> QED
      BY <2>1
  <1>7. \A stock \in S \ buying : given[stock] \in Decimals /\ g[stock] = 0
    <2> SUFFICES ASSUME NEW stock \in S \ buying PROVE given[stock] \in Decimals /\ g[stock] = 0
      OBVIOUS
    <2>1. Weight(p, stock) \in Decimals /\ Parts(Weight(p, stock)) \in Nat /\ given[stock] = Weight(p, stock)
      BY <1>5, WeightIs
    <2>2. g[stock] = Parts(given[stock]) - Parts(Weight(p, stock))
      BY <1>5 DEF Gained
    <2> HIDE DEF g, given
    <2> QED
      BY <2>1, <2>2
  <1> DEFINE sum == SumFunctionOnSet(g, S)
             part == SumFunctionOnSet(g, buying)
             low == E - 500
             high == E + 500
  <1>8. Spent(p, given) = <<v * sum, One>>
    <2>1. \A stock \in DOMAIN given : given[stock] \in Decimals
      <3> HIDE DEF given, g, E
      <3> QED
        BY <1>5, <1>6, <1>7
    <2> HIDE DEF given, S
    <2> QED
      BY <1>5, <2>1, SpentIs
  <1> HIDE DEF given, g, E, each, q, v, n, N, S, d
  <1>9. buying \in SUBSET S /\ buying \union (S \ buying) = S
    BY DEF S
  <1>10. sum = part
    <2>1. \A stock \in S : g[stock] \in Int
      BY <1>6, <1>7
    <2>2. sum = part + SumFunctionOnSet(g, S \ buying)
      BY <1>1, <1>9, <2>1, SumSplit
    <2>3. SumFunctionOnSet(g, S \ buying) = 0
      BY <1>1, <1>7, FS_Subset, SumZero
    <2>4. part \in Int
      BY <1>1, <1>6, SumInt
    <2> QED
      BY <2>2, <2>3, <2>4
  <1>11. part \in Int /\ n * low <= part /\ part <= n * high
    <2>1. low \in Int /\ high \in Int /\ \A stock \in buying : g[stock] \in low..high
      BY <1>6
    <2> HIDE DEF low, high
    <2> QED
      BY <1>1, <2>1, SumBetween DEF n
  <1>12. d \in Nat /\ n * d \in Nat /\ 3 * (n * d) < One /\ d = 500 * v
    BY <1>2, DustIs DEF d, Dust, N, v
  <1> HIDE DEF sum, part
  <1> DEFINE ve == v * E
             qo == q * One
             lows == n * low
             highs == n * high
  <1>13. ve \in Nat /\ qo \in Nat /\ ve <= qo /\ qo <= ve + 2 * d /\ One \in Nat /\ q \in Nat
    BY <1>1, <1>4, <1>6, <1>12, OneIs
  <1>14. v * lows = n * ve - n * d /\ v * highs = n * ve + n * d /\ lows \in Int /\ highs \in Int
    <2>1. v * (n * (E - 500)) = n * (v * E) - n * (500 * v)
      BY <1>1, <1>2, <1>6
    <2>2. v * (n * (E + 500)) = n * (v * E) + n * (500 * v)
      BY <1>1, <1>2, <1>6
    <2> QED
      BY <1>1, <1>2, <1>6, <1>12, <2>1, <2>2
  <1>15. v * lows <= v * part /\ v * part <= v * highs /\ v * part \in Int
    <2>1. lows <= part /\ part <= highs
      BY <1>11
    <2> HIDE DEF lows, highs
    <2> QED
      BY <1>1, <1>11, <1>14, <2>1, TimesKeepsOrder
  <1> DEFINE x == v * part
             nq == n * q
             b == ve + 2 * d
  <1>16. n * ve <= n * qo /\ n * qo <= n * ve + 2 * (n * d) /\ n * qo = nq * One /\ nq \in Nat /\ n * ve \in Int
    <2>1. n * b = n * ve + 2 * (n * d) /\ b \in Int
      <3> HIDE DEF ve
      <3> QED
        BY <1>2, <1>12, <1>13
    <2>2. n * ve <= n * qo /\ n * qo <= n * b /\ n * ve \in Int
      <3> HIDE DEF ve, qo, b
      <3> QED
        BY <1>2, <1>13, <2>1, TimesKeepsOrder DEF b
    <2>3. n * (q * One) = (n * q) * One /\ n * q \in Nat
      BY <1>2, <1>4, <1>13
    <2> HIDE DEF ve, b
    <2> QED
      BY <2>1, <2>2, <2>3
  <1> DEFINE nd == n * d
             nqo == nq * One
  <1>17. /\ x \in Int /\ nd \in Nat /\ nqo \in Int /\ x <= nqo + nd /\ nqo - 3 * nd <= x /\ 3 * nd < One
    <2> HIDE DEF ve, qo, lows, highs, nq
    <2> QED
      BY <1>12, <1>13, <1>14, <1>15, <1>16
  <1>18. nq <= c /\ c <= nq + n - 1 /\ nq \in Nat
    BY <1>1, <1>2, <1>3, <1>16
  <1> HIDE DEF x, nq, nd
  <1>19. nqo <= c * One /\ c * One = One * c
    <2>1. One * nq <= One * c /\ One * nq = nq * One /\ One * c = c * One
      BY <1>1, <1>13, <1>18, TimesKeepsOrder
    <2> QED
      BY <2>1
  <1>20. (c - N) * One <= nqo - One
    <2> DEFINE e == c - N
    <2>1. e \in Int /\ nq - 1 \in Int /\ e <= nq - 1
      BY <1>1, <1>2, <1>18
    <2> HIDE DEF e
    <2>2. One * e <= One * (nq - 1) /\ One * (nq - 1) = nq * One - One /\ One * e = e * One
      BY <1>13, <1>18, <2>1, TimesKeepsOrder
    <2> QED
      BY <1>13, <2>1, <2>2 DEF e
  <1>21. (c + 1) * One = c * One + One /\ c * One \in Int /\ (c - N) * One \in Int
    BY <1>1, <1>2, <1>13
  <1>22. (c - N) * One <= x /\ x < (c + 1) * One
    <2> HIDE DEF nqo
    <2> QED
      BY <1>13, <1>17, <1>19, <1>20, <1>21
  <1>23. AllOf(c, <<x, One>>, N)
    BY <1>1, <1>2, <1>17, <1>22, AllOfIs
  <1> QED
    BY <1>8, <1>10, <1>23 DEF given, v, x, N

\* Of some stocks there is one filled before all others.
LEMMA FillsFirst ==
    ASSUME NEW U \in SUBSET Nat, IsFiniteSet(U), U # {},
           NEW room, \A stock \in U : room[stock] \in Decimals
    PROVE  \E a \in U : \A b \in U \ {a} : FillsBefore(room, a, b)
  <1> DEFINE R(s) == Parts(room[s])
             Wins(a, b) == R(a) < R(b) \/ (R(a) = R(b) /\ a < b)
             P == {T \in SUBSET U : T = {} \/ \E a \in T : \A b \in T \ {a} : Wins(a, b)}
  <1>1. \A s \in U : R(s) \in Nat /\ s \in Nat
    BY PartsAre
  <1>2. ASSUME NEW a \in U, NEW b \in U PROVE FillsBefore(room, a, b) <=> Wins(a, b)
    <2>1. AtMost(room[a], room[b]) <=> R(a) <= R(b)
      BY AtMostIs
    <2>2. AtMost(room[b], room[a]) <=> R(b) <= R(a)
      BY AtMostIs
    <2>3. R(a) \in Nat /\ R(b) \in Nat
      BY <1>1
    <2> HIDE DEF R
    <2> QED
      BY <2>1, <2>2, <2>3 DEF FillsBefore
  <1> HIDE DEF R
  <1>3. {} \in P
    OBVIOUS
  <1>4. ASSUME NEW T \in SUBSET U, NEW x \in U \ T, T \in P PROVE T \union {x} \in P
    <2>1. CASE T = {}
      BY <2>1
    <2>2. CASE T # {}
      <3>1. PICK a \in T : \A b \in T \ {a} : Wins(a, b)
        BY <1>4, <2>2
      <3>2. a \in U /\ x # a
        BY <1>4
      <3>3. CASE Wins(a, x)
        <4>1. \A b \in (T \union {x}) \ {a} : Wins(a, b)
          BY <3>1, <3>3
        <4> QED
          BY <4>1
      <3>4. CASE Wins(x, a)
        <4>1. ASSUME NEW b \in (T \union {x}) \ {x} PROVE Wins(x, b)
          <5>1. CASE b = a
            BY <3>4, <5>1
          <5>2. CASE b # a
            <6>1. Wins(a, b) /\ a \in U /\ b \in U /\ x \in U
              BY <3>1, <4>1, <5>2
            <6> QED
              BY <1>1, <3>4, <6>1
          <5> QED
            BY <5>1, <5>2
        <4> QED
          BY <4>1
      <3> QED
        BY <1>1, <3>2, <3>3, <3>4
    <2> QED
      BY <2>1, <2>2
  <1> HIDE DEF P
  <1>5. U \in P
    BY <1>3, <1>4, Subsets
  <1>6. PICK a \in U : \A b \in U \ {a} : Wins(a, b)
    BY <1>5 DEF P
  <1> QED
    BY <1>2, <1>6

\* A stock's room is what it is short of the target, but for half of a thousand parts.
LEMMA RoomIs ==
    ASSUME NEW p \in Portfolios, NEW buying, NEW target \in Decimals, Parts(target) <= One, NEW stock \in buying
    PROVE  LET w == Weight(p, stock)
               room == Room(p, buying, target)[stock]
           IN  /\ room \in Decimals /\ Parts(room) \in Nat
               /\ Parts(target) - Parts(w) <= Parts(room) + 500
               /\ Parts(w) + Parts(room) <= One + 500
  <1> DEFINE w == Weight(p, stock)
             room == Room(p, buying, target)[stock]
             T == Parts(target)
             W == Parts(w)
  <1>1. w \in Decimals /\ W \in Nat /\ W <= One /\ T \in Nat /\ One \in Nat /\ 1000 <= One
    BY WeightIs, PartsAre, OneIs
  <1>2. AtMost(target, w) <=> T <= W
    BY <1>1, AtMostIs
  <1>3. room = IF AtMost(target, w) THEN Zero ELSE Minus(target, w)
    BY DEF Room
  <1> HIDE DEF w, room
  <1>4. CASE T <= W
    BY <1>1, <1>2, <1>3, <1>4, ZeroIs DEF w, room
  <1>5. CASE W < T
    <2>1. room = Minus(target, w)
      BY <1>1, <1>2, <1>3, <1>5
    <2>2. T < 10 * One
      BY <1>1
    <2>3. room \in Decimals /\ Parts(room) <= T - W + 500 /\ T - W <= Parts(room) + 500
      BY <1>1, <1>5, <2>1, <2>2, MinusIs
    <2>4. Parts(room) \in Nat
      BY <2>3, PartsAre
    <2> HIDE DEF T, W
    <2> QED
      BY <1>1, <2>3, <2>4 DEF T, W, w, room
  <1> QED
    BY <1>1, <1>4, <1>5 DEF w, room

\* One stock filled: the one with the least room of those left gets its part of the cash, or
\* what it has room for where that is less, and comes to the target.
FillsOne(p, room, target, to, left, next, stock) ==
    LET offered == to.unspent \div left
        paid == to.unspent - next.unspent
        gained == Value(p) * (Parts(next.weights[stock]) - Parts(Weight(p, stock)))
        roomy == Value(p) * Parts(room[stock])
    IN  /\ stock \in DOMAIN room \ DOMAIN to.weights
        /\ DOMAIN next.weights = DOMAIN to.weights \cup {stock}
        /\ \A s \in DOMAIN to.weights : next.weights[s] = to.weights[s]
        /\ next.weights[stock] \in Decimals
        /\ \A other \in DOMAIN room \ DOMAIN to.weights : Parts(room[stock]) <= Parts(room[other])
        /\ paid \in 0..offered /\ gained <= paid * One + Dust(p)
        /\ \/ /\ paid = offered
              /\ offered * One <= gained + 3 * Dust(p) /\ offered * One <= roomy + 2 * Dust(p)
           \/ /\ roomy <= gained + Dust(p) /\ paid * One < roomy + One
              /\ Parts(target) - Parts(next.weights[stock]) <= 1000

FillsNext(p, buying, target, to, left, next) ==
    \E stock \in buying :
        /\ FillsOne(p, Room(p, buying, target), target, to, left, next, stock)
        /\ next = [unspent |-> next.unspent, weights |-> next.weights] /\ next.unspent \in 0..to.unspent
        /\ next.weights = [s \in DOMAIN to.weights \cup {stock} |-> next.weights[s]]

LEMMA FilledIs ==
    ASSUME NEW p \in Portfolios, NEW buying \in SUBSET Stocks, NEW target \in Decimals, Parts(target) <= One,
           NEW to, to.unspent \in 0..p.cash, DOMAIN to.weights \subseteq buying, DOMAIN to.weights # buying,
           NEW left \in Nat \ {0}
    PROVE  FillsNext(p, buying, target, to, left, Filled(p, Room(p, buying, target), to, left))
  <1> DEFINE room == Room(p, buying, target)
             D == DOMAIN to.weights
             others == DOMAIN room \ D
             stock == CHOOSE a \in others : \A b \in others \ {a} : FillsBefore(room, a, b)
             v == Value(p)
             u == to.unspent
             offered == u \div left
             share == RatioDown(offered, v)
             fits == AtMost(share, room[stock])
             up == RupiahUp(room[stock], v)
             w == Weight(p, stock)
             given == Plus(w, IF fits THEN share ELSE room[stock])
             next == Filled(p, room, to, left)
  <1>1. v \in Nat /\ p.cash \in Nat /\ u \in Nat /\ u <= p.cash /\ One \in Nat /\ 1000 <= One
    BY PortfolioIs, OneIs
  <1>2. DOMAIN room = buying /\ \A s \in buying : room[s] \in Decimals
    BY RoomIs DEF Room
  <1>3. stock \in others /\ \A b \in others \ {stock} : FillsBefore(room, stock, b)
    <2>1. others \in SUBSET Nat /\ IsFiniteSet(others) /\ others # {} /\ \A s \in others : room[s] \in Decimals
      <3>1. Stocks \in SUBSET Nat /\ IsFiniteSet(Stocks)
        BY StrategiesConstants
      <3>2. others \in SUBSET Stocks /\ others # {}
        <4> HIDE DEF room
        <4> QED
          BY <1>2
      <3> QED
        BY <1>2, <3>1, <3>2, FS_Subset
    <2> HIDE DEF others, room
    <2>2. \E a \in others : \A b \in others \ {a} : FillsBefore(room, a, b)
      BY <2>1, FillsFirst
    <2> QED
      BY <2>2
  <1>4. next = [unspent |-> u - (IF fits THEN offered ELSE up),
                weights |-> [s \in D \cup {stock} |-> IF s = stock THEN given ELSE to.weights[s]]]
    BY DEF Filled
  <1> DEFINE R == Parts(room[stock])
             W == Parts(w)
             E == Parts(share)
             G == Parts(given)
  <1>5. room[stock] \in Decimals /\ R \in Nat /\ Parts(target) - W <= R + 500 /\ W + R <= One + 500 /\ stock \in buying
    <2>1. stock \in buying
      BY <1>2, <1>3
    <2> HIDE DEF stock
    <2> QED
      BY <2>1, RoomIs
  <1>6. \A other \in others : R <= Parts(room[other])
    <2> SUFFICES ASSUME NEW other \in others PROVE R <= Parts(room[other])
      OBVIOUS
    <2>1. room[other] \in Decimals
      BY <1>2
    <2> HIDE DEF stock, room, others
    <2>2. CASE other = stock
      BY <1>5, <2>2
    <2>3. CASE other # stock
      <3>1. AtMost(room[stock], room[other])
        BY <1>3, <2>3 DEF FillsBefore
      <3> QED
        BY <1>5, <2>1, <3>1, AtMostIs
    <2> QED
      BY <2>2, <2>3
  <1> HIDE DEF room, others, stock
  <1>7. offered \in Nat /\ offered <= u
    <2>1. offered \in Int /\ left * offered <= u /\ u < left * offered + left
      <3> HIDE DEF u
      <3> QED
        BY <1>1, Quotient
    <2> HIDE DEF offered
    <2>2. offered \in Nat
      <3>1. SUFFICES ASSUME offered <= -1 PROVE FALSE
        BY <2>1
      <3>2. left * offered <= left * (-1) /\ left * (-1) = -left /\ left * offered \in Int
        BY <2>1, <3>1, TimesKeepsOrder
      <3> QED
        BY <1>1, <2>1, <3>2
    <2>3. offered * 1 <= offered * left /\ offered * left = left * offered /\ left * offered \in Int
      BY <2>2, TimesKeepsOrder
    <2> QED
      BY <1>1, <2>1, <2>2, <2>3
  <1>8. /\ share \in Decimals /\ E \in Nat
        /\ Plus(w, share) \in Decimals /\ Parts(Plus(w, share)) \in Nat
        /\ Parts(Plus(w, share)) <= W + E + 500
        /\ W + E <= Parts(Plus(w, share)) + 500
        /\ v * E <= offered * One
        /\ offered * One <= v * E + v * 1000
    <2>1. offered \in 0..p.cash
      BY <1>1, <1>7
    <2> HIDE DEF offered
    <2> QED
      BY <2>1, SharePlus
  <1>9. W \in Nat /\ w \in Decimals
    BY WeightIs
  <1>10. fits <=> E <= R
    BY <1>5, <1>8, AtMostIs
  <1>11. up \in Nat /\ v * R <= up * One /\ up * One < v * R + One
    BY <1>1, <1>5, RupiahUpIs
  <1>12. Dust(p) \in Nat /\ Dust(p) = 500 * v
    BY <1>1 DEF Dust
  <1> HIDE DEF next, u, v, w, offered, share, up, D
  <1>13. /\ next = [unspent |-> next.unspent, weights |-> next.weights]
         /\ next.weights = [s \in D \cup {stock} |-> next.weights[s]]
         /\ DOMAIN next.weights = D \cup {stock}
         /\ next.weights[stock] = given
         /\ \A s \in D : next.weights[s] = to.weights[s]
         /\ u - next.unspent = IF fits THEN offered ELSE up
    <2>1. stock \notin D
      BY <1>3 DEF others
    <2>2. next.weights = [s \in D \cup {stock} |-> IF s = stock THEN given ELSE to.weights[s]]
      BY <1>4
    <2>3. next.unspent = u - (IF fits THEN offered ELSE up) /\ next = [unspent |-> next.unspent, weights |-> next.weights]
      BY <1>4
    <2>4. u - next.unspent = IF fits THEN offered ELSE up
      <3> HIDE DEF fits
      <3> QED
        BY <1>1, <1>7, <1>11, <2>3
    <2> HIDE DEF given, fits
    <2> QED
      BY <2>1, <2>2, <2>3, <2>4
  <1> DEFINE paid == u - next.unspent
             gained == v * (G - W)
             roomy == v * R
  <1>14. SUFFICES /\ given \in Decimals /\ paid \in 0..offered /\ gained <= paid * One + Dust(p)
                  /\ \/ /\ paid = offered
                        /\ offered * One <= gained + 3 * Dust(p) /\ offered * One <= roomy + 2 * Dust(p)
                     \/ /\ roomy <= gained + Dust(p) /\ paid * One < roomy + One
                        /\ Parts(target) - G <= 1000
    <2>1. FillsOne(p, room, target, to, left, next, stock)
      <3>1. /\ offered = to.unspent \div left /\ paid = to.unspent - next.unspent
            /\ roomy = Value(p) * Parts(room[stock])
        BY DEF u, v, offered
      <3>2. gained = Value(p) * (Parts(next.weights[stock]) - Parts(Weight(p, stock))) /\ G = Parts(next.weights[stock])
        BY <1>13 DEF v, w
      <3>3. next.weights[stock] \in Decimals /\ DOMAIN next.weights = DOMAIN to.weights \cup {stock}
        BY <1>13, <1>14 DEF D
      <3>4. stock \in DOMAIN room \ DOMAIN to.weights
        BY <1>3 DEF others, D
      <3>5. \A s \in DOMAIN to.weights : next.weights[s] = to.weights[s]
        BY <1>13 DEF D
      <3>6. \A other \in DOMAIN room \ DOMAIN to.weights : Parts(room[stock]) <= Parts(room[other])
        BY <1>6 DEF others, D
      <3> HIDE DEF given, paid, gained, roomy, fits, R, W, E, G
      <3> QED
        BY <1>14, <3>1, <3>2, <3>3, <3>4, <3>5, <3>6 DEF FillsOne
    <2>2. next.unspent \in 0..u
      <3>1. paid \in 0..offered /\ next.unspent = u - (IF fits THEN offered ELSE up)
        BY <1>4, <1>14
      <3>2. next.unspent \in Int
        <4> HIDE DEF fits
        <4> QED
          BY <1>1, <1>7, <1>11, <3>1
      <3> QED
        BY <1>1, <1>7, <3>1, <3>2
    <2> HIDE DEF paid, given, fits, gained, roomy
    <2> QED
      BY <1>5, <1>13, <2>1, <2>2 DEF FillsNext, room, next, D, u
  <1>15. CASE fits
    <2>1. given = Plus(w, share) /\ paid = offered /\ E <= R
      BY <1>10, <1>13, <1>15
    <2>2. given \in Decimals /\ G \in Nat /\ G <= W + E + 500 /\ W + E <= G + 500
      BY <1>8, <2>1
    <2> HIDE DEF given, fits, paid, G, W, E, R
    <2>3. v * (G - W) <= v * (E + 500) /\ v * (E - 500) <= v * (G - W) /\ v * E <= v * R
      <3>1. G - W <= E + 500 /\ E - 500 <= G - W /\ G - W \in Int /\ E + 500 \in Int /\ E - 500 \in Int
        BY <1>8, <1>9, <2>2
      <3> QED
        BY <1>1, <1>5, <1>8, <2>1, <3>1, TimesKeepsOrder
    <2>4. v * (E + 500) = v * E + 500 * v /\ v * (E - 500) = v * E - 500 * v /\ v * 1000 = 2 * (500 * v)
      BY <1>1, <1>8
    <2>5. v * E \in Int /\ v * R \in Int /\ v * (G - W) \in Int /\ offered * One \in Int /\ G - W \in Int
      BY <1>1, <1>5, <1>7, <1>8, <1>9, <2>2
    <2>6. gained <= offered * One + Dust(p) /\ offered * One <= gained + 3 * Dust(p) /\ offered * One <= roomy + 2 * Dust(p)
      BY <1>8, <1>12, <2>3, <2>4, <2>5
    <2>7. paid \in 0..offered
      BY <1>7, <2>1
    <2> HIDE DEF gained, roomy
    <2> QED
      BY <2>1, <2>2, <2>6, <2>7
  <1>16. CASE ~fits
    <2>1. given = Plus(w, room[stock]) /\ paid = up /\ R < E
      BY <1>5, <1>8, <1>10, <1>13, <1>16
    <2>2. given \in Decimals /\ G <= W + R + 500 /\ W + R <= G + 500
      <3>1. W + R < 10 * One
        BY <1>1, <1>5, <1>9
      <3> QED
        BY <1>5, <1>9, <2>1, <3>1, PlusIs
    <2>3. G \in Nat
      BY <2>2, PartsAre
    <2> HIDE DEF given, fits, paid, G, W, E, R
    <2>4. v * (G - W) <= v * (R + 500) /\ v * (R - 500) <= v * (G - W) /\ v * R <= v * E
      <3>1. G - W <= R + 500 /\ R - 500 <= G - W /\ R <= E /\ G - W \in Int /\ R + 500 \in Int /\ R - 500 \in Int
        BY <1>5, <1>8, <1>9, <2>1, <2>2, <2>3
      <3> QED
        BY <1>1, <1>5, <1>8, <3>1, TimesKeepsOrder
    <2>5. v * (R + 500) = v * R + 500 * v /\ v * (R - 500) = v * R - 500 * v
      BY <1>1, <1>5
    <2>6. v * E \in Int /\ v * R \in Int /\ v * (G - W) \in Int /\ offered * One \in Int /\ up * One \in Int
      BY <1>1, <1>5, <1>7, <1>8, <1>9, <1>11, <2>3
    <2>7. gained <= up * One + Dust(p) /\ roomy <= gained + Dust(p) /\ up * One < roomy + One
      BY <1>1, <1>11, <1>12, <2>4, <2>5, <2>6
    <2>8. up <= offered
      <3>1. SUFFICES ASSUME offered + 1 <= up PROVE FALSE
        BY <1>7, <1>11
      <3>2. One * (offered + 1) <= One * up /\ One * (offered + 1) = offered * One + One /\ One * up = up * One
        BY <1>1, <1>7, <1>11, <3>1, TimesKeepsOrder
      <3> QED
        BY <1>1, <1>8, <1>11, <2>4, <2>6, <3>2
    <2>9. paid \in 0..offered
      BY <1>7, <1>11, <2>1, <2>8
    <2>10. Parts(target) \in Nat
      BY PartsAre
    <2>11. Parts(target) - G <= 1000
      BY <1>5, <1>9, <2>2, <2>3, <2>10
    <2> HIDE DEF gained, roomy
    <2> QED
      BY <2>1, <2>2, <2>7, <2>9, <2>11
  <1> QED
    BY <1>15, <1>16

\* The stocks filled so far, one more each turn.
ToStep(p, room, count, i, to) ==
    IF i = 0 THEN [unspent |-> p.cash, weights |-> [stock \in {} |-> Zero]]
    ELSE Filled(p, room, to[i - 1], count + 1 - i)

FilledSome(p, buying, to) ==
    /\ to.unspent \in 0..p.cash
    /\ DOMAIN to.weights \in SUBSET buying
    /\ \A s \in DOMAIN to.weights : to.weights[s] \in Decimals

LEMMA TopUpUnfold ==
    ASSUME NEW p \in Portfolios, NEW buying \in SUBSET Stocks, NEW target \in Decimals, Parts(target) <= One
    PROVE  LET n == Cardinality(buying)
               room == Room(p, buying, target)
           IN  \E to :
                /\ TopUp(p, buying, target) = to[n].weights
                /\ to[0].unspent = p.cash
                /\ \A i \in 0..n : FilledSome(p, buying, to[i]) /\ Cardinality(DOMAIN to[i].weights) = i
                /\ \A i \in 1..n : \E stock \in buying :
                        FillsOne(p, room, target, to[i - 1], n + 1 - i, to[i], stock)
  <1> DEFINE n == Cardinality(buying)
             room == Room(p, buying, target)
             Given == UNION {[D -> Decimals] : D \in SUBSET buying}
             V == [unspent : 0..p.cash, weights : Given]
             F == [q \in (1..n) \X V |->
                    IF DOMAIN q[2].weights = buying THEN q[2] ELSE Filled(p, room, q[2], n + 1 - q[1])]
             start == [unspent |-> p.cash, weights |-> [stock \in {} |-> Zero]]
  <1>1. p.cash \in Nat /\ IsFiniteSet(buying) /\ n \in Nat
    BY PortfolioIs, StrategiesConstants, FS_Subset, FS_CardinalityType
  <1>2. \A to \in V : FilledSome(p, buying, to)
    <2> SUFFICES ASSUME NEW to \in V PROVE FilledSome(p, buying, to)
      OBVIOUS
    <2>1. to.unspent \in 0..p.cash /\ to.weights \in Given
      OBVIOUS
    <2>2. PICK D \in SUBSET buying : to.weights \in [D -> Decimals]
      BY <2>1
    <2> QED
      BY <2>1, <2>2 DEF FilledSome
  <1>3. ASSUME NEW u \in 0..p.cash, NEW D \in SUBSET buying, NEW g \in [D -> Decimals]
        PROVE  [unspent |-> u, weights |-> g] \in V
    <2>1. g \in Given
      OBVIOUS
    <2> HIDE DEF Given
    <2> QED
      BY <2>1
  <1>4. start \in V
    <2>1. [stock \in {} |-> Zero] \in [{} -> Decimals] /\ {} \in SUBSET buying /\ p.cash \in 0..p.cash
      BY <1>1
    <2> HIDE DEF V
    <2> QED
      BY <1>3, <2>1
  \* A stock more each turn, for as long as some are left.
  <1>5. ASSUME NEW i \in 1..n, NEW to \in V, DOMAIN to.weights # buying
        PROVE  /\ Filled(p, room, to, n + 1 - i) \in V
               /\ \E stock \in buying :
                    /\ FillsOne(p, room, target, to, n + 1 - i, Filled(p, room, to, n + 1 - i), stock)
                    /\ Cardinality(DOMAIN Filled(p, room, to, n + 1 - i).weights) = Cardinality(DOMAIN to.weights) + 1
    <2> DEFINE left == n + 1 - i
               next == Filled(p, room, to, left)
    <2>1. left \in Nat \ {0} /\ to.unspent \in 0..p.cash /\ DOMAIN to.weights \in SUBSET buying
          /\ \A s \in DOMAIN to.weights : to.weights[s] \in Decimals
      BY <1>1, <1>2, <1>5 DEF FilledSome
    <2> HIDE DEF left
    <2>2. PICK stock \in buying :
            /\ FillsOne(p, room, target, to, left, next, stock)
            /\ next = [unspent |-> next.unspent, weights |-> next.weights] /\ next.unspent \in 0..to.unspent
            /\ next.weights = [s \in DOMAIN to.weights \cup {stock} |-> next.weights[s]]
      <3> HIDE DEF V, room
      <3>1. DOMAIN to.weights \subseteq buying /\ DOMAIN to.weights # buying /\ room = Room(p, buying, target)
        BY <1>5, <2>1 DEF room
      <3>2. FillsNext(p, buying, target, to, left, Filled(p, Room(p, buying, target), to, left))
        BY <2>1, <3>1, FilledIs
      <3> QED
        BY <3>1, <3>2 DEF FillsNext
    <2> HIDE DEF next, V, room
    <2>3. /\ stock \notin DOMAIN to.weights /\ DOMAIN next.weights = DOMAIN to.weights \cup {stock}
          /\ \A s \in DOMAIN next.weights : next.weights[s] \in Decimals
      BY <2>1, <2>2 DEF FillsOne
    <2>4. next \in V
      <3> DEFINE D == DOMAIN to.weights \cup {stock}
      <3>1. next.weights \in [D -> Decimals] /\ D \in SUBSET buying
        BY <2>1, <2>2, <2>3
      <3>2. next.unspent \in 0..p.cash
        BY <1>1, <2>1, <2>2
      <3> HIDE DEF D
      <3>3. [unspent |-> next.unspent, weights |-> next.weights] \in V
        BY <1>3, <3>1, <3>2
      <3> QED
        BY <2>2, <3>3
    <2>5. Cardinality(DOMAIN next.weights) = Cardinality(DOMAIN to.weights) + 1
      <3>1. IsFiniteSet(DOMAIN to.weights)
        BY <1>1, <2>1, FS_Subset
      <3> QED
        BY <2>3, <3>1, FS_AddElement
    <2> QED
      BY <2>2, <2>4, <2>5 DEF next, left
  <1>6. F \in [(1..n) \X V -> V]
    <2>1. ASSUME NEW q \in (1..n) \X V PROVE F[q] \in V
      <3>1. q[1] \in 1..n /\ q[2] \in V
        <4> HIDE DEF V
        <4> QED
          OBVIOUS
      <3>2. F[q] = IF DOMAIN q[2].weights = buying THEN q[2] ELSE Filled(p, room, q[2], n + 1 - q[1])
        <4> HIDE DEF V, room
        <4> QED
          OBVIOUS
      <3> HIDE DEF V, room
      <3> QED
        BY <1>5, <3>1, <3>2
    <2> HIDE DEF V, room
    <2> QED
      BY <2>1
  <1>7. \A i \in 1..n, to \in V : DOMAIN to.weights # buying => F[<<i, to>>] = Filled(p, room, to, n + 1 - i)
    <2> HIDE DEF V, room
    <2> QED
      OBVIOUS
  <1>8. /\ start.unspent = p.cash /\ DOMAIN start.weights = {}
        /\ \A h : ToStep(p, room, n, 0, h) = start
        /\ \A h : \A i \in 1..n : ToStep(p, room, n, i, h) = Filled(p, room, h[i - 1], n + 1 - i)
    BY DEF ToStep
  <1>9. TopUp(p, buying, target) = (CHOOSE h : h = [i \in 0..n |-> ToStep(p, room, n, i, h)])[n].weights
    BY DEF TopUp, ToStep
  <1>10. \A to \in V : Cardinality(DOMAIN to.weights) < n => DOMAIN to.weights # buying
    <2> HIDE DEF V
    <2> QED
      BY <1>1
  <1> HIDE DEF F, V, start, room
  <1>11. PICK g : Steps(g, n, V, start, F)
    <2> HIDE DEF n
    <2> QED
      BY <1>1, <1>4, <1>6, StepByStep
  <1> DEFINE Fills(h) == {i \in Nat : i <= n => h[i] \in V /\ Cardinality(DOMAIN h[i].weights) = i}
  <1>12. Nat \subseteq Fills(g)
    <2>1. 0 \in Fills(g)
      BY <1>4, <1>8, <1>11, FS_EmptySet DEF Steps
    <2>2. ASSUME NEW i \in Nat, i \in Fills(g) PROVE i + 1 \in Fills(g)
      <3>1. SUFFICES ASSUME i + 1 <= n PROVE g[i + 1] \in V /\ Cardinality(DOMAIN g[i + 1].weights) = i + 1
        OBVIOUS
      <3>2. g[i] \in V /\ Cardinality(DOMAIN g[i].weights) = i /\ i < n
        BY <1>1, <2>2, <3>1
      <3>3. i + 1 \in 1..n /\ (i + 1) - 1 = i
        BY <3>1
      <3>4. g[i + 1] = F[<<i + 1, g[i]>>]
        BY <1>11, <3>3 DEF Steps
      <3>5. DOMAIN g[i].weights # buying
        BY <1>10, <3>2
      <3>6. g[i + 1] = Filled(p, room, g[i], n + 1 - (i + 1))
        BY <1>7, <3>2, <3>3, <3>4, <3>5
      <3> QED
        BY <1>5, <3>2, <3>3, <3>5, <3>6
    <2> HIDE DEF Fills
    <2> QED
      BY <2>1, <2>2, Naturals
  <1>13. g = [i \in 0..n |-> ToStep(p, room, n, i, g)]
    <2>1. ASSUME NEW i \in 0..n PROVE g[i] = ToStep(p, room, n, i, g)
      <3>1. CASE i = 0
        BY <1>8, <1>11, <3>1 DEF Steps
      <3>2. CASE i # 0
        <4>1. i \in 1..n /\ i - 1 \in Nat /\ i - 1 < n
          BY <1>1, <3>2
        <4>2. g[i - 1] \in V /\ Cardinality(DOMAIN g[i - 1].weights) = i - 1
          BY <1>1, <1>12, <4>1
        <4>3. g[i] = F[<<i, g[i - 1]>>]
          BY <1>11, <4>1 DEF Steps
        <4> QED
          BY <1>1, <1>7, <1>8, <1>10, <4>1, <4>2, <4>3
      <3> QED
        BY <3>1, <3>2
    <2> QED
      BY <1>11, <2>1 DEF Steps
  <1> DEFINE to == CHOOSE h : h = [i \in 0..n |-> ToStep(p, room, n, i, h)]
  <1>14. to = [i \in 0..n |-> ToStep(p, room, n, i, to)]
    BY <1>13
  <1>15. TopUp(p, buying, target) = to[n].weights
    BY <1>9
  <1> HIDE DEF to
  <1>16. \A i \in 0..n : to[i] = ToStep(p, room, n, i, to)
    BY <1>14
  <1>17. to[0] = start /\ \A i \in 1..n : to[i] = Filled(p, room, to[i - 1], n + 1 - i)
    BY <1>1, <1>8, <1>16
  <1>18. Nat \subseteq Fills(to)
    <2>1. 0 \in Fills(to)
      BY <1>4, <1>8, <1>17, FS_EmptySet
    <2>2. ASSUME NEW i \in Nat, i \in Fills(to) PROVE i + 1 \in Fills(to)
      <3>1. SUFFICES ASSUME i + 1 <= n PROVE to[i + 1] \in V /\ Cardinality(DOMAIN to[i + 1].weights) = i + 1
        OBVIOUS
      <3>2. to[i] \in V /\ Cardinality(DOMAIN to[i].weights) = i /\ i < n
        BY <1>1, <2>2, <3>1
      <3>3. i + 1 \in 1..n /\ (i + 1) - 1 = i
        BY <3>1
      <3>4. to[i + 1] = Filled(p, room, to[i], n + 1 - (i + 1))
        BY <1>17, <3>3
      <3>5. DOMAIN to[i].weights # buying
        BY <1>10, <3>2
      <3> QED
        BY <1>5, <3>2, <3>3, <3>4, <3>5
    <2> HIDE DEF Fills
    <2> QED
      BY <2>1, <2>2, Naturals
  <1>19. \A i \in 0..n : to[i] \in V /\ Cardinality(DOMAIN to[i].weights) = i
    BY <1>1, <1>18
  <1>20. ASSUME NEW i \in 1..n
         PROVE  \E stock \in buying : FillsOne(p, room, target, to[i - 1], n + 1 - i, to[i], stock)
    <2>1. i - 1 \in 0..n /\ i - 1 < n
      BY <1>1
    <2>2. to[i - 1] \in V /\ DOMAIN to[i - 1].weights # buying
      BY <1>10, <1>19, <2>1
    <2> QED
      BY <1>5, <1>17, <2>2
  <1>21. /\ TopUp(p, buying, target) = to[n].weights
         /\ to[0].unspent = p.cash
         /\ \A i \in 0..n : FilledSome(p, buying, to[i]) /\ Cardinality(DOMAIN to[i].weights) = i
         /\ \A i \in 1..n : \E stock \in buying : FillsOne(p, room, target, to[i - 1], n + 1 - i, to[i], stock)
    BY <1>2, <1>8, <1>15, <1>17, <1>19, <1>20
  <1> HIDE DEF n
  <1> QED
    BY <1>21 DEF room, n

\* What the stocks filled so far have put on top of what is held.
Gains(p, given) == SumFunctionOnSet(Gained(p, given), DOMAIN given)

LEMMA GainsMore ==
    ASSUME NEW p \in Portfolios, NEW buying \in SUBSET Stocks, NEW to, NEW next, NEW room, NEW target, NEW left,
           NEW stock, FilledSome(p, buying, to), FilledSome(p, buying, next),
           FillsOne(p, room, target, to, left, next, stock)
    PROVE  /\ Gains(p, to.weights) \in Int
           /\ Gains(p, next.weights)
                = Gains(p, to.weights) + (Parts(next.weights[stock]) - Parts(Weight(p, stock)))
           /\ Parts(next.weights[stock]) - Parts(Weight(p, stock)) \in Int
  <1> DEFINE D == DOMAIN to.weights
             E == DOMAIN next.weights
             g == Gained(p, to.weights)
             h == Gained(p, next.weights)
  <1>1. /\ E = D \cup {stock} /\ stock \notin D
        /\ \A s \in D : next.weights[s] = to.weights[s]
        /\ \A s \in D : to.weights[s] \in Decimals
        /\ \A s \in E : next.weights[s] \in Decimals
        /\ D \in SUBSET buying
    BY DEF FillsOne, FilledSome
  <1>2. IsFiniteSet(D)
    BY <1>1, StrategiesConstants, FS_Subset
  <1>3. /\ \A s \in D : g[s] \in Int
        /\ \A s \in E : h[s] \in Int
    BY <1>1, SpentIs
  <1>4. /\ \A s \in D : g[s] = Parts(to.weights[s]) - Parts(Weight(p, s))
        /\ \A s \in E : h[s] = Parts(next.weights[s]) - Parts(Weight(p, s))
    BY DEF Gained
  <1> HIDE DEF g, h, D, E
  <1>5. \A s \in D : g[s] \in Int /\ g[s] = h[s]
    BY <1>1, <1>3, <1>4
  <1>6. SumFunctionOnSet(g, D) = SumFunctionOnSet(h, D)
    BY <1>2, <1>5, SumSame
  <1>7. SumFunctionOnSet(h, E) = h[stock] + SumFunctionOnSet(h, D)
    BY <1>1, <1>2, <1>3, SumAdd
  <1>8. SumFunctionOnSet(g, D) \in Int
    BY <1>2, <1>5, SumInt
  <1>9. h[stock] \in Int /\ h[stock] = Parts(next.weights[stock]) - Parts(Weight(p, stock))
    BY <1>1, <1>3, <1>4
  <1> QED
    BY <1>6, <1>7, <1>8, <1>9 DEF Gains, g, h, D, E

\* After i turns: no more is spent than the cash. Either every stock filled is at its target,
\* and what they left is unspent; or one could not use its part, and then what is unspent is
\* as much for each stock left, which has room for it.
FillsFit(p, buying, target, i, to) ==
    LET n == Cardinality(buying)
        spent == Value(p) * Gains(p, to.weights)
        d == Dust(p)
    IN  /\ spent + to.unspent * One <= p.cash * One + i * d
        /\ \/ /\ \A s \in DOMAIN to.weights : Parts(target) - Parts(to.weights[s]) <= 1000
              /\ p.cash * One <= spent + to.unspent * One + i * One + i * d
           \/ \E o \in Nat :
                /\ (n - i) * o <= to.unspent
                /\ p.cash * One <= spent + (n - i) * (o * One) + (n - 1) * One + i * (3 * d)
                /\ \A s \in buying \ DOMAIN to.weights :
                        o * One <= Value(p) * Parts(Room(p, buying, target)[s]) + 2 * d

LEMMA FillsFitStep ==
    ASSUME NEW p \in Portfolios, NEW buying \in SUBSET Stocks, NEW target \in Decimals, Parts(target) <= One,
           NEW i \in 1..Cardinality(buying), NEW to, NEW next, NEW stock \in buying,
           FilledSome(p, buying, to), FilledSome(p, buying, next),
           FillsOne(p, Room(p, buying, target), target, to, Cardinality(buying) + 1 - i, next, stock),
           FillsFit(p, buying, target, i - 1, to)
    PROVE  FillsFit(p, buying, target, i, next)
  <1> DEFINE n == Cardinality(buying)
             left == n + 1 - i
             room == Room(p, buying, target)
             v == Value(p)
             d == Dust(p)
             u == to.unspent
             u2 == next.unspent
             offered == u \div left
             paid == u - u2
             sum == Gains(p, to.weights)
             more == Parts(next.weights[stock]) - Parts(Weight(p, stock))
             sum2 == Gains(p, next.weights)
             spent == v * sum
             gained == v * more
             roomy == v * Parts(room[stock])
             cash == p.cash * One
  <1>1. /\ v \in Nat /\ d \in Nat /\ One \in Nat /\ p.cash \in Nat /\ cash \in Nat
        /\ n \in Nat /\ left \in Nat \ {0} /\ i \in Nat \ {0} /\ i - 1 \in Nat /\ left + i - 1 = n
    <2>1. v \in Nat /\ d \in Nat /\ One \in Nat /\ p.cash \in Nat
      BY PortfolioIs, OneIs DEF Dust
    <2>2. n \in Nat
      BY StrategiesConstants, FS_Subset, FS_CardinalityType
    <2>3. cash \in Nat
      BY <2>1
    <2> HIDE DEF v, d, cash
    <2> QED
      BY <2>1, <2>2, <2>3
  <1>2. u \in Nat /\ u2 \in Nat
    BY <1>1 DEF FilledSome
  <1>3. sum \in Int /\ sum2 = sum + more /\ more \in Int
    BY GainsMore
  <1>4. \A s \in buying : Parts(room[s]) \in Nat
    BY RoomIs
  <1>5. /\ stock \in buying \ DOMAIN to.weights
        /\ DOMAIN next.weights = DOMAIN to.weights \cup {stock}
        /\ \A s \in DOMAIN to.weights : next.weights[s] = to.weights[s]
        /\ \A other \in buying \ DOMAIN to.weights : Parts(room[stock]) <= Parts(room[other])
        /\ paid \in 0..offered /\ gained <= paid * One + d
        /\ \/ /\ paid = offered
              /\ offered * One <= gained + 3 * d /\ offered * One <= roomy + 2 * d
           \/ /\ roomy <= gained + d /\ paid * One < roomy + One
              /\ Parts(target) - Parts(next.weights[stock]) <= 1000
    <2>1. DOMAIN room = buying
      BY DEF Room
    <2> HIDE DEF room
    <2> QED
      BY <2>1 DEF FillsOne, room
  <1>6. /\ spent + u * One <= cash + (i - 1) * d
        /\ \/ /\ \A s \in DOMAIN to.weights : Parts(target) - Parts(to.weights[s]) <= 1000
              /\ cash <= spent + u * One + (i - 1) * One + (i - 1) * d
           \/ \E o \in Nat :
                /\ (n - (i - 1)) * o <= u
                /\ cash <= spent + (n - (i - 1)) * (o * One) + (n - 1) * One + (i - 1) * (3 * d)
                /\ \A s \in buying \ DOMAIN to.weights : o * One <= v * Parts(room[s]) + 2 * d
    BY DEF FillsFit
  <1>7. SUFFICES /\ v * sum2 + u2 * One <= cash + i * d
                 /\ \/ /\ \A s \in DOMAIN next.weights : Parts(target) - Parts(next.weights[s]) <= 1000
                       /\ cash <= v * sum2 + u2 * One + i * One + i * d
                    \/ \E o \in Nat :
                        /\ (n - i) * o <= u2
                        /\ cash <= v * sum2 + (n - i) * (o * One) + (n - 1) * One + i * (3 * d)
                        /\ \A s \in buying \ DOMAIN next.weights : o * One <= v * Parts(room[s]) + 2 * d
    BY DEF FillsFit
  <1>8. n - (i - 1) = left /\ n - i = left - 1 /\ left - 1 \in Nat
    BY <1>1
  <1>9. offered \in Int /\ left * offered <= u /\ u < left * offered + left
    <2> HIDE DEF left, u
    <2> QED
      BY <1>1, <1>2, Quotient
  <1> HIDE DEF offered, left, n, v, d, u, u2, sum, more, sum2, room, cash
  <1>10. paid \in Nat /\ paid <= offered /\ u2 = u - paid /\ offered \in Nat
    BY <1>2, <1>5, <1>9
  <1>11. Parts(room[stock]) \in Nat
    BY <1>4, <1>5
  <1>12. v * sum2 = spent + gained /\ spent \in Int /\ gained \in Int /\ roomy \in Int
    BY <1>1, <1>3, <1>11
  <1> HIDE DEF paid
  <1>13. u2 * One = u * One - paid * One /\ u * One \in Int /\ paid * One \in Int
    BY <1>1, <1>2, <1>10
  <1>14. /\ i * d = (i - 1) * d + d /\ (i - 1) * d \in Nat
         /\ i * One = (i - 1) * One + One /\ (i - 1) * One \in Int
         /\ i * (3 * d) = 3 * ((i - 1) * d) + 3 * d /\ (i - 1) * (3 * d) = 3 * ((i - 1) * d)
    BY <1>1
  <1> DEFINE e == (i - 1) * d
             U == u * One
             Pd == paid * One
             I == (i - 1) * One
             O == offered * One
  <1>15. e \in Nat /\ U \in Int /\ Pd \in Int /\ I \in Int /\ O \in Int
    BY <1>1, <1>10, <1>13, <1>14
  <1>16. v * sum2 + u2 * One <= cash + i * d
    <2>1. gained <= Pd + d /\ spent + U <= cash + e
      BY <1>5, <1>6
    <2>2. v * sum2 + u2 * One = spent + gained + U - Pd /\ cash + i * d = cash + e + d
      <3>1. v * sum2 = spent + gained /\ u2 * One = U - Pd /\ i * d = e + d
        BY <1>12, <1>13, <1>14
      <3> HIDE DEF gained, spent, U, Pd, e
      <3> QED
        BY <1>1, <1>12, <1>15, <3>1
    <2> HIDE DEF gained, spent, U, Pd, e
    <2> QED
      BY <1>1, <1>12, <1>15, <2>1, <2>2
  \* From here on a stock has as much to spend as it has room for.
  <1> DEFINE L == left * offered
  <1>17. ASSUME \A s \in DOMAIN to.weights : Parts(target) - Parts(to.weights[s]) <= 1000,
                cash <= spent + U + I + e,
                roomy <= gained + d, Pd < roomy + One,
                Parts(target) - Parts(next.weights[stock]) <= 1000
         PROVE  /\ \A s \in DOMAIN next.weights : Parts(target) - Parts(next.weights[s]) <= 1000
                /\ cash <= v * sum2 + u2 * One + i * One + i * d
    <2>1. \A s \in DOMAIN next.weights : Parts(target) - Parts(next.weights[s]) <= 1000
      BY <1>5, <1>17
    <2>2. v * sum2 + u2 * One + i * One + i * d = spent + gained + U - Pd + I + One + e + d
      BY <1>1, <1>12, <1>13, <1>14, <1>15
    <2> HIDE DEF gained, spent, U, Pd, e, I, roomy
    <2>3. cash <= spent + gained + U - Pd + I + One + e + d
      BY <1>1, <1>12, <1>15, <1>17
    <2> QED
      BY <2>1, <2>2, <2>3
  <1>18. ASSUME cash <= spent + U + I + e, paid = offered, O <= gained + 3 * d, O <= roomy + 2 * d
         PROVE  /\ offered \in Nat
                /\ (n - i) * offered <= u2
                /\ cash <= v * sum2 + (n - i) * (offered * One) + (n - 1) * One + i * (3 * d)
                /\ \A s \in buying \ DOMAIN next.weights : offered * One <= v * Parts(room[s]) + 2 * d
    <2>1. (left - 1) * offered = L - offered /\ L \in Int
      BY <1>1, <1>10
    <2>2. (n - i) * offered <= u2
      <3> HIDE DEF L
      <3>1. L <= u
        BY <1>9 DEF L
      <3> QED
        BY <1>2, <1>8, <1>10, <1>18, <2>1, <3>1
    <2> DEFINE LO == L * One
               J == (left - 1) * One
    <2>3. (left - 1) * (offered * One) = LO - O /\ LO \in Int /\ J \in Int /\ (n - 1) * One = I + J
      <3>1. (left - 1) * (offered * One) = (left * offered) * One - offered * One
        BY <1>1, <1>10
      <3>2. n - 1 = (i - 1) + (left - 1)
        BY <1>1
      <3>3. ((i - 1) + (left - 1)) * One = (i - 1) * One + (left - 1) * One
        BY <1>1
      <3> HIDE DEF L
      <3> QED
        BY <1>1, <2>1, <3>1, <3>2, <3>3 DEF L
    <2>4. U <= LO + J
      <3> DEFINE m == L + left - 1
      <3>1. m \in Int /\ u <= m
        <4> HIDE DEF L
        <4>1. u < L + left
          BY <1>9 DEF L
        <4> QED
          BY <1>1, <1>2, <2>1, <4>1
      <3>2. One * m = L * One + (left - 1) * One /\ One * u = u * One
        <4> HIDE DEF L
        <4> QED
          BY <1>1, <1>2, <2>1
      <3> HIDE DEF m
      <3>3. One * u <= One * m
        BY <1>1, <1>2, <3>1, TimesKeepsOrder
      <3> QED
        BY <3>2, <3>3
    <2>5. v * sum2 + (n - i) * (offered * One) + (n - 1) * One + i * (3 * d)
            = spent + gained + (LO - O) + (I + J) + (3 * e + 3 * d)
      BY <1>8, <1>12, <1>14, <2>3
    <2>6. cash <= spent + gained + (LO - O) + (I + J) + (3 * e + 3 * d)
      <3> HIDE DEF spent, gained, LO, O, I, J, e, U
      <3> QED
        BY <1>1, <1>12, <1>15, <1>18, <2>3, <2>4
    <2>7. \A s \in buying \ DOMAIN next.weights : offered * One <= v * Parts(room[s]) + 2 * d
      <3> SUFFICES ASSUME NEW s \in buying \ DOMAIN next.weights
                   PROVE  offered * One <= v * Parts(room[s]) + 2 * d
        OBVIOUS
      <3>1. Parts(room[stock]) <= Parts(room[s]) /\ Parts(room[s]) \in Nat
        BY <1>4, <1>5
      <3>2. v * Parts(room[stock]) <= v * Parts(room[s]) /\ v * Parts(room[s]) \in Int
        BY <1>1, <1>11, <3>1, TimesKeepsOrder
      <3> QED
        BY <1>1, <1>12, <1>15, <1>18, <3>2
    <2> QED
      BY <1>10, <2>2, <2>5, <2>6, <2>7
  <1>19. ASSUME NEW o \in Nat, left * o <= u,
                cash <= spent + left * (o * One) + (n - 1) * One + (i - 1) * (3 * d),
                \A s \in buying \ DOMAIN to.weights : o * One <= v * Parts(room[s]) + 2 * d
         PROVE  /\ (n - i) * o <= u2
                /\ cash <= v * sum2 + (n - i) * (o * One) + (n - 1) * One + i * (3 * d)
                /\ \A s \in buying \ DOMAIN next.weights : o * One <= v * Parts(room[s]) + 2 * d
    <2>1. o <= offered
      <3>1. u \in Int /\ o \in Int /\ left * o <= u
        BY <1>2, <1>19
      <3>2. o <= u \div left
        BY <1>1, <3>1, QuotientIsMost
      <3> QED
        BY <3>2 DEF offered
    <2>2. (n - i) * o <= u2
      <3> DEFINE k == left - 1
      <3>1. k \in Nat /\ n - i = k /\ left * offered = k * offered + offered /\ k * offered \in Int /\ k * o \in Int
        BY <1>1, <1>8, <1>10
      <3> HIDE DEF k
      <3>2. k * o <= k * offered
        BY <1>10, <2>1, <3>1, TimesKeepsOrder
      <3> QED
        BY <1>2, <1>9, <1>10, <3>1, <3>2
    <2> DEFINE oO == o * One
    <2>3. oO \in Nat /\ oO <= O
      <3>1. One * o <= One * offered /\ One * o = o * One /\ One * offered = offered * One /\ o * One \in Nat
        BY <1>1, <1>10, <2>1, TimesKeepsOrder
      <3> QED
        BY <3>1
    <2>4. oO <= gained + 3 * d
      <3>1. oO <= roomy + 2 * d
        BY <1>5, <1>19
      <3> HIDE DEF oO, O, gained, roomy, Pd
      <3>2. CASE O <= gained + 3 * d
        BY <1>1, <1>12, <1>15, <2>3, <3>2
      <3>3. CASE roomy <= gained + d
        BY <1>1, <1>12, <2>3, <3>1, <3>3
      <3>4. O <= gained + 3 * d \/ roomy <= gained + d
        BY <1>5 DEF O, gained, roomy
      <3> QED
        BY <3>2, <3>3, <3>4
    <2> DEFINE K == (left - 1) * oO
               N == (n - 1) * One
    <2>5. left * oO = K + oO /\ K \in Int /\ N \in Int
      <3> HIDE DEF oO
      <3> QED
        BY <1>1, <2>3
    <2>6. cash <= spent + (K + oO) + N + 3 * e
      BY <1>14, <1>19, <2>5
    <2>7. v * sum2 + (n - i) * (o * One) + (n - 1) * One + i * (3 * d) = spent + gained + K + N + (3 * e + 3 * d)
      BY <1>8, <1>12, <1>14
    <2>8. cash <= spent + gained + K + N + (3 * e + 3 * d)
      <3> HIDE DEF K, N, oO, spent, gained, e
      <3> QED
        BY <1>1, <1>12, <1>15, <2>3, <2>4, <2>5, <2>6
    <2>9. \A s \in buying \ DOMAIN next.weights : o * One <= v * Parts(room[s]) + 2 * d
      BY <1>5, <1>19
    <2> QED
      BY <2>2, <2>7, <2>8, <2>9
  <1>20. CASE \E o \in Nat :
                /\ (n - (i - 1)) * o <= u
                /\ cash <= spent + (n - (i - 1)) * (o * One) + (n - 1) * One + (i - 1) * (3 * d)
                /\ \A s \in buying \ DOMAIN to.weights : o * One <= v * Parts(room[s]) + 2 * d
    <2>1. PICK o \in Nat :
                /\ (n - (i - 1)) * o <= u
                /\ cash <= spent + (n - (i - 1)) * (o * One) + (n - 1) * One + (i - 1) * (3 * d)
                /\ \A s \in buying \ DOMAIN to.weights : o * One <= v * Parts(room[s]) + 2 * d
      BY <1>20
    <2>2. /\ left * o <= u
          /\ cash <= spent + left * (o * One) + (n - 1) * One + (i - 1) * (3 * d)
      BY <1>8, <2>1
    <2> HIDE DEF spent
    <2>3. /\ (n - i) * o <= u2
          /\ cash <= v * sum2 + (n - i) * (o * One) + (n - 1) * One + i * (3 * d)
          /\ \A s \in buying \ DOMAIN next.weights : o * One <= v * Parts(room[s]) + 2 * d
      BY <1>19, <2>1, <2>2
    <2> QED
      BY <1>16, <2>3
  <1>21. CASE /\ \A s \in DOMAIN to.weights : Parts(target) - Parts(to.weights[s]) <= 1000
              /\ cash <= spent + U + I + e
    <2> HIDE DEF spent, gained, roomy, U, I, e
    <2>1. CASE /\ paid = offered /\ O <= gained + 3 * d /\ O <= roomy + 2 * d
      <3> HIDE DEF O
      <3>1. /\ offered \in Nat
            /\ (n - i) * offered <= u2
            /\ cash <= v * sum2 + (n - i) * (offered * One) + (n - 1) * One + i * (3 * d)
            /\ \A s \in buying \ DOMAIN next.weights : offered * One <= v * Parts(room[s]) + 2 * d
        BY <1>18, <1>21, <2>1
      <3> QED
        BY <1>16, <3>1
    <2>2. CASE /\ roomy <= gained + d /\ Pd < roomy + One
               /\ Parts(target) - Parts(next.weights[stock]) <= 1000
      <3> HIDE DEF Pd
      <3> QED
        BY <1>16, <1>17, <1>21, <2>2
    <2>3. \/ paid = offered /\ O <= gained + 3 * d /\ O <= roomy + 2 * d
          \/ /\ roomy <= gained + d /\ Pd < roomy + One
             /\ Parts(target) - Parts(next.weights[stock]) <= 1000
      BY <1>5 DEF gained, roomy
    <2> HIDE DEF O, Pd
    <2> QED
      BY <2>1, <2>2, <2>3
  <1> QED
    BY <1>6, <1>20, <1>21

\* The cash topped up is spent to the last rupiah a stock, or every stock is at its target.
LEMMA TopUpIs ==
    ASSUME PreciseShares, NEW p \in Portfolios, NEW buying \in SUBSET Stocks,
           NEW target \in Decimals, Parts(target) <= One
    PROVE  LET given == TopUp(p, buying, target)
               x == Value(p) * Gains(p, given)
           IN  /\ DOMAIN given = buying /\ \A s \in buying : given[s] \in Decimals
               /\ x \in Int /\ x < (p.cash + 1) * One
               /\ \/ (p.cash - Cardinality(Stocks)) * One <= x
                  \/ \A s \in buying : Reaches(p, given[s], target)
  <1> DEFINE n == Cardinality(buying)
             N == Cardinality(Stocks)
             v == Value(p)
             d == Dust(p)
             cash == p.cash
             given == TopUp(p, buying, target)
             room == Room(p, buying, target)
             x == v * Gains(p, given)
  <1>1. /\ IsFiniteSet(buying) /\ n \in Nat /\ N \in Nat /\ n <= N
        /\ v \in Nat /\ cash \in Nat /\ One \in Nat
    <2>1. IsFiniteSet(Stocks) /\ IsFiniteSet(buying)
      BY StrategiesConstants, FS_Subset
    <2>2. n \in Nat /\ N \in Nat /\ n <= N
      BY <2>1, FS_CardinalityType, FS_Subset
    <2> QED
      BY <2>1, <2>2, PortfolioIs, OneIs
  <1>2. d \in Nat /\ n * d \in Nat /\ 3 * (n * d) < One /\ d = 500 * v
    BY <1>1, DustIs DEF Dust
  <1>3. PICK to :
            /\ given = to[n].weights
            /\ to[0].unspent = cash
            /\ \A i \in 0..n : FilledSome(p, buying, to[i]) /\ Cardinality(DOMAIN to[i].weights) = i
            /\ \A i \in 1..n : \E stock \in buying :
                    FillsOne(p, room, target, to[i - 1], n + 1 - i, to[i], stock)
    BY TopUpUnfold
  <1> DEFINE Good == {i \in Nat : i <= n => FillsFit(p, buying, target, i, to[i])}
  <1>4. 0 \in Good
    <2>1. FilledSome(p, buying, to[0]) /\ Cardinality(DOMAIN to[0].weights) = 0
      BY <1>1, <1>3
    <2>2. DOMAIN to[0].weights = {}
      <3>1. IsFiniteSet(DOMAIN to[0].weights)
        BY <1>1, <2>1, FS_Subset DEF FilledSome
      <3> QED
        BY <2>1, <3>1, FS_EmptySet
    <2>3. Gains(p, to[0].weights) = 0
      BY <2>2, SumEmpty DEF Gains
    <2>4. v * 0 = 0 /\ 0 * d = 0 /\ 0 * One = 0 /\ cash * One \in Nat
      BY <1>1, <1>2
    <2> HIDE DEF v, d
    <2>5. FillsFit(p, buying, target, 0, to[0])
      BY <1>1, <1>3, <2>2, <2>3, <2>4 DEF FillsFit, v, d, cash
    <2> QED
      BY <2>5
  <1>5. ASSUME NEW i \in Nat, i \in Good PROVE i + 1 \in Good
    <2>1. SUFFICES ASSUME i + 1 <= n PROVE FillsFit(p, buying, target, i + 1, to[i + 1])
      OBVIOUS
    <2>2. i \in 0..n /\ i + 1 \in 0..n /\ i + 1 \in 1..n /\ (i + 1) - 1 = i
      BY <1>1, <2>1
    <2>3. FillsFit(p, buying, target, i, to[i])
      BY <1>5, <2>2
    <2>4. FilledSome(p, buying, to[i]) /\ FilledSome(p, buying, to[i + 1])
      BY <1>3, <2>2
    <2>5. PICK stock \in buying : FillsOne(p, room, target, to[i], n + 1 - (i + 1), to[i + 1], stock)
      <3> HIDE DEF room, n
      <3> QED
        BY <1>3, <2>2
    <2> DEFINE j == i + 1
               a == to[i]
               b == to[j]
    <2>6. /\ j \in 1..n /\ FillsFit(p, buying, target, j - 1, a)
          /\ FilledSome(p, buying, a) /\ FilledSome(p, buying, b)
          /\ FillsOne(p, Room(p, buying, target), target, a, Cardinality(buying) + 1 - j, b, stock)
      BY <2>2, <2>3, <2>4, <2>5
    <2> HIDE DEF j, a, b
    <2>7. FillsFit(p, buying, target, j, b)
      BY <2>6, FillsFitStep
    <2> QED
      BY <2>7 DEF j, b
  <1> HIDE DEF Good
  <1>6. FillsFit(p, buying, target, n, to[n])
    <2>1. n \in Good
      BY <1>1, <1>4, <1>5, Naturals
    <2> QED
      BY <1>1, <2>1 DEF Good
  <1>7. DOMAIN given = buying /\ \A s \in buying : given[s] \in Decimals
    <2>1. n \in 0..n
      BY <1>1
    <2>2. FilledSome(p, buying, to[n]) /\ Cardinality(DOMAIN to[n].weights) = n
      BY <1>3, <2>1
    <2>3. DOMAIN given \in SUBSET buying /\ Cardinality(DOMAIN given) = n /\ \A s \in DOMAIN given : given[s] \in Decimals
      BY <1>3, <2>2 DEF FilledSome
    <2> HIDE DEF given
    <2>4. DOMAIN given = buying
      <3>1. SUFFICES ASSUME DOMAIN given # buying PROVE FALSE
        OBVIOUS
      <3>2. Cardinality(DOMAIN given) < Cardinality(buying)
        BY <1>1, <2>3, <3>1, FS_Subset, FS_CardinalityType
      <3> QED
        BY <1>1, <2>3, <3>2
    <2> QED
      BY <2>3, <2>4
  <1>8. Gains(p, given) \in Int
    <2> HIDE DEF given
    <2>1. \A s \in DOMAIN given : Gained(p, given)[s] \in Int
      BY <1>7, SpentIs
    <2> QED
      BY <1>1, <1>7, <2>1, SumInt DEF Gains
  <1> DEFINE U == to[n].unspent * One
  <1>9. U \in Nat
    <2>1. n \in 0..n
      BY <1>1
    <2>2. FilledSome(p, buying, to[n])
      BY <1>3, <2>1
    <2>3. to[n].unspent \in Nat
      BY <1>1, <2>2 DEF FilledSome
    <2> HIDE DEF n
    <2> QED
      BY <1>1, <2>3
  <1>10. /\ x + U <= cash * One + n * d
         /\ \/ \A s \in buying : Parts(target) - Parts(given[s]) <= 1000
            \/ \E o \in Nat : cash * One <= x + (n - n) * (o * One) + (n - 1) * One + n * (3 * d)
    <2>1. to[n].weights = given /\ DOMAIN to[n].weights = buying
      BY <1>3, <1>7
    <2> HIDE DEF given
    <2> QED
      BY <1>6, <2>1 DEF FillsFit
  <1> HIDE DEF given, n, N, v, d, cash, room, U
  <1>11. x \in Int
    BY <1>1, <1>8
  <1>12. (cash + 1) * One = cash * One + One /\ cash * One \in Int
    BY <1>1
  <1>13. x < (cash + 1) * One
    <2> HIDE DEF x
    <2> QED
      BY <1>1, <1>2, <1>9, <1>10, <1>11, <1>12
  <1>14. ASSUME NEW o \in Nat, cash * One <= x + (n - n) * (o * One) + (n - 1) * One + n * (3 * d)
         PROVE  (cash - N) * One <= x
    <2>1. (n - n) * (o * One) = 0 /\ (n - 1) * One = n * One - One /\ n * One \in Int /\ n * (3 * d) = 3 * (n * d)
      <3>1. n - n = 0 /\ o * One \in Int
        BY <1>1
      <3>2. (n - n) * (o * One) = 0
        BY <3>1
      <3> QED
        BY <1>1, <1>2, <3>2
    <2>2. One * n <= One * N /\ One * n = n * One /\ One * N = N * One /\ N * One \in Int
      BY <1>1, TimesKeepsOrder
    <2>3. (cash - N) * One = cash * One - N * One
      BY <1>1
    <2> HIDE DEF x
    <2>4. cash * One <= x + (n * One - One) + 3 * (n * d)
      BY <1>11, <1>14, <2>1
    <2> QED
      BY <1>1, <1>2, <1>11, <1>12, <2>1, <2>2, <2>3, <2>4
  <1>15. ASSUME \A s \in buying : Parts(target) - Parts(given[s]) <= 1000, NEW s \in buying
         PROVE  Reaches(p, given[s], target)
    <2> DEFINE T == Parts(target)
               G == Parts(given[s])
    <2>1. T \in Nat /\ T = Grown(target, Places) /\ G \in Nat /\ G = Grown(given[s], Places)
      BY <1>7, PartsAre
    <2>2. T - G <= 1000
      BY <1>15
    <2>3. Reaches(p, given[s], target) <=> v * (T - G) < One
      BY <2>1 DEF Reaches, One, Places, v
    <2> HIDE DEF T, G
    <2>4. v * (T - G) <= v * 1000 /\ v * 1000 = 2 * d /\ v * (T - G) \in Int
      <3>1. T - G \in Int /\ 1000 \in Int
        BY <2>1
      <3>2. v * (T - G) <= v * 1000
        BY <1>1, <2>2, <3>1, TimesKeepsOrder
      <3> QED
        BY <1>1, <1>2, <3>1, <3>2
    <2>5. d <= n * d
      <3>1. n # 0
        BY <1>1, FS_EmptySet DEF n
      <3>2. d * 1 <= d * n /\ d * n = n * d
        BY <1>1, <1>2, <3>1, TimesKeepsOrder
      <3> QED
        BY <1>2, <3>2
    <2> QED
      BY <1>1, <1>2, <2>3, <2>4, <2>5
  <1>16. (cash - N) * One <= x \/ \A s \in buying : Reaches(p, given[s], target)
    <2> HIDE DEF x
    <2> QED
      BY <1>10, <1>14, <1>15
  <1> QED
    BY <1>7, <1>11, <1>13, <1>16 DEF x, given, v, N, cash

LEMMA TargetIs ==
    ASSUME NEW picked \in SUBSET Stocks
    PROVE  Target(picked) \in Decimals /\ Parts(Target(picked)) <= One
  <1> DEFINE c == Cardinality(picked)
             whole == Max({MinStocks, c})
  <1>1. c \in Nat /\ MinStocks \in Nat \ {0}
    BY StrategiesConstants, FS_Subset, FS_CardinalityType
  <1> HIDE DEF c
  <1>2. whole \in Nat /\ 1 <= whole
    <2>1. CASE c <= MinStocks
      <3>1. {MinStocks, c} \in SUBSET Int /\ MinStocks \in {MinStocks, c} /\ \A k \in {MinStocks, c} : k <= MinStocks
        BY <1>1, <2>1
      <3>2. whole = MinStocks
        BY <3>1, GreatestIs
      <3> HIDE DEF whole
      <3> QED
        BY <1>1, <3>2
    <2>2. CASE MinStocks <= c
      <3>1. {MinStocks, c} \in SUBSET Int /\ c \in {MinStocks, c} /\ \A k \in {MinStocks, c} : k <= c
        BY <1>1, <2>2
      <3>2. whole = c
        BY <3>1, GreatestIs
      <3> HIDE DEF whole
      <3> QED
        BY <1>1, <2>2, <3>2
    <2> QED
      BY <1>1, <2>1, <2>2
  <1>3. Target(picked) = RatioDown(1, whole)
    BY DEF Target, c
  <1> HIDE DEF whole
  <1> QED
    BY <1>2, <1>3, RatioIs

\* Between reviews: what is topped up on top of the rest as it is held.
LEMMA BetweenFits ==
    ASSUME PreciseShares, NEW p \in Portfolios, NEW t, memory.set \in SUBSET Stocks
    PROVE  LET given == Between(p, t).weights
               spent == Spent(p, given)
           IN  \/ AllOf(p.cash, spent, Cardinality(Stocks))
               \/ /\ ~NotBelow(spent, <<p.cash + 1, 1>>)
                  /\ \A stock \in memory.set \cap t.buyable :
                        Reaches(p, given[stock], Target(memory.set))
  <1> DEFINE v == Value(p)
             N == Cardinality(Stocks)
             buying == memory.set \cap t.buyable
             target == Target(memory.set)
             topped == TopUp(p, buying, target)
             S == DOMAIN p.held \cup buying
             given == Between(p, t).weights
             g == Gained(p, given)
             h == Gained(p, topped)
             x == v * Gains(p, topped)
  <1>1. /\ v \in Nat /\ p.cash \in Nat /\ One \in Nat /\ N \in Nat
        /\ buying \in SUBSET Stocks /\ DOMAIN p.held \in SUBSET Stocks
        /\ IsFiniteSet(Stocks)
    BY PortfolioIs, StrategiesConstants, FS_CardinalityType, OneIs
  <1>2. S \in SUBSET Stocks /\ IsFiniteSet(S) /\ IsFiniteSet(buying)
    BY <1>1, FS_Subset
  <1>3. target \in Decimals /\ Parts(target) <= One
    BY TargetIs
  <1>4. /\ DOMAIN topped = buying /\ \A s \in buying : topped[s] \in Decimals
        /\ x \in Int /\ x < (p.cash + 1) * One
        /\ \/ (p.cash - N) * One <= x
           \/ \A s \in buying : Reaches(p, topped[s], target)
    <2> HIDE DEF buying, target
    <2> QED
      BY <1>1, <1>3, TopUpIs
  <1>5. given = [stock \in DOMAIN p.held \cup DOMAIN topped |->
                    IF stock \in DOMAIN topped THEN topped[stock] ELSE Weight(p, stock)]
    BY DEF Between
  <1> HIDE DEF topped, given, target, buying
  <1>6. /\ DOMAIN given = S
        /\ \A s \in buying : given[s] = topped[s]
        /\ \A s \in S \ buying : given[s] = Weight(p, s)
    BY <1>4, <1>5
  <1>7. \A s \in S : given[s] \in Decimals
    BY <1>4, <1>6, WeightIs
  <1>8. /\ Spent(p, given) = <<v * SumFunctionOnSet(g, S), One>>
        /\ \A s \in S : g[s] \in Int
    BY <1>6, <1>7, SpentIs
  <1>9. \A s \in buying : g[s] \in Int /\ g[s] = h[s]
    BY <1>4, <1>6, <1>8 DEF Gained
  <1>10. \A s \in S \ buying : g[s] = 0
    <2> SUFFICES ASSUME NEW s \in S \ buying PROVE g[s] = 0
      OBVIOUS
    <2>1. Parts(Weight(p, s)) \in Nat
      BY WeightIs
    <2> QED
      BY <1>6, <2>1 DEF Gained
  <1> HIDE DEF g, h, S
  <1>11. SumFunctionOnSet(g, S) = Gains(p, topped)
    <2>1. SumFunctionOnSet(g, S) = SumFunctionOnSet(g, buying) + SumFunctionOnSet(g, S \ buying)
      <3>1. buying \in SUBSET S
        BY DEF S
      <3> QED
        BY <1>2, <1>8, <3>1, SumSplit
    <2>2. SumFunctionOnSet(g, S \ buying) = 0
      BY <1>2, <1>10, FS_Subset, SumZero
    <2>3. SumFunctionOnSet(g, buying) = SumFunctionOnSet(h, buying) /\ SumFunctionOnSet(g, buying) \in Int
      BY <1>2, <1>9, SumSame, SumInt
    <2>4. Gains(p, topped) = SumFunctionOnSet(h, buying)
      BY <1>4 DEF Gains, h
    <2> QED
      BY <2>1, <2>2, <2>3, <2>4
  <1>12. Spent(p, given) = <<x, One>>
    BY <1>8, <1>11
  <1> HIDE DEF x
  <1>13. ~NotBelow(Spent(p, given), <<p.cash + 1, 1>>)
    <2>1. x * 1 = x /\ (p.cash + 1) * One \in Int
      BY <1>1, <1>4
    <2> QED
      BY <1>4, <1>12, <2>1 DEF NotBelow
  <1>14. CASE (p.cash - N) * One <= x
    <2>1. AllOf(p.cash, <<x, One>>, N)
      BY <1>1, <1>4, <1>14, AllOfIs
    <2> QED
      BY <1>12, <2>1 DEF given, N
  <1>15. CASE \A s \in buying : Reaches(p, topped[s], target)
    BY <1>6, <1>13, <1>15 DEF given, buying, target
  <1> QED
    BY <1>4, <1>14, <1>15

-----------------------------------------------------------------------------
(* What the strategies decide.                                             *)

\* What monthly-savings remembers: nothing yet, or an instalment and how many are due.
SavingsDue(memo) ==
    \/ memo = <<>>
    \/ \E instalment \in Nat, due \in Nat : \E bought :
        memo = [instalment |-> instalment, due |-> due, month |-> bought]

\* What an instalment leaves of the cash is what those still due need, and a month has one.
LEMMA SavingsFit ==
    ASSUME PreciseShares, NEW p \in Portfolios, NEW t \in Tradables, NEW day \in Int, SavingsDue(memory)
    PROVE  LET after == MonthlySavings(p, t, day).memory
               spent == Spent(p, MonthlySavings(p, t, day).weights)
               nothing == t.buyable = {} \/ BoughtIn(memory, Month(day))
           IN  /\ SavingsDue(after)
               /\ nothing => /\ after.due = (IF memory = <<>> THEN Instalments ELSE memory.due)
                             /\ AllOf(0, spent, 0)
                             /\ BoughtIn(after, Month(day)) <=> BoughtIn(memory, Month(day))
               /\ ~nothing => /\ AllOf(Max({p.cash - after.due * after.instalment, 0}), spent, Cardinality(Stocks))
                              /\ BoughtIn(after, Month(day))
  <1> DEFINE instalment == IF Remembers("instalment") THEN memory.instalment ELSE p.cash \div Instalments
             due == IF Remembers("due") THEN memory.due ELSE Instalments
             bought == IF Remembers("month") THEN memory.month ELSE {}
             reserve == Reserve(due, instalment)
             spending == Max({p.cash - reserve, 0})
             next == Max({due - 1, 0})
             month == Month(day)
             decision == MonthlySavings(p, t, day)
  <1>1. /\ p.cash \in Nat /\ Instalments \in Nat \ {0} /\ t.buyable \in SUBSET Stocks
    <2>1. p.cash \in Nat
      BY PortfolioIs
    <2>2. t.buyable \subseteq t.members /\ t.members \subseteq Stocks /\ Instalments \in Nat \ {0}
      BY StrategiesConstants
    <2> QED
      BY <2>1, <2>2
  <1>3. /\ instalment \in Nat /\ due \in Nat
        /\ due = IF memory = <<>> THEN Instalments ELSE memory.due
        /\ bought = {month} <=> BoughtIn(memory, month)
    <2>1. CASE memory = <<>>
      <3>1. ~Remembers("instalment") /\ ~Remembers("due") /\ ~Remembers("month")
        BY <2>1 DEF Remembers
      <3>2. p.cash \div Instalments \in Nat
        BY <1>1
      <3>3. bought = {} /\ ~BoughtIn(memory, month)
        BY <2>1, <3>1 DEF BoughtIn
      <3>4. bought # {month}
        BY <3>3
      <3> HIDE DEF bought, month
      <3> QED
        BY <1>1, <2>1, <3>1, <3>2, <3>3, <3>4
    <2>2. CASE memory # <<>>
      <3>1. PICK i \in Nat, n \in Nat : \E b : memory = [instalment |-> i, due |-> n, month |-> b]
        BY <2>2 DEF SavingsDue
      <3>2. Remembers("instalment") /\ Remembers("due") /\ Remembers("month")
        BY <3>1 DEF Remembers
      <3>3. memory.instalment = i /\ memory.due = n
        BY <3>1
      <3>4. bought = {month} <=> BoughtIn(memory, month)
        BY <2>2, <3>2 DEF BoughtIn
      <3> HIDE DEF bought, month
      <3> QED
        BY <2>2, <3>2, <3>3, <3>4
    <2> HIDE DEF bought, month
    <2> QED
      BY <2>1, <2>2
  <1>4. decision = IF t.buyable = {} \/ bought = {month}
                   THEN [weights |-> HeldWeights(p),
                         memory |-> [instalment |-> instalment, due |-> due, month |-> bought]]
                   ELSE [weights |-> Shared(p, t.buyable, spending),
                         memory |-> [instalment |-> instalment, due |-> next, month |-> {month}]]
    BY DEF MonthlySavings
  <1> HIDE DEF instalment, due, bought, decision, month
  <1>5. next \in Nat /\ next = IF due > 0 THEN due - 1 ELSE 0
    <2>1. CASE due > 0
      <3>1. {due - 1, 0} \in SUBSET Int /\ due - 1 \in {due - 1, 0} /\ \A k \in {due - 1, 0} : k <= due - 1
        BY <1>3, <2>1
      <3>2. next = due - 1
        BY <3>1, GreatestIs
      <3> HIDE DEF next
      <3> QED
        BY <1>3, <2>1, <3>2
    <2>2. CASE ~(due > 0)
      <3>1. {due - 1, 0} \in SUBSET Int /\ 0 \in {due - 1, 0} /\ \A k \in {due - 1, 0} : k <= 0
        BY <1>3, <2>2
      <3>2. next = 0
        BY <3>1, GreatestIs
      <3> HIDE DEF next
      <3> QED
        BY <1>3, <2>2, <3>2
    <2> QED
      BY <2>1, <2>2
  <1> HIDE DEF next
  <1>6. reserve = next * instalment /\ reserve \in Nat
    <2>1. reserve = IF due > 0 THEN (due - 1) * instalment ELSE 0
      BY DEF Reserve
    <2>2. 0 * instalment = 0
      BY <1>3
    <2>3. next * instalment \in Nat
      BY <1>3, <1>5
    <2> HIDE DEF reserve
    <2> QED
      BY <1>3, <1>5, <2>1, <2>2, <2>3
  <1> HIDE DEF reserve
  <1>7. spending \in 0..p.cash /\ spending = Max({p.cash - next * instalment, 0})
    <2>1. CASE p.cash - reserve >= 0
      <3>1. {p.cash - reserve, 0} \in SUBSET Int /\ p.cash - reserve \in {p.cash - reserve, 0}
            /\ \A k \in {p.cash - reserve, 0} : k <= p.cash - reserve
        BY <1>1, <1>6, <2>1
      <3>2. spending = p.cash - reserve
        BY <3>1, GreatestIs
      <3>3. spending = Max({p.cash - next * instalment, 0})
        BY <1>6
      <3> HIDE DEF spending
      <3> QED
        BY <1>1, <1>6, <2>1, <3>2, <3>3
    <2>2. CASE ~(p.cash - reserve >= 0)
      <3>1. {p.cash - reserve, 0} \in SUBSET Int /\ 0 \in {p.cash - reserve, 0}
            /\ \A k \in {p.cash - reserve, 0} : k <= 0
        BY <1>1, <1>6, <2>2
      <3>2. spending = 0
        BY <3>1, GreatestIs
      <3>3. spending = Max({p.cash - next * instalment, 0})
        BY <1>6
      <3> HIDE DEF spending
      <3> QED
        BY <1>1, <3>2, <3>3
    <2> QED
      BY <2>1, <2>2
  <1> HIDE DEF spending
  <1>8. CASE t.buyable = {} \/ bought = {month}
    <2>1. decision.weights = HeldWeights(p)
          /\ decision.memory = [instalment |-> instalment, due |-> due, month |-> bought]
      BY <1>4, <1>8
    <2>2. decision.memory.due = due
      BY <2>1
    <2>3. SavingsDue(decision.memory)
      BY <1>3, <2>1 DEF SavingsDue
    <2>4. AllOf(0, Spent(p, decision.weights), 0)
      BY <2>1, HeldSpend
    <2>5. BoughtIn(decision.memory, month) <=> bought = {month}
      BY <2>1 DEF BoughtIn
    <2>6. BoughtIn(decision.memory, month) <=> BoughtIn(memory, month)
      BY <1>3, <2>5
    <2>7. t.buyable = {} \/ BoughtIn(memory, month)
      BY <1>3, <1>8
    <2> QED
      BY <1>3, <2>2, <2>3, <2>4, <2>6, <2>7 DEF decision, month
  <1>9. CASE ~(t.buyable = {} \/ bought = {month})
    <2>1. decision.weights = Shared(p, t.buyable, spending)
          /\ decision.memory = [instalment |-> instalment, due |-> next, month |-> {month}]
      BY <1>4, <1>9
    <2>2. decision.memory.due = next /\ decision.memory.instalment = instalment
      BY <2>1
    <2>3. SavingsDue(decision.memory)
      BY <1>3, <1>5, <2>1 DEF SavingsDue
    <2>4. AllOf(spending, Spent(p, Shared(p, t.buyable, spending)), Cardinality(Stocks))
      BY <1>1, <1>7, <1>9, SharedIs
    <2>5. BoughtIn(decision.memory, month)
      BY <2>1 DEF BoughtIn
    <2>6. ~(t.buyable = {} \/ BoughtIn(memory, month))
      BY <1>3, <1>9
    <2> QED
      BY <1>7, <2>1, <2>2, <2>3, <2>4, <2>5, <2>6 DEF decision, month
  <1> QED
    BY <1>8, <1>9

\* buy-and-hold spends the cash on its first stocks that can be bought, if any can.
LEMMA HoldFits ==
    ASSUME PreciseShares, NEW p \in Portfolios, NEW t \in Tradables
    PROVE  LET after == BuyAndHold(p, t).memory
           IN  AllOf(IF after.set \cap t.buyable = {} THEN 0 ELSE p.cash,
                     Spent(p, BuyAndHold(p, t).weights), Cardinality(Stocks))
  <1> DEFINE chosen == IF Remembers("set") THEN memory.set ELSE t.buyable
             buying == chosen \cap t.buyable
             decision == BuyAndHold(p, t)
  <1>1. /\ decision.weights = IF buying = {} THEN HeldWeights(p) ELSE Shared(p, buying, p.cash)
        /\ decision.memory.set = chosen
    BY DEF BuyAndHold
  <1>2. buying \in SUBSET Stocks /\ p.cash \in 0..p.cash
    <2>1. p.cash \in Nat
      BY PortfolioIs
    <2>2. t.buyable \subseteq t.members /\ t.members \subseteq Stocks
      BY StrategiesConstants
    <2> QED
      BY <2>1, <2>2
  <1> HIDE DEF decision, chosen
  <1>3. CASE buying = {}
    BY <1>1, <1>3, HeldSpend DEF decision
  <1>4. CASE buying # {}
    <2> HIDE DEF buying
    <2>1. AllOf(p.cash, Spent(p, Shared(p, buying, p.cash)), Cardinality(Stocks))
      BY <1>2, <1>4, SharedIs
    <2> QED
      BY <1>1, <1>4, <2>1 DEF decision, buying
  <1> QED
    BY <1>3, <1>4

\* dividend-growth reviews, and then remembers another year, or tops up.
LEMMA GrowthFits ==
    ASSUME PreciseShares, NEW p \in Portfolios, NEW t \in Tradables, NEW day \in Int, history \in Histories,
           PicksGrew(history, memory)
    PROVE  LET after == DividendGrowth(p, t, day).memory
               given == DividendGrowth(p, t, day).weights
               spent == Spent(p, given)
           IN  \/ after # memory
               \/ AllOf(p.cash, spent, Cardinality(Stocks))
               \/ /\ ~NotBelow(spent, <<p.cash + 1, 1>>)
                  /\ \A stock \in after.set \cap t.buyable :
                        Reaches(p, given[stock], Target(after.set))
  <1>1. CASE Remembers("year") /\ memory.year = YearOf(day)
    <2>1. DividendGrowth(p, t, day) = Between(p, t)
      BY <1>1 DEF DividendGrowth
    <2>2. Between(p, t).memory = memory
      BY DEF Between
    <2>3. memory # <<>>
      BY <1>1 DEF Remembers
    <2>4. PICK S \in SUBSET Stocks, year \in Int : memory = [set |-> S, year |-> year]
      BY <2>3 DEF PicksGrew
    <2>5. memory.set \in SUBSET Stocks
      BY <2>4
    <2>6. \/ AllOf(p.cash, Spent(p, Between(p, t).weights), Cardinality(Stocks))
          \/ /\ ~NotBelow(Spent(p, Between(p, t).weights), <<p.cash + 1, 1>>)
             /\ \A stock \in memory.set \cap t.buyable :
                    Reaches(p, Between(p, t).weights[stock], Target(memory.set))
      BY <2>5, BetweenFits
    <2> QED
      BY <2>1, <2>2, <2>6
  <1>2. CASE ~(Remembers("year") /\ memory.year = YearOf(day))
    <2>1. DividendGrowth(p, t, day) = Review(p, t, day)
      BY <1>2 DEF DividendGrowth
    <2>2. PICK S \in SUBSET Stocks : Review(p, t, day).memory = [set |-> S, year |-> YearOf(day)]
      BY ReviewPicks
    <2> DEFINE after == Review(p, t, day).memory
    <2>3. "year" \in DOMAIN after /\ after.year = YearOf(day)
      BY <2>2
    <2> HIDE DEF after
    <2>4. after # memory
      BY <1>2, <2>3 DEF Remembers
    <2> QED
      BY <2>1, <2>4 DEF after
  <1> QED
    BY <1>1, <1>2

SavingsInv == strategy = "monthly-savings" => SavingsDue(memory)

\* The cash is spent once: at every decision the weights put on top of what is held the cash
\* that may be spent, but for a rupiah a stock at most, and not a rupiah more; monthly-savings
\* buys on the first day of a month on which it can and on no other, and keeps what the
\* instalments still due need; dividend-growth leaves cash idle only where every stock it may
\* buy is at its target.
THEOREM CashIsSpentOnce == ASSUME PreciseShares PROVE SSpec => DecisionsFit
  <1> DEFINE Inv == PicksInv /\ SavingsInv
             Fits == (portfolio = <<>> /\ portfolio' # <<>>) =>
                        CashFits(portfolio', tradable', today, memory, memory', weights')
  <1>1. SInit => SavingsInv
    BY DEF SInit, SavingsInv
  <1>2. ASSUME PicksInv, SavingsInv, [SNext]_svars PROVE SavingsInv' /\ [Fits]_svars
    <2>1. CASE UNCHANGED svars
      BY <1>2, <2>1 DEF svars, SavingsInv, SavingsDue
    <2>2. ASSUME NEW name \in {"buy-and-hold", "monthly-savings", "dividend-growth"},
                 NEW events \in Histories, Begin(name, events)
          PROVE  SavingsInv' /\ Fits
      BY <1>2, <2>2 DEF Begin, PicksInv, SavingsInv, SavingsDue
    <2>3. ASSUME NEW p \in Portfolios, NEW t \in Tradables, Decide(p, t) PROVE SavingsInv' /\ Fits
      <3>1. /\ strategy' = strategy /\ portfolio' = p /\ tradable' = t
            /\ \/ /\ strategy = "buy-and-hold"
                  /\ memory' = BuyAndHold(p, t).memory /\ weights' = BuyAndHold(p, t).weights
               \/ /\ strategy = "monthly-savings"
                  /\ memory' = MonthlySavings(p, t, today).memory /\ weights' = MonthlySavings(p, t, today).weights
               \/ /\ strategy = "dividend-growth"
                  /\ memory' = DividendGrowth(p, t, today).memory /\ weights' = DividendGrowth(p, t, today).weights
        BY <2>3 DEF Decide
      <3>2. /\ today \in Int /\ strategy # "none" /\ history \in Histories
            /\ strategy = "dividend-growth" => PicksGrew(history, memory)
            /\ strategy = "monthly-savings" => SavingsDue(memory)
        BY <1>2, <3>1 DEF PicksInv, SavingsInv
      <3> DEFINE N == Cardinality(Stocks)
      <3> HIDE DEF N
      <3>3. CASE strategy = "buy-and-hold"
        <4>1. AllOf(IF memory'.set \cap t.buyable = {} THEN 0 ELSE p.cash, Spent(p, weights'), N)
          BY <3>1, <3>3, HoldFits DEF N
        <4> QED
          BY <3>1, <3>3, <4>1 DEF CashFits, SavingsInv, N
      <3>4. CASE strategy = "monthly-savings"
        <4>1. /\ memory' = MonthlySavings(p, t, today).memory
              /\ weights' = MonthlySavings(p, t, today).weights
          BY <3>1, <3>4
        <4>2. /\ SavingsDue(memory')
              /\ IF t.buyable = {} \/ BoughtIn(memory, Month(today))
                 THEN /\ memory'.due = (IF memory = <<>> THEN Instalments ELSE memory.due)
                      /\ AllOf(0, Spent(p, weights'), 0)
                      /\ BoughtIn(memory', Month(today)) <=> BoughtIn(memory, Month(today))
                 ELSE /\ AllOf(Max({p.cash - memory'.due * memory'.instalment, 0}), Spent(p, weights'), N)
                      /\ BoughtIn(memory', Month(today))
          BY <3>2, <3>4, <4>1, SavingsFit DEF N
        <4>3. SavingsInv'
          BY <4>2 DEF SavingsInv, SavingsDue
        <4> QED
          BY <3>1, <3>4, <4>2, <4>3 DEF CashFits, N
      <3>5. CASE strategy = "dividend-growth"
        <4>1. /\ memory' = DividendGrowth(p, t, today).memory
              /\ weights' = DividendGrowth(p, t, today).weights
          BY <3>1, <3>5
        <4>2. \/ memory' # memory
              \/ AllOf(p.cash, Spent(p, weights'), N)
              \/ /\ ~NotBelow(Spent(p, weights'), <<p.cash + 1, 1>>)
                 /\ \A stock \in memory'.set \cap t.buyable :
                        Reaches(p, weights'[stock], Target(memory'.set))
          BY <3>2, <3>5, <4>1, GrowthFits DEF N
        <4> QED
          BY <3>1, <3>5, <4>2 DEF CashFits, SavingsInv, N
      <3> QED
        BY <3>1, <3>3, <3>4, <3>5
    <2>4. CASE NextDay
      BY <1>2, <2>4 DEF NextDay, SavingsInv, SavingsDue
    <2> HIDE DEF Fits
    <2> QED
      BY <1>2, <2>1, <2>2, <2>3, <2>4 DEF SNext
  <1>3. PicksInv /\ SavingsInv /\ [SNext]_svars => SavingsInv'
    BY <1>2
  <1>4. PicksInv /\ SavingsInv /\ [SNext]_svars => [Fits]_svars
    BY <1>2
  <1>5. DecisionsFit <=> [][Fits]_svars
    BY DEF DecisionsFit
  <1> HIDE DEF Fits
  <1> QED
    BY <1>1, <1>3, <1>4, <1>5, PicksInvHolds, PTL DEF SSpec

-----------------------------------------------------------------------------
(* Keys and their values.                                                  *)

LEMMA EntryIs ==
    ASSUME NEW key, NEW raw
    PROVE  Entry(key, raw).key = key /\ Entry(key, raw).raw = raw
  BY DEF Entry

\* A key's value is that of an entry under the key.
LEMMA KeyedIs ==
    ASSUME NEW entries, NEW key \in DOMAIN Keyed(entries)
    PROVE  \E entry \in entries : entry.key = key /\ Keyed(entries)[key] = entry.raw
  <1> DEFINE entry == CHOOSE e \in entries : e.key = key
  <1>1. key \in {e.key : e \in entries}
    BY DEF Keyed
  <1>2. entry \in entries /\ entry.key = key
    BY <1>1
  <1>3. Keyed(entries)[key] = entry.raw
    BY <1>1 DEF Keyed
  <1> HIDE DEF entry
  <1> QED
    BY <1>2, <1>3

LEMMA KeysKeyed ==
    ASSUME NEW entries
    PROVE  /\ DOMAIN Keyed(entries) = {entry.key : entry \in entries}
           /\ \A entry \in entries : entry.key \in DOMAIN Keyed(entries)
  BY DEF Keyed

\* A single key.
LEMMA KeyedOne ==
    ASSUME NEW key, NEW raw
    PROVE  DOMAIN Keyed({Entry(key, raw)}) = {key} /\ Keyed({Entry(key, raw)})[key] = raw
  <1>1. DOMAIN Keyed({Entry(key, raw)}) = {key}
    BY EntryIs DEF Keyed
  <1>2. Keyed({Entry(key, raw)})[key] = raw
    BY <1>1, KeyedIs, EntryIs
  <1> QED
    BY <1>1, <1>2

LEMMA OverIs ==
    ASSUME NEW top, NEW rest
    PROVE  /\ DOMAIN Over(top, rest) = DOMAIN top \cup DOMAIN rest
           /\ \A key \in DOMAIN top : Over(top, rest)[key] = top[key]
           /\ \A key \in DOMAIN rest : key \notin DOMAIN top => Over(top, rest)[key] = rest[key]
  BY DEF Over

LEMMA RegisteredAre ==
    /\ DOMAIN Registered = {"buy-and-hold", "monthly-savings", "dividend-growth"}
    /\ Registered["buy-and-hold"] = {}
    /\ Registered["monthly-savings"] = {Setting("strategy.instalments", 12, 1, 120)}
    /\ Registered["dividend-growth"] = {Setting("strategy.min_stocks", 15, 1, 45),
                                        Setting("strategy.max_stocks", 25, 1, 45),
                                        Setting("strategy.growth_years", 5, 1, 10)}
  <1> DEFINE savings == {Setting("strategy.instalments", 12, 1, 120)}
             growth == {Setting("strategy.min_stocks", 15, 1, 45),
                        Setting("strategy.max_stocks", 25, 1, 45),
                        Setting("strategy.growth_years", 5, 1, 10)}
             a == Entry("buy-and-hold", {})
             b == Entry("monthly-savings", savings)
             c == Entry("dividend-growth", growth)
  <1>1. Registered = Keyed({a, b, c})
    BY DEF Registered
  <1>2. /\ a.key = "buy-and-hold" /\ b.key = "monthly-savings" /\ c.key = "dividend-growth"
        /\ a.raw = {} /\ b.raw = savings /\ c.raw = growth
    BY EntryIs
  <1> HIDE DEF a, b, c, savings, growth
  <1>3. DOMAIN Registered = {"buy-and-hold", "monthly-savings", "dividend-growth"}
    BY <1>1, <1>2 DEF Keyed
  <1>4. /\ Registered["buy-and-hold"] = {} /\ Registered["monthly-savings"] = savings
        /\ Registered["dividend-growth"] = growth
    BY <1>1, <1>2, <1>3, KeyedIs
  <1> QED
    BY <1>3, <1>4 DEF savings, growth

LEMMA StrategySettingsAre ==
    /\ StrategySettings = {Setting("strategy.instalments", 12, 1, 120),
                           Setting("strategy.min_stocks", 15, 1, 45),
                           Setting("strategy.max_stocks", 25, 1, 45),
                           Setting("strategy.growth_years", 5, 1, 10)}
    /\ StrategyKeys = {"strategy.instalments", "strategy.min_stocks", "strategy.max_stocks",
                       "strategy.growth_years"}
  <1> DEFINE a == Setting("strategy.instalments", 12, 1, 120)
             b == Setting("strategy.min_stocks", 15, 1, 45)
             c == Setting("strategy.max_stocks", 25, 1, 45)
             d == Setting("strategy.growth_years", 5, 1, 10)
  <1>1. /\ a.key = "strategy.instalments" /\ b.key = "strategy.min_stocks"
        /\ c.key = "strategy.max_stocks" /\ d.key = "strategy.growth_years"
    BY DEF Setting
  <1>2. /\ DOMAIN Registered = {"buy-and-hold", "monthly-savings", "dividend-growth"}
        /\ Registered["buy-and-hold"] = {} /\ Registered["monthly-savings"] = {a}
        /\ Registered["dividend-growth"] = {b, c, d}
    BY RegisteredAre
  <1> HIDE DEF a, b, c, d
  <1>3. StrategySettings = {a, b, c, d}
    BY <1>2 DEF StrategySettings
  <1>4. StrategyKeys = {a.key, b.key, c.key, d.key}
    BY <1>3 DEF StrategyKeys
  <1> QED
    BY <1>1, <1>3, <1>4 DEF a, b, c, d

LEMMA RawsAre ==
    ASSUME NEW raw, IsRaw(raw)
    PROVE  /\ "int" \in DOMAIN raw => raw = Whole(raw.int) /\ raw.int \in Int
           /\ "decimal" \in DOMAIN raw => raw = Hundredths(raw.decimal) /\ raw.decimal \in Int
           /\ "text" \in DOMAIN raw => raw = Text(raw.text)
           /\ "flag" \in DOMAIN raw => raw = Flag(raw.flag)
  <1>1. \A x : /\ DOMAIN Whole(x) = {"int"} /\ DOMAIN Hundredths(x) = {"decimal"}
              /\ DOMAIN Text(x) = {"text"} /\ DOMAIN Flag(x) = {"flag"}
              /\ DOMAIN [date |-> x] = {"date"}
    BY DEF Whole, Hundredths, Text, Flag
  <1>2. CASE "int" \in DOMAIN raw /\ raw = Whole(raw.int) /\ raw.int \in Int
    BY <1>1, <1>2
  <1>3. CASE "decimal" \in DOMAIN raw /\ raw = Hundredths(raw.decimal) /\ raw.decimal \in Int
    BY <1>1, <1>3
  <1>4. CASE "text" \in DOMAIN raw /\ raw = Text(raw.text)
    BY <1>1, <1>4
  <1>5. CASE "flag" \in DOMAIN raw /\ raw = Flag(raw.flag)
    BY <1>1, <1>5
  <1>6. CASE "date" \in DOMAIN raw /\ raw = [date |-> raw.date]
    BY <1>1, <1>6
  <1> QED
    BY <1>2, <1>3, <1>4, <1>5, <1>6 DEF IsRaw

LEMMA MakeRaws ==
    ASSUME NEW x
    PROVE  /\ x \in Int => IsRaw(Whole(x)) /\ IsRaw(Hundredths(x))
           /\ IsRaw([date |-> x]) /\ IsRaw(Text(x)) /\ IsRaw(Flag(x))
  BY DEF IsRaw, Whole, Hundredths, Text, Flag

-----------------------------------------------------------------------------
(* What is loaded.                                                         *)

DayKeys ==
    {"account.starting_cash_idr", "account.monthly_contribution_idr", "account.broker_fees",
     "goal.monthly_income_target_idr", "risk.max_weight", "risk.daily_loss_limit",
     "risk.max_drawdown", "risk.max_volume_participation", "dividends.pay_lag_trading_days",
     "tax.dividend_reinvestment_exemption"}

LEMMA DefaultsAre ==
    /\ DOMAIN Defaults = DayKeys \cup {"strategy.name", "universe.lq45_members"} \cup StrategyKeys
    /\ "training.level" \notin DOMAIN Defaults /\ Consent \notin DOMAIN Defaults
    /\ \A key \in DOMAIN Defaults : IsRaw(Defaults[key])
  <1> DEFINE millions == Whole(10^7)
             fixed == {Entry("account.starting_cash_idr", millions),
                       Entry("account.monthly_contribution_idr", Whole(0)),
                       Entry("account.broker_fees", Text("custom")),
                       Entry("goal.monthly_income_target_idr", millions),
                       Entry("strategy.name", Text("dividend-growth")),
                       Entry("risk.max_weight", Hundredths(10)),
                       Entry("risk.daily_loss_limit", Hundredths(5)),
                       Entry("risk.max_drawdown", Hundredths(25)),
                       Entry("risk.max_volume_participation", Hundredths(10)),
                       Entry("universe.lq45_members", Text("lq45_members.toml")),
                       Entry("dividends.pay_lag_trading_days", Whole(14)),
                       Entry("tax.dividend_reinvestment_exemption", Flag(FALSE))}
             more == {Entry(setting.key, Whole(setting.default)) : setting \in StrategySettings}
  <1>1. Defaults = Keyed(fixed \cup more)
    BY DEF Defaults
  <1> DEFINE raws == {millions, Whole(0), Text("custom"), Text("dividend-growth"), Hundredths(10),
                      Hundredths(5), Hundredths(25), Text("lq45_members.toml"), Whole(14), Flag(FALSE)}
  <1>2. \A raw \in raws : IsRaw(raw)
    <2>1. 10^7 \in Int /\ 0 \in Int /\ 10 \in Int /\ 5 \in Int /\ 25 \in Int /\ 14 \in Int
      OBVIOUS
    <2>2. IsRaw(millions) /\ IsRaw(Whole(0)) /\ IsRaw(Whole(14))
      BY <2>1, MakeRaws
    <2>3. IsRaw(Hundredths(10)) /\ IsRaw(Hundredths(5)) /\ IsRaw(Hundredths(25))
      BY <2>1, MakeRaws
    <2>4. /\ IsRaw(Text("custom")) /\ IsRaw(Text("dividend-growth"))
          /\ IsRaw(Text("lq45_members.toml")) /\ IsRaw(Flag(FALSE))
      BY MakeRaws
    <2> HIDE DEF millions
    <2> QED
      BY <2>2, <2>3, <2>4
  <1> HIDE DEF millions
  <1>9. \A entry \in fixed : entry.raw \in raws
    <2> TAKE entry \in fixed
    <2> HIDE DEF raws
    <2>1. \E raw \in raws : \E key : entry = Entry(key, raw)
      BY DEF raws
    <2> QED
      BY <2>1 DEF Entry
  <1>3. {entry.key : entry \in fixed} = DayKeys \cup {"strategy.name", "universe.lq45_members"}
    BY DEF Entry, DayKeys
  <1>4. \A entry \in more : IsRaw(entry.raw)
    <2>1. \A setting \in StrategySettings : setting.default \in Int
      BY StrategySettingsAre DEF Setting
    <2> TAKE entry \in more
    <2>2. PICK setting \in StrategySettings : entry = Entry(setting.key, Whole(setting.default))
      OBVIOUS
    <2>3. entry.raw = Whole(setting.default)
      BY <2>2 DEF Entry
    <2> QED
      BY <2>1, <2>3, MakeRaws
  <1>5. {entry.key : entry \in more} = StrategyKeys
    BY EntryIs DEF StrategyKeys
  <1> HIDE DEF fixed, more, raws
  <1>6. DOMAIN Defaults = DayKeys \cup {"strategy.name", "universe.lq45_members"} \cup StrategyKeys
    <2>1. DOMAIN Defaults = {entry.key : entry \in fixed \cup more}
      BY <1>1, KeysKeyed
    <2>2. {entry.key : entry \in fixed \cup more}
            = {entry.key : entry \in fixed} \cup {entry.key : entry \in more}
      OBVIOUS
    <2> QED
      BY <1>3, <1>5, <2>1, <2>2
  <1>7. \A key \in DOMAIN Defaults : IsRaw(Defaults[key])
    BY <1>1, <1>2, <1>4, <1>9, KeyedIs
  <1>8. "training.level" \notin DOMAIN Defaults /\ Consent \notin DOMAIN Defaults
    BY <1>6, StrategySettingsAre DEF DayKeys, Consent
  <1> QED
    BY <1>6, <1>7, <1>8

\* What a file gives, as TOML values.
IsGiven(given) == \A key \in DOMAIN given : IsRaw(given[key])

\* A setting as a file gives it, or its default.
Gives(given, key) == IF key \in DOMAIN given THEN given[key] ELSE Defaults[key]

LEMMA ReadGives ==
    ASSUME NEW given, IsGiven(given), NEW key \in DOMAIN Defaults
    PROVE  Read(given)[key] = Gives(given, key) /\ IsRaw(Read(given)[key])
  <1>1. Read(given)[key] = Gives(given, key)
    BY DEF Read, Over, Gives
  <1>2. IsRaw(Gives(given, key))
    BY DefaultsAre DEF Gives, IsGiven
  <1> QED
    BY <1>1, <1>2

\* What load has checked: each setting is of its kind and within its bounds, and the
\* configuration holds what the file gives.
LEMMA LoadedIs ==
    ASSUME NEW given, IsGiven(given), Loads(given)
    PROVE  LET read == Read(given)
               config == Config(given)
           IN  /\ read["account.starting_cash_idr"] = Whole(config.capital)
               /\ config.capital \in Int /\ config.capital >= 1
               /\ read["goal.monthly_income_target_idr"] = Whole(config.target)
               /\ config.target \in Int /\ config.target >= 1
               /\ read["dividends.pay_lag_trading_days"] = Whole(config.payLag)
               /\ config.payLag \in Int /\ config.payLag >= 1
               /\ \E amount \in Int :
                    /\ read["account.monthly_contribution_idr"] = Whole(amount) /\ amount >= 0
                    /\ config.contribution = IF amount = 0 THEN {} ELSE {amount}
               /\ read["account.broker_fees"] = Text(config.brokerFees)
               /\ read["tax.dividend_reinvestment_exemption"] = Flag(config.exemption)
               /\ read["risk.max_volume_participation"] = Hundredths(config.volumeCap)
               /\ config.volumeCap \in 1..100
               /\ read["risk.max_weight"] = Hundredths(config.maxWeight)
               /\ config.maxWeight \in 1..100
               /\ read["risk.daily_loss_limit"] = Hundredths(config.dailyLoss)
               /\ config.dailyLoss \in 1..99
               /\ read["risk.max_drawdown"] = Hundredths(config.maxDrawdown)
               /\ config.maxDrawdown \in 1..99
               /\ read["strategy.name"] = Text(config.strategy)
               /\ config.strategy \in DOMAIN Registered
  <1> DEFINE read == Read(given)
             config == Config(given)
  <1>1. \A key \in DayKeys \cup {"strategy.name"} : IsRaw(read[key])
    BY ReadGives, DefaultsAre
  <1> HIDE DEF read
  <1>2. /\ AtLeast(read["account.starting_cash_idr"], 1)
        /\ AtLeast(read["account.monthly_contribution_idr"], 0)
        /\ AtLeast(read["goal.monthly_income_target_idr"], 1)
        /\ AtLeast(read["dividends.pay_lag_trading_days"], 1)
    BY DEF Loads, read
  <1>3. /\ Rate(read["risk.max_volume_participation"], 100) /\ Rate(read["risk.max_weight"], 100)
        /\ Rate(read["risk.daily_loss_limit"], 99) /\ Rate(read["risk.max_drawdown"], 99)
    BY DEF Loads, read
  <1>4. /\ "flag" \in DOMAIN read["tax.dividend_reinvestment_exemption"]
        /\ OneOf(read["account.broker_fees"], BrokerPresets)
        /\ OneOf(read["strategy.name"], DOMAIN Registered)
    BY DEF Loads, read
  <1>5. /\ config.capital = read["account.starting_cash_idr"].int
        /\ config.target = read["goal.monthly_income_target_idr"].int
        /\ config.payLag = read["dividends.pay_lag_trading_days"].int
        /\ config.exemption = read["tax.dividend_reinvestment_exemption"].flag
        /\ config.volumeCap = read["risk.max_volume_participation"].decimal
        /\ config.maxWeight = read["risk.max_weight"].decimal
        /\ config.dailyLoss = read["risk.daily_loss_limit"].decimal
        /\ config.maxDrawdown = read["risk.max_drawdown"].decimal
        /\ config.brokerFees = read["account.broker_fees"].text
        /\ config.strategy = read["strategy.name"].text
    BY DEF Config, read
  <1>6. config.contribution = IF read["account.monthly_contribution_idr"].int = 0 THEN {}
                              ELSE {read["account.monthly_contribution_idr"].int}
    BY DEF Config, read
  <1> HIDE DEF config
  <1>7. ASSUME NEW key \in DayKeys, NEW least \in Int, AtLeast(read[key], least)
        PROVE  read[key] = Whole(read[key].int) /\ read[key].int \in Int /\ read[key].int >= least
    <2>1. IsRaw(read[key]) /\ "int" \in DOMAIN read[key] /\ read[key].int >= least
      BY <1>1, <1>7 DEF AtLeast
    <2> QED
      BY <2>1, RawsAre
  <1>8. ASSUME NEW key \in DayKeys, NEW most \in Int, Rate(read[key], most)
        PROVE  read[key] = Hundredths(read[key].decimal) /\ read[key].decimal \in 1..most
    <2>1. IsRaw(read[key]) /\ "decimal" \in DOMAIN read[key] /\ read[key].decimal \in 1..most
      BY <1>1, <1>8 DEF Rate
    <2> QED
      BY <2>1, RawsAre
  <1>9. /\ read["account.starting_cash_idr"] = Whole(config.capital)
        /\ config.capital \in Int /\ config.capital >= 1
    BY <1>2, <1>5, <1>7 DEF DayKeys
  <1>10. /\ read["goal.monthly_income_target_idr"] = Whole(config.target)
         /\ config.target \in Int /\ config.target >= 1
    BY <1>2, <1>5, <1>7 DEF DayKeys
  <1>11. /\ read["dividends.pay_lag_trading_days"] = Whole(config.payLag)
         /\ config.payLag \in Int /\ config.payLag >= 1
    BY <1>2, <1>5, <1>7 DEF DayKeys
  <1>12. \E amount \in Int :
            /\ read["account.monthly_contribution_idr"] = Whole(amount) /\ amount >= 0
            /\ config.contribution = IF amount = 0 THEN {} ELSE {amount}
    <2> DEFINE amount == read["account.monthly_contribution_idr"].int
    <2>1. read["account.monthly_contribution_idr"] = Whole(amount) /\ amount \in Int /\ amount >= 0
      BY <1>2, <1>7 DEF DayKeys
    <2>2. config.contribution = IF amount = 0 THEN {} ELSE {amount}
      BY <1>6
    <2> HIDE DEF amount
    <2> QED
      BY <2>1, <2>2
  <1>13. /\ read["risk.max_volume_participation"] = Hundredths(config.volumeCap)
         /\ config.volumeCap \in 1..100
    <2>1. "risk.max_volume_participation" \in DayKeys /\ 100 \in Int /\ Rate(read["risk.max_volume_participation"], 100)
      BY <1>3 DEF DayKeys
    <2>2. /\ read["risk.max_volume_participation"] = Hundredths(read["risk.max_volume_participation"].decimal)
          /\ read["risk.max_volume_participation"].decimal \in 1..100
      BY <1>8, <2>1
    <2> QED
      BY <1>5, <2>2
  <1>16. read["risk.max_weight"] = Hundredths(config.maxWeight) /\ config.maxWeight \in 1..100
    <2>1. "risk.max_weight" \in DayKeys /\ 100 \in Int /\ Rate(read["risk.max_weight"], 100)
      BY <1>3 DEF DayKeys
    <2>2. /\ read["risk.max_weight"] = Hundredths(read["risk.max_weight"].decimal)
          /\ read["risk.max_weight"].decimal \in 1..100
      BY <1>8, <2>1
    <2> QED
      BY <1>5, <2>2
  <1>14. /\ read["risk.daily_loss_limit"] = Hundredths(config.dailyLoss)
         /\ config.dailyLoss \in 1..99
    <2>1. "risk.daily_loss_limit" \in DayKeys /\ 99 \in Int /\ Rate(read["risk.daily_loss_limit"], 99)
      BY <1>3 DEF DayKeys
    <2>2. /\ read["risk.daily_loss_limit"] = Hundredths(read["risk.daily_loss_limit"].decimal)
          /\ read["risk.daily_loss_limit"].decimal \in 1..99
      BY <1>8, <2>1
    <2> QED
      BY <1>5, <2>2
  <1>17. read["risk.max_drawdown"] = Hundredths(config.maxDrawdown) /\ config.maxDrawdown \in 1..99
    <2>1. "risk.max_drawdown" \in DayKeys /\ 99 \in Int /\ Rate(read["risk.max_drawdown"], 99)
      BY <1>3 DEF DayKeys
    <2>2. /\ read["risk.max_drawdown"] = Hundredths(read["risk.max_drawdown"].decimal)
          /\ read["risk.max_drawdown"].decimal \in 1..99
      BY <1>8, <2>1
    <2> QED
      BY <1>5, <2>2
  <1>15. /\ read["account.broker_fees"] = Text(config.brokerFees)
         /\ read["tax.dividend_reinvestment_exemption"] = Flag(config.exemption)
         /\ read["strategy.name"] = Text(config.strategy) /\ config.strategy \in DOMAIN Registered
    <2>1. /\ IsRaw(read["account.broker_fees"]) /\ IsRaw(read["strategy.name"])
          /\ IsRaw(read["tax.dividend_reinvestment_exemption"])
      BY <1>1 DEF DayKeys
    <2>2. /\ "text" \in DOMAIN read["account.broker_fees"] /\ "text" \in DOMAIN read["strategy.name"]
          /\ read["strategy.name"].text \in DOMAIN Registered
      BY <1>4 DEF OneOf
    <2> QED
      BY <1>4, <1>5, <2>1, <2>2, RawsAre
  <1> QED
    BY <1>9, <1>10, <1>11, <1>12, <1>13, <1>14, <1>15, <1>16, <1>17 DEF read, config

\* A strategy's settings, each within the bounds of the registry.
LEMMA StrategyReads ==
    ASSUME NEW given, IsGiven(given), Loads(given), NEW setting \in StrategySettings
    PROVE  /\ Read(given)[setting.key] = Whole(Config(given).strategySettings[setting.key])
           /\ Config(given).strategySettings[setting.key] \in setting.minimum..setting.maximum
  <1> DEFINE read == Read(given)
             held == Config(given).strategySettings
  <1>1. setting.key \in StrategyKeys /\ setting.key \in DOMAIN Defaults
    BY DefaultsAre DEF StrategyKeys
  <1>2. IsRaw(read[setting.key])
    BY <1>1, ReadGives
  <1>3. AtLeast(read[setting.key], setting.minimum) /\ read[setting.key].int <= setting.maximum
    BY DEF Loads
  <1>4. held = [key \in StrategyKeys |-> read[key].int]
    BY DEF Config
  <1>5. held[setting.key] = read[setting.key].int
    BY <1>1, <1>4
  <1>6. setting.minimum \in Int /\ setting.maximum \in Int
    BY StrategySettingsAre DEF Setting
  <1> HIDE DEF read, held
  <1>7. read[setting.key] = Whole(read[setting.key].int) /\ read[setting.key].int \in Int
    BY <1>2, <1>3, RawsAre DEF AtLeast
  <1> QED
    BY <1>3, <1>5, <1>6, <1>7 DEF AtLeast, read, held

\* What is loaded is what every strategy's constructor accepts.
LEMMA StrategiesAccept ==
    ASSUME NEW given, IsGiven(given), Loads(given), NEW name \in DOMAIN Registered
    PROVE  /\ StrategyAccepts(name, Config(given).strategySettings)
           /\ LookbackYears(name, Config(given).strategySettings) >= 0
  <1> DEFINE read == Read(given)
             held == Config(given).strategySettings
             own == [key \in {s.key : s \in Registered[name]} |-> read[key].int]
  <1>1. \A setting \in Registered[name] : held[setting.key] \in setting.minimum..setting.maximum
    BY StrategyReads DEF StrategySettings
  <1>2. \A setting \in Registered[name] : setting.minimum = 1 /\ setting.maximum \in Int
    BY RegisteredAre DEF Setting
  <1>3. \A setting \in Registered[name] : held[setting.key] \in Int /\ held[setting.key] >= 1
    BY <1>1, <1>2
  <1>4. Makes(name, own)
    BY DEF Loads
  <1>5. held = [key \in StrategyKeys |-> read[key].int]
    BY DEF Config
  <1>6. \A setting \in Registered[name] : setting.key \in StrategyKeys
    BY DEF StrategyKeys, StrategySettings
  <1> HIDE DEF read, held
  <1>7. \A setting \in Registered[name] : own[setting.key] = held[setting.key]
    BY <1>5, <1>6
  <1>8. CASE name = "dividend-growth"
    <2> DEFINE most == Setting("strategy.max_stocks", 25, 1, 45)
               least == Setting("strategy.min_stocks", 15, 1, 45)
               years == Setting("strategy.growth_years", 5, 1, 10)
    <2>1. most \in Registered[name] /\ least \in Registered[name] /\ years \in Registered[name]
      BY <1>8, RegisteredAre
    <2>2. /\ most.key = "strategy.max_stocks" /\ least.key = "strategy.min_stocks"
          /\ years.key = "strategy.growth_years"
      BY DEF Setting
    <2> HIDE DEF own, most, least, years
    <2>3. own["strategy.max_stocks"] >= own["strategy.min_stocks"]
      BY <1>4, <1>8 DEF Makes
    <2>4. /\ own["strategy.max_stocks"] = held["strategy.max_stocks"]
          /\ own["strategy.min_stocks"] = held["strategy.min_stocks"]
      BY <1>7, <2>1, <2>2
    <2>5. Makes(name, held)
      BY <1>3, <2>3, <2>4 DEF Makes
    <2>6. held["strategy.growth_years"] \in Int /\ held["strategy.growth_years"] >= 1
      BY <1>3, <2>1, <2>2
    <2> QED
      BY <1>1, <2>5, <2>6 DEF StrategyAccepts, LookbackYears, held
  <1>9. CASE name # "dividend-growth"
    <2>1. Makes(name, held)
      BY <1>3, <1>9 DEF Makes
    <2>2. LookbackYears(name, held) = 0
      BY <1>9 DEF LookbackYears
    <2> QED
      BY <1>1, <2>1, <2>2 DEF StrategyAccepts, held
  <1> QED
    BY <1>8, <1>9

\* What load accepts, every constructor accepts.
LEMMA LoadedRuns ==
    ASSUME NEW given, IsGiven(given), Loads(given)
    PROVE  Runs(Config(given))
  <1> DEFINE config == Config(given)
  <1>1. /\ config.capital \in Int /\ config.capital >= 1 /\ config.target \in Int /\ config.target >= 1
        /\ config.payLag \in Int /\ config.payLag >= 1
        /\ config.volumeCap \in 1..100 /\ config.maxWeight \in 1..100
        /\ config.dailyLoss \in 1..99 /\ config.maxDrawdown \in 1..99
    BY LoadedIs
  <1>2. PICK amount \in Int : amount >= 0 /\ config.contribution = IF amount = 0 THEN {} ELSE {amount}
    BY LoadedIs
  <1>3. \A name \in DOMAIN Registered :
            StrategyAccepts(name, config.strategySettings)
                /\ LookbackYears(name, config.strategySettings) >= 0
    BY StrategiesAccept
  <1> HIDE DEF config
  <1>4. \A contribution \in config.contribution : contribution > 0
    BY <1>2
  <1>5. /\ FillSettingsAccept(config) /\ RiskLimitsAccept(config) /\ EngineSettingsAccept(config)
        /\ IncomeSettingsAccept(config)
    BY <1>1, <1>4
       DEF FillSettingsAccept, RiskLimitsAccept, EngineSettingsAccept, IncomeSettingsAccept
  <1>6. \A name \in DOMAIN Registered : BacktestSettingsAccept(config, name)
    BY <1>1, <1>3 DEF BacktestSettingsAccept
  <1> QED
    BY <1>3, <1>5, <1>6 DEF Runs, config

\* The settings saved are the file's, or the defaults.
LEMMA SettingsAreRead ==
    ASSUME NEW given, IsGiven(given), Loads(given),
           NEW key \in DOMAIN SettingsOf(Config(given))
    PROVE  key \in DOMAIN Defaults /\ SettingsOf(Config(given))[key] = Gives(given, key)
  <1> DEFINE read == Read(given)
             config == Config(given)
             amount == IF config.contribution = {} THEN 0 ELSE CHOOSE a \in config.contribution : TRUE
             fixed == {Entry("account.starting_cash_idr", Whole(config.capital)),
                       Entry("account.monthly_contribution_idr", Whole(amount)),
                       Entry("account.broker_fees", Text(config.brokerFees)),
                       Entry("goal.monthly_income_target_idr", Whole(config.target)),
                       Entry("risk.max_weight", Hundredths(config.maxWeight)),
                       Entry("risk.daily_loss_limit", Hundredths(config.dailyLoss)),
                       Entry("risk.max_drawdown", Hundredths(config.maxDrawdown)),
                       Entry("risk.max_volume_participation", Hundredths(config.volumeCap)),
                       Entry("dividends.pay_lag_trading_days", Whole(config.payLag)),
                       Entry("tax.dividend_reinvestment_exemption", Flag(config.exemption))}
             more == {Entry(setting.key, Whole(config.strategySettings[setting.key])) :
                        setting \in Registered[config.strategy]}
  <1>1. SettingsOf(config) = Keyed(fixed \cup more)
    BY DEF SettingsOf
  <1>2. /\ read["account.starting_cash_idr"] = Whole(config.capital)
        /\ read["goal.monthly_income_target_idr"] = Whole(config.target)
        /\ read["dividends.pay_lag_trading_days"] = Whole(config.payLag)
        /\ read["account.broker_fees"] = Text(config.brokerFees)
        /\ read["tax.dividend_reinvestment_exemption"] = Flag(config.exemption)
        /\ read["risk.max_volume_participation"] = Hundredths(config.volumeCap)
        /\ read["risk.max_weight"] = Hundredths(config.maxWeight)
        /\ read["risk.daily_loss_limit"] = Hundredths(config.dailyLoss)
        /\ read["risk.max_drawdown"] = Hundredths(config.maxDrawdown)
        /\ config.strategy \in DOMAIN Registered
    BY LoadedIs
  <1>3. read["account.monthly_contribution_idr"] = Whole(amount)
    <2>1. PICK a \in Int : /\ read["account.monthly_contribution_idr"] = Whole(a) /\ a >= 0
                           /\ config.contribution = IF a = 0 THEN {} ELSE {a}
      BY LoadedIs
    <2> HIDE DEF read, config
    <2>2. amount = a
      BY <2>1
    <2> QED
      BY <2>1, <2>2
  <1>4. \A setting \in Registered[config.strategy] :
            /\ setting.key \in StrategyKeys
            /\ read[setting.key] = Whole(config.strategySettings[setting.key])
    BY <1>2, StrategyReads DEF StrategySettings, StrategyKeys
  <1> HIDE DEF read, config, amount
  <1>5. \A entry \in fixed : entry.key \in DayKeys /\ entry.raw = read[entry.key]
    <2> TAKE entry \in fixed
    <2>1. \E k \in DayKeys : entry = Entry(k, read[k])
      BY <1>2, <1>3 DEF DayKeys
    <2> QED
      BY <2>1, EntryIs
  <1>6. \A entry \in more : entry.key \in StrategyKeys /\ entry.raw = read[entry.key]
    <2> TAKE entry \in more
    <2>1. PICK setting \in Registered[config.strategy] :
                entry = Entry(setting.key, Whole(config.strategySettings[setting.key]))
      OBVIOUS
    <2> QED
      BY <1>4, <2>1, EntryIs
  <1> HIDE DEF fixed, more
  <1>7. key \in DOMAIN Keyed(fixed \cup more)
    BY <1>1 DEF config
  <1>8. PICK entry \in fixed \cup more : entry.key = key /\ Keyed(fixed \cup more)[key] = entry.raw
    BY <1>7, KeyedIs
  <1>9. key \in DOMAIN Defaults /\ SettingsOf(config)[key] = read[key]
    BY <1>1, <1>5, <1>6, <1>8, DefaultsAre
  <1> QED
    BY <1>9, ReadGives DEF read, config

-----------------------------------------------------------------------------
(* What a file gives, command by command.                                  *)

\* What a file gives apart from the level of explanations, which training alone changes.
Rest(given) == [key \in DOMAIN given \ {"training.level"} |-> given[key]]

\* A file that may load gives what was once saved.
SavedOnce(given, all) == Consent \in DOMAIN given => \E once \in all : Rest(given) = Rest(once)

IsFile(of) == of = [given |-> of.given, form |-> of.form] /\ IsGiven(of.given)

LEMMA RestIs ==
    ASSUME NEW given
    PROVE  /\ DOMAIN Rest(given) = DOMAIN given \ {"training.level"}
           /\ \A key \in DOMAIN Rest(given) : Rest(given)[key] = given[key]
  BY DEF Rest

LEMMA SameRestGives ==
    ASSUME NEW given, NEW once, Rest(given) = Rest(once), NEW key, key # "training.level"
    PROVE  Gives(given, key) = Gives(once, key)
  <1>1. key \in DOMAIN given <=> key \in DOMAIN once
    BY RestIs
  <1>2. key \in DOMAIN given => given[key] = once[key]
    BY <1>1, RestIs
  <1> QED
    BY <1>1, <1>2 DEF Gives

LEMMA SavedLonger ==
    ASSUME NEW given, NEW all, NEW more, SavedOnce(given, all), all \subseteq more
    PROVE  SavedOnce(given, more)
  BY DEF SavedOnce

LEMMA SavedNow ==
    ASSUME NEW given, NEW all, given \in all
    PROVE  SavedOnce(given, all)
  BY DEF SavedOnce

LEMMA GivenKeyed ==
    ASSUME NEW entries, \A entry \in entries : IsRaw(entry.raw)
    PROVE  IsGiven(Keyed(entries))
  BY KeyedIs DEF IsGiven

LEMMA GivenOver ==
    ASSUME NEW top, NEW rest, IsGiven(top), IsGiven(rest)
    PROVE  IsGiven(Over(top, rest))
  <1> DEFINE both == Over(top, rest)
  <1>1. DOMAIN both = DOMAIN top \cup DOMAIN rest
    BY OverIs
  <1>2. \A key \in DOMAIN top : both[key] = top[key]
    BY OverIs
  <1>3. \A key \in DOMAIN rest : key \notin DOMAIN top => both[key] = rest[key]
    BY OverIs
  <1> HIDE DEF both
  <1>4. \A key \in DOMAIN both : IsRaw(both[key])
    BY <1>1, <1>2, <1>3 DEF IsGiven
  <1> QED
    BY <1>4 DEF IsGiven, both

LEMMA GivenOne ==
    ASSUME NEW key, NEW raw, IsRaw(raw)
    PROVE  IsGiven(Keyed({Entry(key, raw)}))
  <1>1. \A entry \in {Entry(key, raw)} : IsRaw(entry.raw)
    BY EntryIs
  <1> QED
    BY <1>1, GivenKeyed

LEMMA StarterGiven ==
    ASSUME NEW level, NEW exemption, NEW day
    PROVE  IsGiven(Starter(level, exemption, day))
  <1> DEFINE answers == {Entry("training.level", Text(level)), Entry(Consent, [date |-> day]),
                      Entry("tax.dividend_reinvestment_exemption", Flag(exemption))}
  <1>1. IsRaw(Text(level)) /\ IsRaw([date |-> day]) /\ IsRaw(Flag(exemption))
    BY MakeRaws
  <1>2. \A entry \in answers : IsRaw(entry.raw)
    BY <1>1, EntryIs
  <1> HIDE DEF answers
  <1>3. IsGiven(Keyed(answers)) /\ IsGiven(Defaults)
    BY <1>2, GivenKeyed, DefaultsAre DEF IsGiven
  <1>4. Starter(level, exemption, day) = Over(Keyed(answers), Defaults)
    BY DEF Starter, answers
  <1> QED
    BY <1>3, <1>4, GivenOver

\* training's rewrite: the level, and nothing else that the file gives.
LEMMA RewriteIs ==
    ASSUME NEW of, IsFile(of), NEW level
    PROVE  /\ IsFile(WithLevel(of, level)) /\ WithLevel(of, level).form \in {"twice", "line"}
           /\ Rest(WithLevel(of, level).given) = Rest(of.given)
           /\ Consent \in DOMAIN WithLevel(of, level).given => Consent \in DOMAIN of.given
           /\ WithLevel(of, level).form # "twice" =>
                /\ "training.level" \in DOMAIN WithLevel(of, level).given
                /\ WithLevel(of, level).given["training.level"] = Text(level)
  <1> DEFINE new == WithLevel(of, level)
             one == Keyed({Entry("training.level", Text(level))})
  <1>1. CASE of.form \in {"hidden", "twice"}
    <2>1. new = [of EXCEPT !.form = "twice"]
      BY <1>1 DEF WithLevel
    <2>2. new = [given |-> of.given, form |-> "twice"]
      BY <2>1 DEF IsFile
    <2> HIDE DEF new
    <2>3. new.given = of.given /\ new.form = "twice"
      BY <2>2
    <2> QED
      BY <2>2, <2>3 DEF IsFile, new
  <1>2. CASE of.form \notin {"hidden", "twice"}
    <2>1. new = [given |-> Over(one, of.given), form |-> "line"]
      BY <1>2 DEF WithLevel
    <2>2. DOMAIN one = {"training.level"} /\ one["training.level"] = Text(level)
      BY KeyedOne
    <2>3. IsGiven(one)
      BY GivenOne, MakeRaws
    <2>9. /\ DOMAIN Over(one, of.given) = DOMAIN one \cup DOMAIN of.given
          /\ \A key \in DOMAIN one : Over(one, of.given)[key] = one[key]
      BY OverIs
    <2>10. \A key \in DOMAIN of.given :
                key \notin DOMAIN one => Over(one, of.given)[key] = of.given[key]
      BY OverIs
    <2> HIDE DEF new, one
    <2>4. new.given = Over(one, of.given) /\ new.form = "line"
      BY <2>1
    <2>5. IsGiven(new.given)
      BY <2>3, <2>4, GivenOver DEF IsFile
    <2>6. Rest(new.given) = Rest(of.given)
      BY <2>2, <2>4, <2>9, <2>10 DEF Rest
    <2>7. /\ "training.level" \in DOMAIN new.given /\ new.given["training.level"] = Text(level)
          /\ DOMAIN new.given = {"training.level"} \cup DOMAIN of.given
      BY <2>2, <2>4, <2>9
    <2>8. Consent # "training.level"
      BY DEF Consent
    <2> QED
      BY <2>1, <2>4, <2>5, <2>6, <2>7, <2>8 DEF IsFile, new
  <1> QED
    BY <1>1, <1>2

\* A configuration comes from what was saved when its file differs by no more than the level.
LEMMA ComesFromSaved ==
    ASSUME NEW given, IsGiven(given), Loads(given), NEW once, Rest(given) = Rest(once)
    PROVE  ComesFrom(Config(given), once)
  <1>1. \A key \in DOMAIN Defaults : Gives(given, key) = Gives(once, key)
    BY SameRestGives, DefaultsAre
  <1>2. Text(Config(given).strategy) = Gives(given, "strategy.name")
    <2>1. "strategy.name" \in DOMAIN Defaults
      BY DefaultsAre
    <2> QED
      BY <2>1, LoadedIs, ReadGives
  <1>3. "strategy.name" \in DOMAIN Defaults
    BY DefaultsAre
  <1>4. \A key \in DOMAIN SettingsOf(Config(given)) :
            SettingsOf(Config(given))[key] = Gives(once, key)
    BY <1>1, SettingsAreRead
  <1> QED
    BY <1>1, <1>2, <1>3, <1>4 DEF ComesFrom, Gives

-----------------------------------------------------------------------------
(* What the audit log tells.                                               *)

\* ConfigFile's Told, of given opening settings and log.
ToldAs(first, log, key) ==
    LET days == {day \in DOMAIN log : \E line \in log[day] : line.key = key}
    IN  IF days = {} THEN first[key] ELSE (CHOOSE line \in log[Max(days)] : line.key = key).new

LEMMA ToldIs ==
    ASSUME NEW first, opened = {first}, NEW key
    PROVE  Told(key) = ToldAs(first, lines, key)
  BY DEF Told, ToldAs

\* A day's lines about a key are the last word on it.
LEMMA ToldByTheDay ==
    ASSUME NEW U, NEW log \in Seq(U), NEW day, NEW first, NEW key
    PROVE  ToldAs(first, Append(log, day), key)
            = IF \E line \in day : line.key = key THEN (CHOOSE line \in day : line.key = key).new
              ELSE ToldAs(first, log, key)
  <1> DEFINE new == Append(log, day)
             days(of) == {d \in DOMAIN of : \E line \in of[d] : line.key = key}
             last == Len(log) + 1
  <1>1. /\ DOMAIN log = 1..Len(log) /\ Len(log) \in Nat /\ DOMAIN new = 1..last
        /\ new[last] = day /\ \A d \in 1..Len(log) : new[d] = log[d]
    BY AppendProperties
  <1> HIDE DEF new
  <1>2. CASE \E line \in day : line.key = key
    <2>1. last \in days(new) /\ \A d \in days(new) : d \in Int /\ d <= last
      BY <1>1, <1>2
    <2>2. days(new) \in SUBSET Nat /\ IsFiniteSet(days(new)) /\ days(new) # {}
      <3>1. IsFiniteSet(1..last)
        BY <1>1, FS_Interval
      <3>2. days(new) \subseteq 1..last
        BY <1>1
      <3> HIDE DEF days
      <3> QED
        BY <1>1, <2>1, <3>1, <3>2, FS_Subset
    <2> HIDE DEF days
    <2>3. Max(days(new)) \in days(new) /\ \A d \in days(new) : d <= Max(days(new))
      BY <2>2, MaxIsGreatest
    <2>4. Max(days(new)) = last
      BY <1>1, <2>1, <2>3
    <2> USE DEF days
    <2>5. ToldAs(first, new, key) = (CHOOSE line \in new[Max(days(new))] : line.key = key).new
      BY <2>1 DEF ToldAs
    <2> QED
      BY <1>1, <1>2, <2>4, <2>5 DEF new
  <1>3. CASE ~ \E line \in day : line.key = key
    <2>1. days(new) = days(log)
      BY <1>1, <1>3
    <2>2. days(log) \in SUBSET Nat /\ IsFiniteSet(days(log))
      <3>1. IsFiniteSet(1..Len(log))
        BY <1>1, FS_Interval
      <3>2. days(log) \subseteq 1..Len(log)
        BY <1>1
      <3> HIDE DEF days
      <3> QED
        BY <1>1, <3>1, <3>2, FS_Subset
    <2>3. days(log) # {} => new[Max(days(log))] = log[Max(days(log))]
      <3>1. days(log) \subseteq 1..Len(log)
        BY <1>1
      <3> HIDE DEF days
      <3> QED
        BY <1>1, <2>2, <3>1, MaxIsGreatest
    <2>4. \A of : ToldAs(first, of, key)
            = IF days(of) = {} THEN first[key]
              ELSE (CHOOSE line \in of[Max(days(of))] : line.key = key).new
      BY DEF ToldAs
    <2> HIDE DEF days
    <2>5. ToldAs(first, new, key) = ToldAs(first, log, key)
      BY <2>1, <2>3, <2>4
    <2> QED
      BY <1>3, <2>5 DEF new
  <1> QED
    BY <1>2, <1>3

\* A day's lines are the settings that it changed.
LEMMA ChangesTell ==
    ASSUME NEW before, NEW after, NEW key \in DOMAIN after
    PROVE  /\ (\E line \in Changes(before, after) : line.key = key) =>
                (CHOOSE line \in Changes(before, after) : line.key = key).new = after[key]
           /\ ~ (\E line \in Changes(before, after) : line.key = key) =>
                key \in DOMAIN before /\ before[key] = after[key]
  <1>1. \A line \in Changes(before, after) : line.new = after[line.key]
    BY DEF Changes
  <1>2. ASSUME key \notin DOMAIN before \/ before[key] # after[key]
        PROVE  \E line \in Changes(before, after) : line.key = key
    <2>1. [key |-> key, new |-> after[key]] \in Changes(before, after)
      BY <1>2 DEF Changes
    <2> QED
      BY <2>1
  <1> HIDE DEF Changes
  <1> QED
    BY <1>1, <1>2

-----------------------------------------------------------------------------
(* The life of the file.                                                   *)

Rewriting == {"replace", "check", "restore", "changed", "unchanged"}

FileIsSaved == IsFile(file) /\ SavedOnce(file.given, saved)

\* What a command knows: init the text that it writes, training the file that it read.
TypedIs ==
    \/ typed = Idle
    \/ /\ typed.at \in {"create", "write"} /\ typed = [at |-> typed.at, text |-> typed.text]
       /\ IsGiven(typed.text)
    \/ typed = [at |-> "change", level |-> typed.level]
    \/ /\ typed.at \in Rewriting /\ typed.alone \in BOOLEAN
       /\ typed = [at |-> typed.at, level |-> typed.level, original |-> typed.original,
                   alone |-> typed.alone]
       /\ IsFile(typed.original) /\ SavedOnce(typed.original.given, saved)
       /\ typed.original.form # "missing"

\* The file that training left, while no one else saved one.
RewriteHolds ==
    /\ typed.at \in Rewriting \cup {"change"} => file.form # "missing"
    /\ typed.at \in {"replace", "unchanged"} => (typed.alone => file = typed.original)
    /\ typed.at \in {"check", "changed"} =>
            (typed.alone => file = WithLevel(typed.original, typed.level))
    /\ typed.at = "changed" => (typed.alone => file.form # "twice")

LoadedOnce ==
    \A config \in running :
        \E given : IsGiven(given) /\ Loads(given) /\ SavedOnce(given, saved) /\ config = Config(given)

Tells(account, first, log) ==
    /\ account = [strategy |-> account.strategy, settings |-> account.settings]
    /\ \E U : log \in Seq(U)
    /\ \A key \in DOMAIN account.settings : ToldAs(first, log, key) = account.settings[key]

LogTells ==
    \/ kept = {} /\ lines = <<>> /\ opened = {}
    \/ \E account, first : kept = {account} /\ opened = {first} /\ Tells(account, first, lines)

ConfigInv == FileIsSaved /\ TypedIs /\ RewriteHolds /\ LoadedOnce /\ LogTells

LEMMA FileRecord ==
    ASSUME NEW given, NEW form, IsGiven(given)
    PROVE  IsFile([given |-> given, form |-> form])
  BY DEF IsFile

LEMMA ConfigInvStarts == CInit => ConfigInv
  <1> SUFFICES ASSUME CInit PROVE ConfigInv
    OBVIOUS
  <1>1. /\ file = NoFile /\ typed = Idle /\ running = {} /\ kept = {} /\ lines = <<>> /\ opened = {}
    BY DEF CInit
  <1>2. IsGiven(<<>>) /\ ~ (Consent \in DOMAIN <<>>)
    BY DEF IsGiven
  <1>3. FileIsSaved
    BY <1>1, <1>2, FileRecord DEF FileIsSaved, NoFile, SavedOnce
  <1>4. TypedIs /\ RewriteHolds
    BY <1>1 DEF TypedIs, RewriteHolds, Rewriting, Idle
  <1>5. LoadedOnce /\ LogTells
    BY <1>1 DEF LoadedOnce, LogTells
  <1> QED
    BY <1>3, <1>4, <1>5 DEF ConfigInv

\* A step that leaves the runs and the account alone.
LEMMA RunsKept ==
    ASSUME ConfigInv, UNCHANGED <<running, kept, lines, opened>>, saved \subseteq saved'
    PROVE  LoadedOnce' /\ LogTells'
  <1>1. LoadedOnce'
    <2> SUFFICES ASSUME NEW config \in running'
                 PROVE  \E given : /\ IsGiven(given) /\ Loads(given) /\ SavedOnce(given, saved')
                                   /\ config = Config(given)
      BY DEF LoadedOnce
    <2>1. PICK given : IsGiven(given) /\ Loads(given) /\ SavedOnce(given, saved) /\ config = Config(given)
      BY DEF ConfigInv, LoadedOnce
    <2> QED
      BY <2>1, SavedLonger
  <1>2. LogTells'
    BY DEF ConfigInv, LogTells
  <1> QED
    BY <1>1, <1>2

LEMMA InitKeepsConfig ==
    ASSUME ConfigInv, \/ \E answer \in Answers : TypeInit(answer.level, answer.exemption)
                      \/ Create \/ Write
    PROVE  ConfigInv'
  <1> USE DEF ConfigInv
  <1>1. CASE \E answer \in Answers : TypeInit(answer.level, answer.exemption)
    <2> PICK answer \in Answers : TypeInit(answer.level, answer.exemption)
      BY <1>1
    <2> DEFINE text == Starter(answer.level, answer.exemption, 1)
    <2>1. typed' = [at |-> "create", text |-> text] /\ UNCHANGED <<file, running, kept, lines, saved, opened>>
      BY DEF TypeInit
    <2>2. IsGiven(text)
      BY StarterGiven
    <2> HIDE DEF text
    <2>3. FileIsSaved' /\ TypedIs' /\ RewriteHolds'
      BY <2>1, <2>2 DEF FileIsSaved, TypedIs, RewriteHolds, Rewriting
    <2> QED
      BY <2>1, <2>3, RunsKept
  <1>2. CASE Create
    <2>1. typed.at = "create" /\ UNCHANGED <<running, kept, lines, saved, opened>>
      BY <1>2 DEF Create
    <2>2. typed = [at |-> "create", text |-> typed.text] /\ IsGiven(typed.text)
      BY <2>1 DEF TypedIs, Idle, Rewriting
    <2>3. CASE file = NoFile
      <3>1. file' = Empty /\ typed' = [typed EXCEPT !.at = "write"]
        BY <1>2, <2>3 DEF Create
      <3>2. typed' = [at |-> "write", text |-> typed.text]
        BY <2>2, <3>1
      <3>3. FileIsSaved'
        <4>1. IsGiven(<<>>) /\ ~ (Consent \in DOMAIN <<>>)
          BY DEF IsGiven
        <4> QED
          BY <3>1, <4>1, FileRecord DEF FileIsSaved, Empty, SavedOnce
      <3>4. TypedIs' /\ RewriteHolds'
        BY <2>2, <3>2 DEF TypedIs, RewriteHolds, Rewriting
      <3> QED
        BY <2>1, <3>3, <3>4, RunsKept
    <2>4. CASE file # NoFile
      <3>1. typed' = Idle /\ file' = file
        BY <1>2, <2>4 DEF Create
      <3>2. FileIsSaved' /\ TypedIs' /\ RewriteHolds'
        BY <2>1, <3>1 DEF FileIsSaved, TypedIs, RewriteHolds, Rewriting, Idle
      <3> QED
        BY <2>1, <3>2, RunsKept
    <2> QED
      BY <2>3, <2>4
  <1>3. CASE Write
    <2> DEFINE text == typed.text
    <2>1. /\ typed.at = "write" /\ typed' = Idle /\ saved' = saved \cup {text}
          /\ file' = [given |-> text, form |-> "line"] \/ file' = file
          /\ UNCHANGED <<running, kept, lines, opened>>
      BY <1>3 DEF Write
    <2>2. IsGiven(text)
      BY <2>1 DEF TypedIs, Idle, Rewriting
    <2> HIDE DEF text
    <2>3. FileIsSaved'
      <3>1. CASE file' = [given |-> text, form |-> "line"]
        BY <2>1, <2>2, <3>1, FileRecord, SavedNow DEF FileIsSaved
      <3>2. CASE file' = file
        BY <2>1, <3>2, SavedLonger DEF FileIsSaved
      <3> QED
        BY <2>1, <3>1, <3>2
    <2>4. TypedIs' /\ RewriteHolds'
      BY <2>1 DEF TypedIs, RewriteHolds, Rewriting, Idle
    <2> QED
      BY <2>1, <2>3, <2>4, RunsKept
  <1> QED
    BY <1>1, <1>2, <1>3

LEMMA TrainingKeepsConfig ==
    ASSUME ConfigInv, \/ \E answer \in Answers : TypeTraining(answer.level)
                      \/ ReadText \/ Replace \/ CheckRewritten \/ Restore
    PROVE  ConfigInv'
  <1> USE DEF ConfigInv
  <1>1. UNCHANGED <<running, kept, lines, saved, opened>>
    BY DEF TypeTraining, ReadText, Replace, CheckRewritten, Restore
  <1>2. LoadedOnce' /\ LogTells'
    BY <1>1, RunsKept
  <1>3. ASSUME typed.at \in Rewriting
        PROVE  /\ typed.alone \in BOOLEAN
               /\ typed = [at |-> typed.at, level |-> typed.level, original |-> typed.original,
                           alone |-> typed.alone]
               /\ IsFile(typed.original) /\ SavedOnce(typed.original.given, saved)
               /\ typed.original.form # "missing"
    BY <1>3 DEF TypedIs, Idle, Rewriting
  <1>4. ASSUME NEW at, typed.at \in Rewriting, at \in Rewriting, typed' = [typed EXCEPT !.at = at]
        PROVE  /\ typed' = [at |-> at, level |-> typed.level, original |-> typed.original,
                            alone |-> typed.alone]
               /\ TypedIs'
    <2>1. typed' = [at |-> at, level |-> typed.level, original |-> typed.original,
                    alone |-> typed.alone]
      BY <1>3, <1>4
    <2> QED
      BY <1>1, <1>3, <1>4, <2>1 DEF TypedIs
  <1>5. CASE \E answer \in Answers : TypeTraining(answer.level)
    <2> PICK answer \in Answers : TypeTraining(answer.level)
      BY <1>5
    <2>1. /\ typed' = [at |-> "change", level |-> answer.level] /\ file' = file
          /\ file.form # "missing"
      BY DEF TypeTraining, Loadable
    <2>2. FileIsSaved' /\ TypedIs' /\ RewriteHolds'
      BY <1>1, <2>1 DEF FileIsSaved, TypedIs, RewriteHolds, Rewriting
    <2> QED
      BY <1>2, <2>2
  <1>6. CASE ReadText
    <2>1. /\ typed.at = "change" /\ file' = file
          /\ typed' = [at |-> "replace", level |-> typed.level, original |-> file, alone |-> TRUE]
      BY <1>6 DEF ReadText
    <2>2. file.form # "missing"
      BY <2>1 DEF RewriteHolds
    <2>3. FileIsSaved' /\ TypedIs' /\ RewriteHolds'
      BY <1>1, <2>1, <2>2 DEF FileIsSaved, TypedIs, RewriteHolds, Rewriting
    <2> QED
      BY <1>2, <2>3
  <1>7. CASE Replace
    <2>1. /\ typed.at = "replace" /\ file' = WithLevel(typed.original, typed.level)
          /\ typed' = [typed EXCEPT !.at = "check"]
      BY <1>7 DEF Replace
    <2>2. typed.at \in Rewriting /\ "check" \in Rewriting
      BY <2>1 DEF Rewriting
    <2>3. /\ typed' = [at |-> "check", level |-> typed.level, original |-> typed.original,
                       alone |-> typed.alone]
          /\ TypedIs'
      BY <1>4, <2>1, <2>2
    <2>4. /\ IsFile(file') /\ file'.form \in {"twice", "line"}
          /\ Rest(file'.given) = Rest(typed.original.given)
          /\ Consent \in DOMAIN file'.given => Consent \in DOMAIN typed.original.given
      BY <1>3, <2>1, <2>2, RewriteIs
    <2>5. FileIsSaved'
      BY <1>1, <1>3, <2>2, <2>4 DEF FileIsSaved, SavedOnce
    <2>6. RewriteHolds'
      BY <2>1, <2>3, <2>4 DEF RewriteHolds
    <2> QED
      BY <1>2, <2>3, <2>5, <2>6
  <1>8. CASE CheckRewritten
    <2> DEFINE accepted == Loadable(file) /\ LevelAccepted(Config(file.given).training)
               at == IF accepted THEN "changed" ELSE "restore"
    <2>1. typed.at = "check" /\ file' = file /\ typed' = [typed EXCEPT !.at = at]
      BY <1>8 DEF CheckRewritten
    <2>2. typed.at \in Rewriting /\ at \in Rewriting
      BY <2>1 DEF Rewriting
    <2>3. accepted => file.form # "twice"
      BY DEF Loadable
    <2>7. at = "restore" \/ (at = "changed" /\ file.form # "twice")
      BY <2>3
    <2> HIDE DEF accepted, at
    <2>4. /\ typed' = [at |-> at, level |-> typed.level, original |-> typed.original,
                       alone |-> typed.alone]
          /\ TypedIs'
      BY <1>4, <2>1, <2>2
    <2>5. FileIsSaved'
      BY <1>1, <2>1 DEF FileIsSaved
    <2>6. RewriteHolds'
      <3>1. file.form # "missing" /\ (typed.alone => file = WithLevel(typed.original, typed.level))
        BY <2>1 DEF RewriteHolds, Rewriting
      <3>2. /\ typed'.at = at /\ typed'.alone = typed.alone /\ typed'.level = typed.level
            /\ typed'.original = typed.original
        BY <2>4
      <3> QED
        BY <2>1, <2>7, <3>1, <3>2 DEF RewriteHolds
    <2> QED
      BY <1>2, <2>4, <2>5, <2>6
  <1>9. CASE Restore
    <2>1. /\ typed.at = "restore" /\ file' = typed.original
          /\ typed' = [typed EXCEPT !.at = "unchanged"]
      BY <1>9 DEF Restore
    <2>2. typed.at \in Rewriting /\ "unchanged" \in Rewriting
      BY <2>1 DEF Rewriting
    <2>3. /\ typed' = [at |-> "unchanged", level |-> typed.level, original |-> typed.original,
                       alone |-> typed.alone]
          /\ TypedIs'
      BY <1>4, <2>1, <2>2
    <2>4. FileIsSaved' /\ RewriteHolds'
      BY <1>1, <1>3, <2>1, <2>2, <2>3 DEF FileIsSaved, RewriteHolds
    <2> QED
      BY <1>2, <2>3, <2>4
  <1> QED
    BY <1>5, <1>6, <1>7, <1>8, <1>9

LEMMA EditsKeepConfig ==
    ASSUME ConfigConstants, ConfigInv, SaveNew \/ \E edit \in Saves : Save(edit)
    PROVE  ConfigInv'
  <1> USE DEF ConfigInv
  <1>1. CASE SaveNew
    <2> DEFINE given == Keyed({Entry(Consent, [date |-> 1])})
    <2>1. /\ file = NoFile /\ file' = [given |-> given, form |-> "none"]
          /\ saved' = saved \cup {file'.given} /\ UNCHANGED <<typed, running, kept, lines, opened>>
      BY <1>1 DEF SaveNew
    <2>2. IsGiven(given)
      BY GivenOne, MakeRaws
    <2> HIDE DEF given
    <2>3. FileIsSaved'
      BY <2>1, <2>2, FileRecord, SavedNow DEF FileIsSaved
    <2>4. typed.at \notin Rewriting \cup {"change"}
      BY <2>1 DEF RewriteHolds, NoFile
    <2>5. TypedIs' /\ RewriteHolds'
      BY <2>1, <2>4 DEF TypedIs, RewriteHolds, Rewriting
    <2> QED
      BY <2>1, <2>3, <2>5, RunsKept
  <1>2. ASSUME NEW edit \in Saves, Save(edit) PROVE ConfigInv'
    <2> DEFINE given == IF edit.raw = {}
                        THEN [key \in DOMAIN file.given \ {edit.key} |-> file.given[key]]
                        ELSE Over(Keyed({Entry(edit.key, raw) : raw \in edit.raw}), file.given)
               forms == IF edit.key # "training.level" THEN {file.form}
                        ELSE IF edit.raw = {} THEN {"without", "none"} ELSE {"line", "hidden"}
    <2>1. /\ file.form \notin {"missing", "twice"} /\ \E form \in forms : file' = [given |-> given, form |-> form]
          /\ saved' = saved \cup {given} /\ UNCHANGED <<running, kept, lines, opened>>
          /\ typed' = IF "alone" \in DOMAIN typed THEN [typed EXCEPT !.alone = FALSE] ELSE typed
      BY <1>2 DEF Save
    <2>2. IsGiven(given)
      <3>1. IsGiven(file.given)
        BY DEF FileIsSaved, IsFile
      <3>2. CASE edit.raw = {}
        BY <3>1, <3>2 DEF IsGiven
      <3>3. CASE edit.raw # {}
        <4> DEFINE entries == {Entry(edit.key, raw) : raw \in edit.raw}
        <4>1. \A entry \in entries : IsRaw(entry.raw)
          BY EntryIs DEF ConfigConstants
        <4>2. given = Over(Keyed(entries), file.given)
          BY <3>3
        <4> HIDE DEF entries, given
        <4> QED
          BY <3>1, <4>1, <4>2, GivenKeyed, GivenOver
      <3> QED
        BY <3>2, <3>3
    <2>3. \A form \in forms : form # "missing"
      BY <2>1
    <2> HIDE DEF given, forms
    <2>4. FileIsSaved' /\ file'.form # "missing"
      BY <2>1, <2>2, <2>3, FileRecord, SavedNow DEF FileIsSaved
    <2>5. CASE typed.at \in Rewriting
      <3>1. /\ typed = [at |-> typed.at, level |-> typed.level, original |-> typed.original,
                        alone |-> typed.alone]
            /\ IsFile(typed.original) /\ SavedOnce(typed.original.given, saved)
            /\ typed.original.form # "missing"
        BY <2>5 DEF TypedIs, Idle, Rewriting
      <3>2. "alone" \in DOMAIN typed
        BY <3>1
      <3>3. typed' = [typed EXCEPT !.alone = FALSE]
        BY <2>1, <3>2
      <3>4. typed' = [at |-> typed.at, level |-> typed.level, original |-> typed.original,
                      alone |-> FALSE]
        BY <3>1, <3>3
      <3>5. SavedOnce(typed.original.given, saved')
        BY <2>1, <3>1, SavedLonger
      <3>6. /\ typed'.at = typed.at /\ typed'.level = typed.level /\ typed'.alone = FALSE
            /\ typed'.original = typed.original
        BY <3>4
      <3>7. TypedIs'
        BY <2>5, <3>1, <3>4, <3>5, <3>6 DEF TypedIs
      <3>8. RewriteHolds'
        BY <2>4, <3>6 DEF RewriteHolds
      <3> QED
        BY <2>1, <2>4, <3>7, <3>8, RunsKept
    <2>6. CASE typed.at \notin Rewriting
      <3>1. "alone" \notin DOMAIN typed
        BY <2>6 DEF TypedIs, Idle
      <3>2. typed' = typed
        BY <2>1, <3>1
      <3>3. TypedIs' /\ RewriteHolds'
        BY <2>4, <2>6, <3>2 DEF TypedIs, RewriteHolds, Rewriting
      <3> QED
        BY <2>1, <2>4, <3>3, RunsKept
    <2> QED
      BY <2>5, <2>6
  <1> QED
    BY <1>1, <1>2

\* Commands end, and the runs and the account go on without the file.
LEMMA FileKept ==
    ASSUME ConfigInv, UNCHANGED <<file, saved>>, typed' = typed \/ typed' = Idle
    PROVE  FileIsSaved' /\ TypedIs' /\ RewriteHolds'
  <1>1. FileIsSaved'
    BY DEF ConfigInv, FileIsSaved
  <1>2. CASE typed' = typed
    BY <1>1, <1>2 DEF ConfigInv, TypedIs, RewriteHolds
  <1>3. CASE typed' = Idle
    BY <1>1, <1>3 DEF TypedIs, RewriteHolds, Rewriting, Idle
  <1> QED
    BY <1>1, <1>2, <1>3

LEMMA DayKeepsConfig ==
    ASSUME ConfigInv, RunDay
    PROVE  ConfigInv'
  <1> USE DEF ConfigInv
  <1>1. PICK config \in running :
            LET settings == SettingsOf(config)
            IN  /\ kept' = {[strategy |-> config.strategy, settings |-> settings]}
                /\ lines' = Append(lines, UNION {Changes(account.settings, settings) : account \in kept})
                /\ opened' = IF kept = {} THEN {settings} ELSE opened
                /\ UNCHANGED <<file, typed, running, saved>>
    BY DEF RunDay
  <1> DEFINE settings == SettingsOf(config)
             new == [strategy |-> config.strategy, settings |-> settings]
             day == UNION {Changes(account.settings, settings) : account \in kept}
  <1>2. /\ kept' = {new} /\ lines' = Append(lines, day)
        /\ opened' = IF kept = {} THEN {settings} ELSE opened
        /\ UNCHANGED <<file, typed, running, saved>>
    BY <1>1
  <1>3. new = [strategy |-> new.strategy, settings |-> new.settings] /\ new.settings = settings
    OBVIOUS
  <1> HIDE DEF settings, new
  <1>4. LoadedOnce'
    BY <1>2 DEF LoadedOnce
  <1>5. FileIsSaved' /\ TypedIs' /\ RewriteHolds'
    BY <1>2, FileKept
  <1>6. CASE kept = {} /\ lines = <<>> /\ opened = {}
    <2>1. day = {} /\ opened' = {settings}
      BY <1>2, <1>6
    <2> HIDE DEF day
    <2>2. <<>> \in Seq({})
      OBVIOUS
    <2>3. lines' \in Seq({{}})
      BY <1>2, <1>6, <2>1
    <2>4. \A key : ToldAs(settings, lines', key) = settings[key]
      <3>1. \A key : ToldAs(settings, Append(<<>>, {}), key) = ToldAs(settings, <<>>, key)
        <4> DEFINE empty == <<>>
                   none == {}
        <4>1. empty \in Seq({})
          BY <2>2
        <4>2. ~ \E line \in none : TRUE
          OBVIOUS
        <4> HIDE DEF empty, none
        <4>3. \A key : ToldAs(settings, Append(empty, none), key) = ToldAs(settings, empty, key)
          BY <4>1, <4>2, ToldByTheDay
        <4> QED
          BY <4>3 DEF empty, none
      <3>2. \A key : ToldAs(settings, <<>>, key) = settings[key]
        BY DEF ToldAs
      <3> QED
        BY <1>2, <1>6, <2>1, <3>1, <3>2
    <2>6. Tells(new, settings, lines')
      BY <1>3, <2>3, <2>4 DEF Tells
    <2>5. LogTells'
      BY <1>2, <2>1, <2>6 DEF LogTells
    <2> QED
      BY <1>4, <1>5, <2>5
  <1>7. ASSUME NEW account, NEW first, kept = {account}, opened = {first},
               NEW U, lines \in Seq(U),
               \A key \in DOMAIN account.settings : ToldAs(first, lines, key) = account.settings[key]
        PROVE  ConfigInv'
    <2>1. day = Changes(account.settings, settings) /\ opened' = {first}
      BY <1>2, <1>7
    <2> HIDE DEF day
    <2>2. lines' \in Seq(U \cup {day})
      <3>1. lines \in Seq(U \cup {day})
        BY <1>7
      <3> QED
        BY <1>2, <3>1
    <2>3. ASSUME NEW key \in DOMAIN settings
          PROVE  ToldAs(first, lines', key) = settings[key]
      <3>1. ToldAs(first, lines', key)
              = IF \E line \in day : line.key = key THEN (CHOOSE line \in day : line.key = key).new
                ELSE ToldAs(first, lines, key)
        BY <1>2, <1>7, ToldByTheDay
      <3>2. CASE \E line \in day : line.key = key
        BY <2>1, <3>1, <3>2, ChangesTell
      <3>3. CASE ~ \E line \in day : line.key = key
        <4>1. key \in DOMAIN account.settings /\ account.settings[key] = settings[key]
          BY <2>1, <3>3, ChangesTell
        <4> QED
          BY <1>7, <3>1, <3>3, <4>1
      <3> QED
        BY <3>2, <3>3
    <2>5. Tells(new, first, lines')
      BY <1>3, <2>2, <2>3 DEF Tells
    <2>4. LogTells'
      BY <1>2, <2>1, <2>5 DEF LogTells
    <2> QED
      BY <1>4, <1>5, <2>4
  <1> QED
    BY <1>6, <1>7 DEF LogTells, Tells

LEMMA RunsKeepConfig ==
    ASSUME ConfigInv, EndTyped \/ StartRun \/ EndRun \/ Switch
    PROVE  ConfigInv'
  <1> USE DEF ConfigInv
  <1>1. CASE EndTyped
    <2>1. typed' = Idle /\ UNCHANGED <<file, running, kept, lines, saved, opened>>
      BY <1>1 DEF EndTyped
    <2> QED
      BY <2>1, FileKept, RunsKept
  <1>2. CASE StartRun
    <2>1. /\ Loadable(file) /\ running' = {Config(file.given)}
          /\ UNCHANGED <<file, typed, kept, lines, saved, opened>>
      BY <1>2 DEF StartRun
    <2>2. IsGiven(file.given) /\ Loads(file.given) /\ SavedOnce(file.given, saved)
      BY <2>1 DEF FileIsSaved, IsFile, Loadable
    <2>3. LoadedOnce'
      BY <2>1, <2>2 DEF LoadedOnce
    <2>4. LogTells'
      BY <2>1 DEF LogTells
    <2> QED
      BY <2>1, <2>3, <2>4, FileKept
  <1>3. CASE EndRun
    <2>1. running' = {} /\ UNCHANGED <<file, typed, kept, lines, saved, opened>>
      BY <1>3 DEF EndRun
    <2>2. LoadedOnce' /\ LogTells'
      BY <2>1 DEF LoadedOnce, LogTells
    <2> QED
      BY <2>1, <2>2, FileKept
  <1>4. CASE Switch
    <2>1. PICK account \in kept :
            /\ kept' = {[account EXCEPT !.strategy = Config(file.given).strategy]}
            /\ UNCHANGED <<file, typed, running, lines, saved, opened>>
      BY <1>4 DEF Switch
    <2> DEFINE new == [account EXCEPT !.strategy = Config(file.given).strategy]
    <2>2. LoadedOnce'
      BY <2>1 DEF LoadedOnce
    <2>3. PICK first : opened = {first} /\ Tells(account, first, lines)
      BY <2>1 DEF LogTells
    <2>4. account = [strategy |-> account.strategy, settings |-> account.settings]
      BY <2>3 DEF Tells
    <2>5. /\ new = [strategy |-> new.strategy, settings |-> new.settings]
          /\ new.settings = account.settings
      BY <2>4
    <2>6. kept' = {new}
      BY <2>1
    <2> HIDE DEF new
    <2>8. Tells(new, first, lines)
      BY <2>3, <2>5 DEF Tells
    <2>7. LogTells'
      BY <2>1, <2>3, <2>6, <2>8 DEF LogTells
    <2> QED
      BY <2>1, <2>2, <2>7, FileKept
  <1> QED
    BY <1>1, <1>2, <1>3, <1>4

\* The file, what a command knows of it, the configuration that runs and the log keep together.
LEMMA ConfigInvHolds == CSpec => []ConfigInv
  <1>1. CInit => ConfigInv
    BY ConfigInvStarts
  <1>2. ConfigInv /\ [CNext]_cvars => ConfigInv'
    <2> SUFFICES ASSUME ConfigInv, [CNext]_cvars PROVE ConfigInv'
      OBVIOUS
    <2>1. CASE UNCHANGED cvars
      BY <2>1 DEF ConfigInv, FileIsSaved, TypedIs, RewriteHolds, LoadedOnce, LogTells, cvars
    <2>2. CASE CNext
      BY <2>2, ConfigConstants, InitKeepsConfig, TrainingKeepsConfig, EditsKeepConfig,
         DayKeepsConfig, RunsKeepConfig DEF CNext
    <2> QED
      BY <2>1, <2>2
  <1> QED
    BY <1>1, <1>2, PTL DEF CSpec

\* Whatever the files written, the edits saved and the commands killed, a run goes by settings
\* that were saved together and that every constructor accepts, training changes the level or
\* nothing, and the audit log tells the settings of the last day run.
THEOREM SettingsStayTheOperators == CSpec => []SettingsAreTheOperators
  <1>1. ConfigInv => SettingsAreTheOperators
    <2> SUFFICES ASSUME ConfigInv PROVE SettingsAreTheOperators
      OBVIOUS
    <2> USE DEF ConfigInv
    <2>1. ASSUME NEW config \in running
          PROVE  Runs(config) /\ \E given \in saved : ComesFrom(config, given)
      <3>1. PICK given : /\ IsGiven(given) /\ Loads(given) /\ SavedOnce(given, saved)
                         /\ config = Config(given)
        BY <2>1 DEF LoadedOnce
      <3>2. PICK once \in saved : Rest(given) = Rest(once)
        BY <3>1 DEF SavedOnce, Loads
      <3> QED
        BY <3>1, <3>2, LoadedRuns, ComesFromSaved
    <2>2. ASSUME typed.at = "changed" /\ typed.alone
          PROVE  /\ Rest(file.given) = Rest(typed.original.given)
                 /\ Config(file.given).training["training.level"] = Text(typed.level)
      <3>1. file = WithLevel(typed.original, typed.level) /\ file.form # "twice"
        BY <2>2 DEF RewriteHolds
      <3>2. IsFile(typed.original)
        BY <2>2 DEF TypedIs, Idle, Rewriting
      <3>3. /\ Rest(file.given) = Rest(typed.original.given)
            /\ "training.level" \in DOMAIN file.given
            /\ file.given["training.level"] = Text(typed.level)
        BY <3>1, <3>2, RewriteIs
      <3>4. Config(file.given).training
                = [key \in DOMAIN file.given \cap TrainingKeys |-> file.given[key]]
        BY DEF Config
      <3> QED
        BY <3>3, <3>4 DEF TrainingKeys
    <2>3. ASSUME typed.at = "unchanged" /\ typed.alone PROVE file = typed.original
      BY <2>3 DEF RewriteHolds
    <2>4. ASSUME NEW account \in kept, NEW key \in DOMAIN account.settings
          PROVE  Told(key) = account.settings[key]
      <3>1. PICK first : opened = {first} /\ ToldAs(first, lines, key) = account.settings[key]
        BY <2>4 DEF LogTells, Tells
      <3> QED
        BY <3>1, ToldIs
    <2> QED
      BY <2>1, <2>2, <2>3, <2>4 DEF SettingsAreTheOperators, Rest
  <1> QED
    BY <1>1, ConfigInvHolds, PTL
=============================================================================
