----------------------------- MODULE PriceFactor ----------------------------
(***************************************************************************)
(* steadyhand_idx.factor: the factor an unreported adjustment divided a    *)
(* stretch of prices by, inferred from the tick grid the prices traded on, *)
(* and proven when exactly one factor fits enough of them.                 *)
(*                                                                         *)
(* Prices and factors are fractions <<numerator, denominator>>. A row is a *)
(* day and its prices. What the notes say of a run is left out.            *)
(***************************************************************************)
EXTENDS MarketRules

CONSTANTS
    Verified,       \* the dated tick tiers that are verified
    FiveTiers, ThreeTiers, FiveTiersFrom, GridStart,    \* the inferred ones before
    MinPrices,      \* how many prices prove a factor
    FactorUnit,     \* a refined factor is a whole number of one in so many
    DividendUnit    \* and a restored dividend

ASSUME FactorConstants ==
    /\ Verified \in Dated(Seq(Tiers)) /\ IsDated(Verified)
    /\ {FiveTiers, ThreeTiers} \subseteq Seq(Tiers)
    /\ GridStart \in Nat \ {0} /\ FiveTiersFrom \in Nat
    /\ GridStart <= FiveTiersFrom /\ FiveTiersFrom <= First(Verified)
    /\ MinPrices \in Nat /\ FactorUnit \in Nat \ {0} /\ DividendUnit \in Nat \ {0}
    /\ \A tiers \in {FiveTiers, ThreeTiers} \cup Range(Verified.values) : TicksAccepted(tiers)

-----------------------------------------------------------------------------
(* The grid of a day: no tiers before GridStart.                           *)

GridOn(day) ==
    IF day >= First(Verified) THEN On(Verified, day)
    ELSE IF day >= FiveTiersFrom THEN FiveTiers
    ELSE IF day >= GridStart THEN ThreeTiers ELSE <<>>

TickAt(tiers, value) ==
    LET below == {i \in DOMAIN tiers : tiers[i].from * value[2] <= value[1]}
    IN  IF below = {} THEN 1 ELSE tiers[Max(below)].tick
Nearest(tiers, value) ==
    LET tick == TickAt(tiers, value) IN tick * HalfEven(value[1], value[2] * tick)

\* Within a hundredth of a rupiah.
Fits(tiers, prices, factor) ==
    /\ tiers # <<>>
    /\ \A price \in Range(prices) :
        LET value == Times(price, factor)
            off == value[1] - Nearest(tiers, value) * value[2]
        IN  off <= value[2] \div 100 /\ -off <= value[2] \div 100

\* Every factor from about one to about two that puts the open on a multiple of its tick.
Candidates(row) ==
    LET open == row.prices[1]
        tiers == GridOn(row.day)
        tried == {g \in Max({Half(open[1], open[2]), 1})..2 * (open[1] \div open[2] + 1) :
                    g % TickAt(tiers, <<g, 1>>) = 0 /\ 50 * g * open[2] < 100 * open[1] + open[2]}
    IN  {f \in {<<g * open[2], open[1]>> : g \in tried} : Fits(tiers, row.prices, f)}

-----------------------------------------------------------------------------
(* The runs: rows are walked newest first, and an older row joins while a  *)
(* factor that fits every row of the run fits its prices too.              *)

Unproven == <<0, 1>>
Refine(members, factor) ==
    LET parts(row) ==
            {<<row.day, i, Half(Nearest(GridOn(row.day), Times(row.prices[i], factor))
                                  * row.prices[i][2] * FactorUnit, row.prices[i][1])>> :
                i \in DOMAIN row.prices}
        all == UNION {parts(row) : row \in Range(members)}
    IN  <<Half(SumFunction([part \in all |-> part[3]]), Cardinality(all)), FactorUnit>>

Prices(members) == SumFunction([i \in DOMAIN members |-> Len(members[i].prices)])
Close_theFirstFit(members, passing) ==
    [first |-> members[1].day, last |-> Last(members).day,
     factor |-> IF /\ passing # {}
                   /\ Prices(members) >= MinPrices
                THEN Refine(members, CHOOSE f \in passing : TRUE) ELSE Unproven]
Close(members, passing) ==
    [first |-> members[1].day, last |-> Last(members).day,
     factor |-> IF /\ Cardinality(passing) = 1
                   /\ Prices(members) >= MinPrices
                THEN Refine(members, CHOOSE f \in passing : TRUE) ELSE Unproven]

Closed(walk) ==
    (IF walk.members = <<>> THEN <<>> ELSE <<Close(walk.members, walk.passing)>>) \o walk.runs
Joined(walk, row) ==
    LET still == {f \in walk.passing : Fits(GridOn(row.day), row.prices, f)}
    IN  IF still # {} THEN [runs |-> walk.runs, members |-> <<row>> \o walk.members, passing |-> still]
        ELSE [runs |-> Closed(walk), members |-> <<row>>, passing |-> Candidates(row)]
FindRuns(rows) ==
    LET walk[i \in 0..Len(rows)] ==
            IF i = 0 THEN [runs |-> <<>>, members |-> <<>>, passing |-> {}]
            ELSE Joined(walk[i - 1], rows[Len(rows) + 1 - i])
    IN  Closed(walk[Len(rows)])

-----------------------------------------------------------------------------
RestorePrices(prices, factor, day) ==
    [i \in DOMAIN prices |-> Nearest(GridOn(day), Times(prices[i], factor))]
RestoreDividend(amount, factor) ==
    LET value == Times(amount, factor) IN <<HalfEven(value[1] * DividendUnit, value[2]), DividendUnit>>
=============================================================================
