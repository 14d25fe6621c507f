------------------------------ MODULE Figures -------------------------------
(***************************************************************************)
(* The figures an investor asks for: the limits of a day's prices and the  *)
(* costs of a trade, from the market's tables, and the income report's     *)
(* run-rate and projection. Each is worked out from what it is given and   *)
(* leaves nothing behind; a question is asked of the tables that were      *)
(* loaded, which are accepted ones.                                        *)
(***************************************************************************)
EXTENDS MarketRules, Income

CONSTANTS
    TickTables, BandTables, References,     \* references: prices of the day before
    FeeBooks, Presets, Grosses, CostDays,
    Bought,                 \* shares bought a year ago, and kept
    Events,                 \* what happened since: [dividends, splits]
    Values, Contributions, Targets

\* What the loaders of the tables make sure of, and what an account and its settings may be.
BandTiers == [upTo : Int, up : Int, down : Int, inRupiah : BOOLEAN]
ASSUME FiguresConstants ==
    /\ TickTables \subseteq Seq(Tiers) /\ References \subseteq Nat
    /\ BandTables \subseteq [minPrice : Int, tiers : Seq(BandTiers)]
    /\ FeeBooks \subseteq [levy : Dated([taxed : Nat, guarantee : Nat]), vat : Dated(Nat),
                           saleTax : Dated(Nat)]
    /\ Presets \subseteq [buy : Nat, sell : Nat, includes : SUBSET {"levy", "sale_tax", "commission_vat"}]
    /\ Grosses \subseteq Nat /\ CostDays \subseteq Int
    /\ Bought \subseteq Nat /\ Values \subseteq Nat /\ Contributions \subseteq Nat
    /\ Targets \subseteq Nat \ {0}
    /\ \A events \in Events :
        /\ \A known \in {events.dividends, events.splits} :
                IsFiniteSet(DOMAIN known) /\ DOMAIN known \subseteq Nat
        /\ DOMAIN events.dividends \cup DOMAIN events.splits # {}
        /\ \A day \in DOMAIN events.dividends : events.dividends[day] \in Nat
        /\ \A day \in DOMAIN events.splits : events.splits[day] \in (Nat \ {0}) \X (Nat \ {0})

VARIABLE asked      \* the question last asked, or none

None == [about |-> "none"]

FInit == asked = None

AskForABand(tiers, band) ==
    /\ TicksAccepted(tiers) /\ BandsAccepted(band)
    /\ \E reference \in {price \in References : price >= band.minPrice} :
        asked' = [about |-> "band", tiers |-> tiers, band |-> band, reference |-> reference]

AskForCosts(fees, preset) ==
    /\ FeesAccepted(fees, preset)
    /\ \E day \in {d \in CostDays : d >= FirstOfAll(fees)}, gross \in Grosses, side \in {"buy", "sell"} :
        asked' = [about |-> "costs", fees |-> fees, preset |-> preset,
                  day |-> day, gross |-> gross, side |-> side]

\* The shares held on a day: a split, the last one last, gives whole shares only.
SharesOn(bought, splits, day) ==
    MapThenFoldSet(LAMBDA ratio, shares : (shares * ratio[1]) \div ratio[2], bought,
                   LAMBDA s : splits[s], Max, {s \in DOMAIN splits : s < day})

\* Asked any number of days after the last event, a shareholder who kept all he bought: what
\* his days reported, each dividend paid a lag after its ex-date.
AskForIncome(bought, events, value) ==
    \E since \in 0..YearDays, target \in Targets :
        LET today == Max(DOMAIN events.dividends \cup DOMAIN events.splits) + IncomeLag + since
            earned(day) == (day - IncomeLag) \in DOMAIN events.dividends
            gross(day) == events.dividends[day - IncomeLag]
                              * SharesOn(bought, events.splits, day - IncomeLag)
        IN  asked' = [about |-> "income", bought |-> bought, value |-> value,
                      target |-> target, asOf |-> today - IncomeLag,
                      holding |-> [shares |-> SharesOn(bought, events.splits, today),
                                   dividends |-> events.dividends, splits |-> events.splits],
                      reports |-> [day \in 1..today |->
                          [day |-> day, paid |-> IF earned(day) THEN <<gross(day)>> ELSE <<>>,
                           tax |-> IF earned(day) THEN Tax(gross(day)) ELSE 0]]]

FNext ==
    /\ asked = None
    /\ \/ \E tiers \in TickTables, band \in BandTables : AskForABand(tiers, band)
       \/ \E fees \in FeeBooks, preset \in Presets : AskForCosts(fees, preset)
       \/ \E bought \in Bought, events \in Events, value \in Values :
                AskForIncome(bought, events, value)

FSpec == FInit /\ [][FNext]_asked

-----------------------------------------------------------------------------
\* A day's prices may go exactly as far as the band's limits: its ends are the lowest and the
\* highest price on a tick between them, and no lower than the lowest price of all, also where
\* a limit is in another tick tier than its reference (rules.price_band).
BandIsExact ==
    asked.about = "band" =>
        LET top == Top(asked.band, asked.reference)
            bottom == Max({Bottom(asked.band, asked.reference), 100 * asked.band.minPrice})
            allowed == {price \in 1..(top \div 100) :
                            100 * price >= bottom /\ IsValidPrice(asked.tiers, price)}
            ends == PriceBand(asked.tiers, asked.band, asked.reference)
        IN  /\ allowed # {} => ends = <<Min(allowed), Max(allowed)>>
            /\ allowed = {} => ends[1] > ends[2]

\* On every day of the tables' span, also after a rate changed under a quote that was checked
\* when it was loaded, a trade's costs are three amounts that nobody is owed back: none is
\* negative, and what the trader pays is the exact total rounded up once (fees.trade_costs).
CostsAddUp ==
    asked.about = "costs" =>
        LET costs == TradeCosts(asked.fees, asked.preset, asked.side, asked.gross, asked.day)
            rates == Percentages(asked.fees, asked.preset, asked.side, asked.day)
            exact == asked.gross * (rates.fee + rates.levy + rates.tax)
            paid == (costs.fee + costs.levy + costs.tax) * 100 * Part
        IN  /\ costs.fee >= 0 /\ costs.levy >= 0 /\ costs.tax >= 0
            /\ exact <= paid /\ paid < exact + 100 * Part

\* What the market's tables give is exact: the ends of a price band, and the costs of a trade
\* (rules.price_band, fees.trade_costs).
PricesAndCostsAreExact == BandIsExact /\ CostsAddUp

\* What the last year paid a shareholder who kept his shares is what the run-rate of a pay lag
\* earlier said, through every split that left no part of a share over, also one on a dividend's
\* own day, and never less, and its growth is how that grew since the year before; by months it
\* comes to its take-home but for the roundings of the tax (run_rate, received_income,
\* dividend_growth, payment_calendar).
RunRateWasPaid ==
    asked.about = "income" =>
        LET entitled == Entitlements(asked.holding, asked.asOf)
            received == Received(asked.reports, Trailing(asked.reports), FullTax)
            held(day) == SharesOn(asked.bought, asked.holding.splits, day)
            nothingLost == \A s \in DOMAIN asked.holding.splits :
                (held(s) * asked.holding.splits[s][1]) % asked.holding.splits[s][2] = 0
            months == PaymentCalendar(entitled)
            before == SubSeq(asked.reports, 1, Len(asked.reports) - YearDays)
            yearBefore == IF before = <<>> THEN 0 ELSE Received(before, Trailing(before), FullTax).gross
            growth == MeasuredGrowth(asked.holding, asked.asOf)
            year == SumFunction(months)
            average == MonthlyAverage(asked.reports, FullTax).takeHome
            progress == GoalProgress(asked.target, average, AnnualGross(entitled))
        IN  /\ AnnualGross(entitled) <= received.gross
            /\ nothingLost => /\ AnnualGross(entitled) = received.gross
                              /\ year = received.takeHome
                              /\ NotBelow(progress.runRate, progress.received)
                              /\ yearBefore > 0 /\ received.gross > 0 =>
                                    growth[1] * yearBefore =
                                        growth[2] * (received.gross - yearBefore)
            /\ TakeHome(AnnualGross(entitled)) - year \in 0..Cardinality(DOMAIN entitled)
            /\ {month \in DOMAIN months : months[month] > 0} = {PaidInMonth(day) : day \in
                    {d \in DOMAIN entitled : TakeHome(entitled[d]) > 0}}

\* Saving more never puts the goal off, and a scenario is never slower than a more cautious
\* one, whatever the monthly roundings come to (project, issue 97); the goal tracker and the
\* projection agree whether it is met.
Sooner(a, b) == b = {} \/ (a # {} /\ Max(a) <= Min(b))
MoreNeverTakesLonger ==
    asked.about = "income" =>
        LET gross == AnnualGross(Entitlements(asked.holding, asked.asOf))
            growth == MeasuredGrowth(asked.holding, asked.asOf)
            years == [contribution \in Contributions |->
                Project(gross, asked.value, growth, contribution, asked.target)]
            progress == GoalProgress(asked.target, 0, gross)
        IN  /\ \A less, more \in Contributions, i, j \in 1..3 :
                    (less <= more /\ i <= j) => Sooner(years[more][j], years[less][i])
            /\ asked.value > 0 => \A contribution \in Contributions :
                    (years[contribution][2] = {0}) = NotBelow(progress.runRate, <<1, 1>>)
=============================================================================
