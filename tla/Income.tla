------------------------------- MODULE Income -------------------------------
(***************************************************************************)
(* What a portfolio's dividends come to (steadyhand/income.py): its        *)
(* run-rate, the months it would arrive in, how its dividends grew, and    *)
(* how many years until the goal is met. Money is in minor units; a growth *)
(* is a fraction.                                                          *)
(***************************************************************************)
EXTENDS Reports

CONSTANTS
    ProjectionMonths, TaxPercent, IncomeLag,
    PessimisticStart, BaseGrowthCap, OptimisticGrowthCap    \* fractions

ASSUME IncomeConstants ==
    /\ ProjectionMonths \in Nat /\ TaxPercent \in 0..100 /\ IncomeLag \in Nat \ {0}
    /\ {PessimisticStart, BaseGrowthCap, OptimisticGrowthCap} \subseteq Nat \X (Nat \ {0})
    /\ NotBelow(OptimisticGrowthCap, BaseGrowthCap) /\ NotBelow(<<1, 1>>, PessimisticStart)

FullTax == <<TaxPercent, 100>>
Tax(gross) == CeilDiv(gross * TaxPercent, 100)
TakeHome(gross) == gross - Tax(gross)
Tenths(months) == CeilDiv(months * 10, YearMonths)

-----------------------------------------------------------------------------
(* The run-rate: the dividends of the last year on the shares held now.    *)

\* The splits from a day to a later one, as new shares for old. Its own day's count: its
\* dividend is paid on the shares held before them.
SplitRatio_afterItsDay(holding, day, asOf) ==
    ProductOf(holding.splits, {s \in DOMAIN holding.splits : day < s /\ s <= asOf})
SplitRatio(holding, day, asOf) ==
    ProductOf(holding.splits, {s \in DOMAIN holding.splits : day <= s /\ s <= asOf})

RestatedGross(holding, day, asOf) ==
    LET ratio == SplitRatio(holding, day, asOf)
    IN  (holding.dividends[day] * holding.shares * ratio[2]) \div ratio[1]

DividendsOfTheYear(holding, end) ==
    {day \in DOMAIN holding.dividends : YearWindowStart(end) <= day /\ day <= end}

\* The dividends of the year that come to anything, by ex-date.
Entitlements(holding, asOf) ==
    LET gross == [day \in DividendsOfTheYear(holding, asOf) |-> RestatedGross(holding, day, asOf)]
    IN  [day \in {d \in DOMAIN gross : gross[d] > 0} |-> gross[day]]

AnnualGross(entitlements) == SumFunction(entitlements)

\* The month of the year each of them would be paid in, and the take-home of each month.
PaidInMonth(day) == (((day + IncomeLag) * YearMonths) \div YearDays) % YearMonths
PaymentCalendar(entitlements) ==
    [month \in 0..YearMonths - 1 |->
        SumFunction([day \in {d \in DOMAIN entitlements : PaidInMonth(d) = month} |->
                        TakeHome(entitlements[day])])]

-----------------------------------------------------------------------------
(* How its dividends grew, a share at a time, over GrowthSpan: a year here,*)
(* so that the yearly rate is no root.                                     *)

PerShare(holding, end, asOf) ==
    LET restated(day) ==
            LET ratio == SplitRatio(holding, day, asOf)
            IN  <<holding.dividends[day] * ratio[2], ratio[1]>>
    IN  FoldFunction(Added, <<0, 1>>, [day \in DividendsOfTheYear(holding, end) |-> restated(day)])

GrowthSpan == YearDays
MeasuredGrowth(holding, asOf) ==
    LET recent == PerShare(holding, asOf, asOf)
        earlier == PerShare(holding, asOf - GrowthSpan, asOf)
    IN  IF AnnualGross(Entitlements(holding, asOf)) = 0 \/ earlier[1] = 0 THEN <<0, 1>>
        ELSE <<recent[1] * earlier[2] - earlier[1] * recent[2], recent[2] * earlier[1]>>

-----------------------------------------------------------------------------
(* The projection: months until the monthly take-home meets the target, in *)
(* tenths of a year, or none.                                              *)

Lesser(a, b) == IF NotBelow(a, b) THEN b ELSE a
Met(income, target) == PerMonth(TakeHome(income)) >= target

FirstMet(income, target) ==
    {Tenths(month) : month \in
        {m \in DOMAIN income : Met(income[m], target) /\ \A n \in 0..m - 1 : ~Met(income[n], target)}}

\* Each month the income is rounded, and reinvested at the rounded yield (issue 97).
Years_roundedMonthly(start, value, growth, contribution, target) ==
    LET after[month \in 0..ProjectionMonths] ==
            IF month = 0 THEN [worth |-> value, income |-> start]
            ELSE LET was == after[month - 1]
                     added == TakeHome(PerMonth(was.income)) + contribution
                     income == was.income + ((added * was.income) \div was.worth)
                 IN  [worth |-> was.worth + added,
                      income |-> IF month % YearMonths = 0
                                 THEN (income * (growth[1] + growth[2])) \div growth[2] ELSE income]
    IN  FirstMet([month \in DOMAIN after |-> after[month].income], target)
Years(start, value, growth, contribution, target) ==
    LET after[month \in 0..ProjectionMonths] ==
            IF month = 0 THEN [worth |-> value, yield |-> <<start, value>>, income |-> start]
            ELSE LET was == after[month - 1]
                     worth == was.worth + TakeHome(PerMonth(was.income)) + contribution
                     yield == IF month % YearMonths = 0
                              THEN Times(was.yield, <<growth[1] + growth[2], growth[2]>>) ELSE was.yield
                 IN  [worth |-> worth, yield |-> yield, income |-> (worth * yield[1]) \div yield[2]]
    IN  FirstMet([month \in DOMAIN after |-> after[month].income], target)

\* The goal tracker's shares of the target, as fractions: what was received, and the run-rate.
GoalProgress(target, received, gross) ==
    [received |-> <<received, target>>, runRate |-> <<PerMonth(TakeHome(gross)), target>>]

\* The pessimistic, the base and the optimistic scenario.
Project(gross, value, measured, contribution, target) ==
    LET plans == <<[start |-> (gross * PessimisticStart[1]) \div PessimisticStart[2],
                    growth |-> Lesser(<<0, 1>>, measured)],
                   [start |-> gross, growth |-> Lesser(measured, BaseGrowthCap)],
                   [start |-> gross, growth |-> Lesser(measured, OptimisticGrowthCap)]>>
    IN  [i \in DOMAIN plans |->
            IF gross = 0 \/ value = 0 THEN {}
            ELSE Years(plans[i].start, value, plans[i].growth, contribution, target)]
=============================================================================
