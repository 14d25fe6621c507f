------------------------------ MODULE Reports -------------------------------
(***************************************************************************)
(* What is worked out from the day reports of a run: the sums and the      *)
(* drawdown of metrics.py and the income received of income.py. A report   *)
(* is the day's [day, paid, tax] and more; a rate of tax is a fraction.    *)
(* What is annualised, and ratios of the sums, are left out.               *)
(***************************************************************************)
EXTENDS Fractions

CONSTANTS
    YearDays,    \* the days of the trailing year
    YearMonths   \* the months a yearly figure is divided by

ASSUME ReportsConstants == YearDays \in Nat \ {0} /\ YearMonths \in Nat \ {0}

\* What is added up is some of the reports, given as their places.
SumOver(reports, some, figure) == SumFunctionOnSet([i \in DOMAIN reports |-> reports[i][figure]], some)
Gross(report) == SumFunction(report.paid)
GrossOver(reports, some) == SumFunctionOnSet([i \in DOMAIN reports |-> Gross(reports[i])], some)

\* Both ends of the year are in it.
YearWindowStart(end) == end - (YearDays - 1)
Trailing(reports) == {i \in DOMAIN reports : reports[i].day >= YearWindowStart(Last(reports).day)}
TrailingIncome(reports) ==
    LET year == Trailing(reports) IN GrossOver(reports, year) - SumOver(reports, year, "tax")

\* The deepest fall from a running peak that starts at a unit's first price: its depth is the
\* fraction <<fall, peak>>.
Drawdown_anyOrder(reports, first) ==
    LET high == Max({first} \cup {reports[i].unitPrice : i \in DOMAIN reports})
        low == Min({first} \cup {reports[i].unitPrice : i \in DOMAIN reports})
    IN  <<high - low, high>>
Deeper(fall, than) == fall[1] * than[2] > than[1] * fall[2]
FallenTo(price, so) ==
    LET fall == <<so.peak - price, so.peak>>
    IN  CASE price > so.peak -> [so EXCEPT !.peak = price]
          [] price <= so.peak /\ Deeper(fall, so.depth) -> [so EXCEPT !.depth = fall]
          [] OTHER -> so
Drawdown(reports, first) ==
    LET after[i \in 0..Len(reports)] ==
          IF i = 0 THEN [peak |-> first, depth |-> <<0, first>>]
          ELSE FallenTo(reports[i].unitPrice, after[i - 1])
    IN  after[Len(reports)].depth

-----------------------------------------------------------------------------
\* What the full tax leaves of each dividend, whatever was charged.
DayFigures(report, rate) ==
    [gross |-> Gross(report), tax |-> report.tax, net |-> Gross(report) - report.tax,
     takeHome |-> SumFunction([k \in DOMAIN report.paid |->
                      report.paid[k] - CeilDiv(report.paid[k] * rate[1], rate[2])])]

\* Figure by figure.
Together(figures, some) ==
    [figure \in {"gross", "tax", "net", "takeHome"} |->
        SumFunctionOnSet([i \in DOMAIN figures |-> figures[i][figure]], some)]
Received(reports, some, rate) ==
    Together([i \in DOMAIN reports |-> DayFigures(reports[i], rate)], some)

\* Every month from the first day's to the last's, those with nothing paid included.
ByMonth(reports, monthOf, rate) ==
    [month \in monthOf[Head(reports).day]..monthOf[Last(reports).day] |->
        Received(reports, {i \in DOMAIN reports : monthOf[reports[i].day] = month}, rate)]

PerMonth(amount) == amount \div YearMonths
MonthlyAverage(reports, rate) ==
    LET year == Received(reports, Trailing(reports), rate)
    IN  [figure \in DOMAIN year |-> PerMonth(year[figure])]
=============================================================================
