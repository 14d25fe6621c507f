------------------------------ MODULE Results -------------------------------
(***************************************************************************)
(* What a run reports: each day's DayReport (steadyhand/engine.py), the    *)
(* metrics of the run (metrics.py) and the income it received (income.py). *)
(* All three are worked out from the reports, never from the ledger. What  *)
(* is annualised, and ratios of the sums below, are left out.              *)
(***************************************************************************)
EXTENDS EngineDay, Reports

VARIABLES
    soFar,       \* what the day under way traded, was charged and was paid
    reports      \* the DayReports, oldest first

results == <<soFar, reports>>

NothingYet == [bought |-> 0, sold |-> 0, fee |-> 0, daily |-> 0, paid |-> <<>>, tax |-> 0]

ResultsInit == EngineInit /\ soFar = NothingYet /\ reports = <<>>

-----------------------------------------------------------------------------
(* The day's report.                                                       *)

ReportedPay == Pay /\ soFar' = [soFar EXCEPT !.paid = Append(@, Head(entitlements).gross)]

ReportedTax == PayTax /\ soFar' = [soFar EXCEPT !.tax = @ + owed]

ReportedFill(o) ==
    LET gross == session'.traded - session.traded
    IN  /\ Fill(o)
        /\ soFar' = [soFar EXCEPT !.bought = @ + (IF o.side = "buy" THEN gross ELSE 0),
                                  !.sold = @ + (IF o.side = "sell" THEN gross ELSE 0),
                                  !.fee = @ + Fee(gross)]

ReportedClose == CloseSession /\ soFar' = [soFar EXCEPT !.daily = DailyCost(session.traded)]

DayReport ==
    [day |-> today, value |-> Value(closes), unitPrice |-> units.price, bought |-> soFar.bought,
     sold |-> soFar.sold, fee |-> soFar.fee, daily |-> soFar.daily, paid |-> soFar.paid, tax |-> soFar.tax]

Report == Decide /\ reports' = Append(reports, DayReport) /\ soFar' = NothingYet

ResultsNext ==
    \/ (StartDay \/ OpenMarket \/ Revalue) /\ UNCHANGED results
    \/ (ReportedPay \/ ReportedTax \/ ReportedClose) /\ UNCHANGED reports
    \/ \E o \in pending : ReportedFill(o) /\ UNCHANGED reports
    \/ Report

ResultsSpec == ResultsInit /\ [][ResultsNext]_<<all, results>>

-----------------------------------------------------------------------------
(* The metrics of the run.                                                 *)

Total(figure) == SumOver(reports, DOMAIN reports, figure)
Costs == [fee |-> Total("fee"), daily |-> Total("daily")]
Dividends == [gross |-> GrossOver(reports, DOMAIN reports), tax |-> Total("tax")]

FullTax == <<1, TaxPart>>
MonthOf(day) == Cardinality({start \in MonthStarts : start <= day})

-----------------------------------------------------------------------------
\* What a run reports is what the ledger holds, though it is added up from other records:
\* traded values, charges and dividends day by day. All the cash there is is accounted for;
\* the income of the last year and of every month is the dividends booked in them, the tax
\* on them taken off; and the drawdown is the deepest of all falls from any earlier price,
\* the halting limit at least once it was reached (measure, received_income).
ResultsAddUp ==
    LET booked(kinds, days) ==
            Cash({i \in DOMAIN ledger : ledger[i].kind \in kinds /\ ledger[i].day \in days})
        income(days) == booked({"dividend", "tax"}, days)
        months == ByMonth(reports, [day \in Days |-> MonthOf(day)], FullTax)
        price == <<Scale>> \o [i \in DOMAIN reports |-> reports[i].unitPrice]
        deepest == Drawdown(reports, Scale)
        average == MonthlyAverage(reports, FullTax)
    IN phase = "closed" /\ reports # <<>> =>
         /\ Value(closes) = Last(reports).value
         /\ balance = booked({"deposit"}, 1..today)
                        - Total("bought") + Total("sold")
                        - Costs.fee - Costs.daily + Dividends.gross - Dividends.tax
         /\ TrailingIncome(reports) = income(today - YearDays + 1..today)
         /\ Received(reports, Trailing(reports), FullTax).net = TrailingIncome(reports)
         /\ (average.gross - average.tax) - average.net \in {0, 1}
         /\ \A month \in DOMAIN months :
              LET received == months[month]
              IN  /\ received.net = income({day \in 1..today : MonthOf(day) = month})
                  /\ received.takeHome = received.net
         /\ \A i, j \in DOMAIN price : i <= j =>
              (price[i] - price[j]) * deepest[2] <= deepest[1] * price[i]
         /\ \E i, j \in DOMAIN price : i <= j /\ deepest = <<price[i] - price[j], price[i]>>
         /\ FallsBy(MaxDrawdown, units.high, units.price) =>
              deepest[1] * 100 >= MaxDrawdown * deepest[2]
=============================================================================
