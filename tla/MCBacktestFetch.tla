-------------------------- MODULE MCBacktestFetch --------------------------
(* A window of six days, the third of them a holiday. A list may take effect  *)
(* before it, on its first day, on its last and after it.                     *)
EXTENDS Backtest

TradingDays == {1, 2, 4, 5, 6}
\* Any trading day, and a day after the window.
TradingOrOutside == TradingDays \union {7}
LookbackStart == -1
ListDays == {0, 1, 6, 7}
\* Of two lists in a row, those of days 0 and 1, and of 6 and 7, are a review too far apart.
Months == [d \in ListDays |-> CASE d = 0 -> 0 [] d = 1 -> 7 [] d = 6 -> 10 [] d = 7 -> 14]
=============================================================================
