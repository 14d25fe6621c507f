------------------------ MODULE MCStrategiesWeights ------------------------
(* Eighteen stocks whose dividends grew, the strategy's default limits.        *)
EXTENDS Strategies

MCStocks == 1..18
MCCalendar == [y \in 1..3 |->
    [year |-> y - 1, holidays |-> {},
     tradingDays |-> Cardinality({day \in DaysOfYear(y - 1) : IsWeekday(day)})]]
MCHistories ==
    {[dividends |-> [stock \in Stocks |-> [day \in {0, 4} |-> 2]],
      splits |-> [stock \in Stocks |-> [day \in {} |-> 0]],
      incomplete |-> {}, close |-> [stock \in Stocks |-> 4]]}
MCPortfolios == {[cash |-> 100, unsettled |-> 0, held |-> <<>>]}
MCTradables == {[members |-> Stocks, buyable |-> Stocks]}
=============================================================================
