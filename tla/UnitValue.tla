----------------------------- MODULE UnitValue ------------------------------
(***************************************************************************)
(* The account as a fund of units (steadyhand/risk.py, and its port in     *)
(* extension/packages/core/src/risk.ts): how it is revalued, what a        *)
(* deposit buys, and which fall halts ordering. Units and their price are  *)
(* kept to one part in Scale and rounded down.                             *)
(***************************************************************************)
EXTENDS Integers

CONSTANTS
    DailyLoss,   \* risk limits, in percent: a fall from one value to the next that halts,
    MaxDrawdown, \* and a fall below the high-water mark that does
    Scale        \* units and their price are kept to one part in Scale

NoUnits == [units |-> 0, price |-> Scale, high |-> Scale]

PriceOf(value, of) == (value * Scale * Scale) \div of.units
Revalued(of, value) ==
    IF of.units = 0 THEN of
    ELSE LET price == PriceOf(value, of)
         IN  [of EXCEPT !.price = price, !.high = IF price > @ THEN price ELSE @]
Deposited_atPar(of, amount) == [of EXCEPT !.units = @ + amount * Scale]
Deposited(of, amount) == [of EXCEPT !.units = @ + (amount * Scale * Scale) \div of.price]

\* RiskManager.halt: a limit reached is a limit breached.
FallsBy(percent, from, to) == to * 100 <= from * (100 - percent)
Breached_fromTheMark(before, after) ==
    after.units > 0 /\ FallsBy(MaxDrawdown, after.high, after.price)
Breached(before, after) ==
    \/ before.units > 0 /\ FallsBy(DailyLoss, before.price, after.price)
    \/ after.units > 0 /\ FallsBy(MaxDrawdown, after.high, after.price)
=============================================================================
