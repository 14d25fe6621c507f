-------------------------- MODULE SimulatedBroker --------------------------
(***************************************************************************)
(* The simulated fill (steadyhand/broker/simulated.py): each day the       *)
(* orders queued the day before trade at the open, every sell first, and   *)
(* the day's stamp duty is charged once, after the last fill. The code     *)
(* promises that cash never runs short, though a sale's proceeds settle    *)
(* days after the buys and the duty they may be wanted for.                *)
(*                                                                         *)
(* The portfolio is Portfolio's, used only through its operations. Shares  *)
(* are counted in lots and a price is the price of one lot. Where a price  *)
(* and a day's volume come from is the market's business: a fill takes any *)
(* price and any cut, and an order may be refused for either.              *)
(***************************************************************************)
EXTENDS Portfolio

CONSTANTS
    Price,       \* the prices a lot may trade at
    FeeDivisor,  \* a trade costs its gross value divided by this, rounded up
    Duty,        \* the stamp duty on a day's trades
    DutyFree     \* the traded value up to which no duty is charged

ASSUME MarketConstants ==
    /\ Price \subseteq Nat \ {0}
    /\ FeeDivisor \in Nat \ {0} /\ Duty \in Nat /\ DutyFree \in Nat
    /\ Lag > 0

VARIABLES
    today,    \* the last day run
    pending,  \* the orders still to fill today
    session   \* the day's fills in progress, or Closed

broker == <<today, pending, session>>
vars == <<portfolio, broker>>

Closed == [running |-> FALSE, traded |-> 0, proceeds |-> 0, bought |-> FALSE]

-----------------------------------------------------------------------------
(* What trading costs.                                                     *)

\* trade_costs: rounded up, against the trader. daily_costs: due only on more
\* than the exempt value.
Fee(gross) == (gross + FeeDivisor - 1) \div FeeDivisor
DailyCost(traded) == IF traded > DutyFree THEN Duty ELSE 0

Net(gross) == gross - Fee(gross)

\* A buy's cost with the day's charge on everything traded so far.
CostWithDuty(gross) == gross + Fee(gross) + DailyCost(session.traded + gross)

\* The most lots, up to those wanted, that leave the day's charge paid: as many
\* as the cash would buy free of costs, less one at a time until it does.
LotsPaid_dutyHeldBack(wanted, price, cash) ==
    LET most == Min({wanted, Max({cash - Duty, 0}) \div price})
    IN Max({0} \union {q \in 1..most : CostWithDuty(price * q) <= cash})
LotsPaid(wanted, price, cash) ==
    LET most == Min({wanted, Max({cash, 0}) \div price})
    IN Max({0} \union {q \in 1..most : CostWithDuty(price * q) <= cash})

-----------------------------------------------------------------------------
(* The session: its orders are those queued the day before (EngineDay).    *)

\* Every sell is tried before the first buy.
NextInLine_anyOrder(o) == o \in pending
NextInLine(o) == o \in pending /\ (o.side = "buy" => \A p \in pending : p.side = "buy")

Tried(o) ==
    /\ session.running
    /\ NextInLine(o)
    /\ pending' = pending \ {o}
    /\ UNCHANGED today

\* Frozen, not traded, outside the price band, or not a lot of the volume.
Refuse(o) ==
    /\ Tried(o)
    /\ UNCHANGED <<portfolio, session>>

\* What a fill costs is the market's, and so is the day a sale's proceeds settle.
BookFill(o, quantity, price) ==
    ApplyFill(o.side, o.stock, quantity, price * quantity, Fee(price * quantity), today, today + Lag)

BuyOrder(o, wanted, price) ==
    LET lots == LotsPaid(wanted, price, SpendableCash(today))
        gross == price * lots
    IN /\ Tried(o)
       /\ o.side = "buy"
       /\ \/ lots = 0 /\ UNCHANGED <<portfolio, session>>
          \/ /\ lots > 0
             /\ BookFill(o, lots, price)
             /\ session' = [session EXCEPT !.traded = @ + gross, !.bought = TRUE]

\* A sale goes ahead unless the day's charge would exceed the cash and the
\* proceeds that could pay it.
Covering(gross) == SpendableCash(today) + session.proceeds + Net(gross)

SellOrder(o, quantity, price) ==
    LET gross == price * quantity
    IN /\ Tried(o)
       /\ o.side = "sell"
       /\ \/ /\ DailyCost(session.traded + gross) > Covering(gross)
             /\ UNCHANGED <<portfolio, session>>
          \/ /\ DailyCost(session.traded + gross) <= Covering(gross)
             /\ BookFill(o, quantity, price)
             /\ session' = [session EXCEPT !.traded = @ + gross, !.proceeds = @ + Net(gross)]

\* The charge settles with the day's sales, or today if anything was bought.
ChargeSettles(bought) == IF bought THEN today ELSE today + Lag

CloseDay ==
    LET daily == DailyCost(session.traded)
    IN /\ session.running
       /\ pending = {}
       /\ IF daily > 0
          THEN Charge("daily cost", daily, today, ChargeSettles(session.bought))
          ELSE UNCHANGED portfolio
       /\ session' = Closed
       /\ UNCHANGED <<today, pending>>


-----------------------------------------------------------------------------
(* What must hold.                                                         *)

\* "Every fill is checked so cash never runs short": whatever is bought, sold and
\* charged, no day from today on has less than nothing settled, although proceeds
\* come days later than the money they replace.
NeverOverdrawn ==
    \A on \in today..MaxDay + Lag : SettledCash(on) >= 0

\* A buy is for the most lots the cash pays for, up to those wanted: with one lot
\* more, the cost and the day's charge would not be paid.
MostLotsBought ==
    session.running =>
        LET cash == SpendableCash(today)
        IN  \A price \in Price, wanted \in Quantity :
              \A q \in LotsPaid(wanted, price, cash) + 1..wanted : CostWithDuty(price * q) > cash
=============================================================================
