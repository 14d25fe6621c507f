----------------------------- MODULE Portfolio -----------------------------
(***************************************************************************)
(* The cash-only portfolio of steadyhand/portfolio.py: a ledger of cash    *)
(* movements, each with the day it settles, and the positions they bought. *)
(* A snapshot also carries what it would otherwise have to read the ledger *)
(* for: the cash balance, and which movements settle after its last day.   *)
(*                                                                         *)
(* The operations are actions with the arguments of the Python methods; a  *)
(* call the code refuses with an error has no step. Days are 1, 2, ...,    *)
(* money and shares are whole numbers, and there is one currency.          *)
(***************************************************************************)
EXTENDS Integers, Sequences, FiniteSetsExt

CONSTANTS
    Stock,        \* the instruments
    MaxDay,       \* bound: the last day an operation is dated
    Lag,          \* days from a trade to its settlement
    Amount,       \* the amounts an operation may be called with
    Quantity,     \* the numbers of shares a fill may be for
    Ratio,        \* the splits, <<new shares, old shares>>
    MaxMovements, \* bound: the longest ledger
    MaxShares     \* bound: the largest holding that is split

ASSUME PortfolioConstants ==
    /\ MaxDay \in Nat /\ Lag \in Nat /\ MaxMovements \in Nat /\ MaxShares \in Nat
    /\ Amount \subseteq Nat \ {0}
    /\ Quantity \subseteq Nat \ {0}
    /\ Ratio \subseteq (Nat \ {0}) \X (Nat \ {0})

VARIABLES
    positions,  \* the shares held of each stock and what they cost
    ledger,     \* every movement, in booking order
    balance,    \* _balance: the cached sum of the movements
    open        \* _open: the places in the ledger of those that settle later

portfolio == <<positions, ledger, balance, open>>

NoDay == 0
Days == 1..MaxDay

Kind == {"deposit", "buy", "sell", "dividend", "tax", "daily cost"}
Charges == {"tax", "daily cost"}

CashMovement == {m \in [day : Days, kind : Kind, amount : Int, settles : Days \union 1..MaxDay + Lag] :
                    m.settles >= m.day}

\* A stock not held has no shares and no cost.
Position == {p \in [quantity : Nat, basis : Nat] : p.quantity = 0 => p.basis = 0}
NoPosition == [quantity |-> 0, basis |-> 0]

Empty ==
    /\ positions = [s \in Stock |-> NoPosition]
    /\ ledger = <<>>
    /\ balance = 0
    /\ open = {}

-----------------------------------------------------------------------------
(* Cash.                                                                   *)

LastDay == IF ledger = <<>> THEN NoDay ELSE ledger[Len(ledger)].day

\* The cash moved by the movements at these places of the ledger.
Amounts == [i \in DOMAIN ledger |-> ledger[i].amount]
Cash(places) == SumFunctionOnSet(Amounts, places)

Credit(i) == ledger[i].amount >= 0

\* _settling_after: from the last day on, what settles later is all in `open`;
\* an earlier day needs the whole ledger.
Pool_openOnly(on) == open
Pool(on) == IF on >= LastDay THEN open ELSE DOMAIN ledger

SettledCash(on) == balance - Cash({i \in Pool(on) : ledger[i].settles > on})

SpendableCash(on) == balance - Cash({i \in Pool(on) : ledger[i].settles > on /\ Credit(i)})

-----------------------------------------------------------------------------
(* Operations.                                                             *)

NotBeforeLast(on) == on >= LastDay

\* _next: one movement after the rest. Only movements already open can stay so.
StillOpen(movement) ==
    {i \in open \union {Len(ledger) + 1} : ledger'[i].settles > movement.day}

\* Every movement counts in the balance on its day, whenever it settles.
Balance(movement) == balance + movement.amount

Book(kind, amount, on, settles) ==
    LET movement == [day |-> on, kind |-> kind, amount |-> amount, settles |-> settles]
    IN /\ NotBeforeLast(on)
       /\ settles >= on
       /\ ledger' = Append(ledger, movement)
       /\ balance' = Balance(movement)
       /\ open' = StillOpen(movement)

\* _book: cash that comes or goes by itself, some of it.
BookCash(kind, amount, sign, on, settles) ==
    /\ amount > 0
    /\ Book(kind, sign * amount, on, settles)
    /\ UNCHANGED positions

Deposit(amount, on) == BookCash("deposit", amount, 1, on, on)
CreditDividend(gross, on) == BookCash("dividend", gross, 1, on, on)

\* Tax or a daily cost: the amount is held back from the spendable cash at once,
\* whenever it settles. Nothing checks that it is there.
Charge(kind, amount, on, settles) == kind \in Charges /\ BookCash(kind, amount, -1, on, settles)

Held(stock) == positions[stock].quantity > 0

\* A split keeps the cost and drops a fraction of a share; a holding that comes
\* to nothing goes with its cost. No movement is booked.
AfterSplit(held, quantity) ==
    IF quantity = 0 THEN NoPosition ELSE [quantity |-> quantity, basis |-> held.basis]

ApplySplit(stock, ratio, on) ==
    LET held == positions[stock]
        quantity == (held.quantity * ratio[1]) \div ratio[2]
    IN /\ NotBeforeLast(on)
       /\ Held(stock)
       /\ positions' = [positions EXCEPT ![stock] = AfterSplit(held, quantity)]
       /\ UNCHANGED <<ledger, balance, open>>

Buy(stock, quantity, cost, on) ==
    /\ cost <= SpendableCash(on)
    /\ positions' = [positions EXCEPT ![stock].quantity = @ + quantity, ![stock].basis = @ + cost]
    /\ Book("buy", -cost, on, on)

\* The cost released by a partial sale rounds up.
Released_down(held, quantity) == (held.basis * quantity) \div held.quantity
Released(held, quantity) == -((-held.basis * quantity) \div held.quantity)

Sell(stock, quantity, proceeds, on, settles) ==
    LET held == positions[stock]
    IN /\ quantity <= held.quantity
       /\ proceeds >= 0
       /\ positions' = [positions EXCEPT ![stock] =
              IF quantity = held.quantity THEN NoPosition
              ELSE [quantity |-> held.quantity - quantity,
                    basis |-> held.basis - Released(held, quantity)]]
       /\ Book("sell", proceeds, on, settles)

\* A buy is debited on its trade date, a sale credited when it settles.
ApplyFill(side, stock, quantity, gross, costs, on, settles) ==
    \/ side = "buy" /\ Buy(stock, quantity, gross + costs, on)
    \/ side = "sell" /\ Sell(stock, quantity, gross - costs, on, settles)

-----------------------------------------------------------------------------
(* Every legal sequence of calls.                                          *)

Call(on) ==
    \/ \E amount \in Amount : Deposit(amount, on) \/ CreditDividend(amount, on)
    \/ \E kind \in Charges, amount \in Amount, settles \in {on, on + Lag} :
          Charge(kind, amount, on, settles)
    \/ \E stock \in Stock, ratio \in Ratio :
          positions[stock].quantity <= MaxShares /\ ApplySplit(stock, ratio, on)
    \/ \E stock \in Stock, quantity \in Quantity, amount \in Amount : Buy(stock, quantity, amount, on)
    \/ \E stock \in Stock, quantity \in Quantity, amount \in Amount \union {0} :
          Sell(stock, quantity, amount, on, on + Lag)

CallsNext ==
    /\ Len(ledger) < MaxMovements
    /\ \E on \in Days : Call(on)

CallsSpec == Empty /\ [][CallsNext]_portfolio

-----------------------------------------------------------------------------
(* What must hold.                                                         *)

\* Every variable stays within its type; no position has a negative cost.
PortfolioTypeOK ==
    /\ positions \in [Stock -> Position]
    /\ ledger \in Seq(CashMovement)
    /\ balance \in Int
    /\ open \subseteq DOMAIN ledger

\* The cash is what the ledger says on any day, past or to come, though it is read
\* from the balance and the open movements: "settled credits, less every debit"
\* (spendable_cash), and all that has settled (settled_cash).
CashIsAsDefined ==
    \A on \in 1..MaxDay + Lag :
        /\ SpendableCash(on) = Cash({i \in DOMAIN ledger : Credit(i) => ledger[i].settles <= on})
        /\ SettledCash(on) = Cash({i \in DOMAIN ledger : ledger[i].settles <= on})

\* A sale never overstates the gain on the shares sold: what the shares kept cost
\* is at most their share of what the holding cost.
Sold == Len(ledger') > Len(ledger) /\ ledger'[Len(ledger')].kind = "sell"
NoGainOverstated ==
    [][Sold => \A s \in Stock :
          positions'[s].basis * positions[s].quantity
              <= positions[s].basis * positions'[s].quantity]_portfolio

=============================================================================
