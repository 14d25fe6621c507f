----------------------------- MODULE EngineDay -----------------------------
(***************************************************************************)
(* A trading day of the engine (steadyhand/engine.py, run_day), repeated:  *)
(* corporate actions change what is held before anything trades, the       *)
(* broker fills yesterday's orders, the close values the account as a fund *)
(* of units and may halt it, a contribution is deposited, and the strategy *)
(* decides, through the sizer and the risk limits, what to order tomorrow. *)
(*                                                                         *)
(* run_day is one pure call. Its stages are steps here, each with what the *)
(* world supplies to it: which stocks have a bar, at which price an order  *)
(* fills, which actions fall on the day, what the strategy wants. The fill *)
(* is SimulatedBroker's. The exemption of dividends is off (Exemption).    *)
(***************************************************************************)
EXTENDS SimulatedBroker, UnitValue, SequencesExt

CONSTANTS
    BySymbol,      \* the stocks in the order of their symbols
    Capital,       \* what the account is opened with
    Contribution,  \* what is deposited each month
    MonthStarts,   \* the first trading day of each month
    PayLag,        \* the trading days from an ex-date to the pay date
    PerShare,      \* the dividends a share may earn
    TaxPart,       \* a dividend's tax is one part in TaxPart of it, rounded up
    Weights,       \* the target weights a strategy may give, in percent
    MaxWeight,     \* risk limit, in percent: the most one stock may be
    MaxEvents      \* bound: corporate actions and exclusions

ASSUME EngineConstants ==
    /\ BySymbol \in Seq(Stock) /\ \A s \in Stock : \E i \in DOMAIN BySymbol : BySymbol[i] = s
    /\ \A i, j \in DOMAIN BySymbol : BySymbol[i] = BySymbol[j] => i = j
    /\ MaxDay > 0
    /\ {Capital, Contribution, PayLag, TaxPart, Scale} \subseteq Nat \ {0}
    /\ MonthStarts \subseteq Days /\ MaxEvents \in Nat
    /\ PerShare \subseteq Nat \ {0} /\ Weights \subseteq 0..100
    /\ MaxWeight \in 1..100 /\ {DailyLoss, MaxDrawdown} \subseteq 1..99

VARIABLES
    phase,        \* the stage of the day
    entitlements, \* the dividends earned and not yet paid, oldest first
    owed,         \* the tax on the dividend just paid
    frozen,       \* the stocks that never trade again
    bar,          \* today's close of each stock, or NoBar
    closes,       \* the last close of each stock held, or NoBar
    units,        \* the account as a fund: its units, their price, its high-water mark
    halt,         \* the day ordering was halted, or NoDay
    events,       \* how many corporate actions and exclusions there were
    worth,        \* the account's value at the last close, the deposit included
    earned        \* every dividend earned

engine == <<phase, entitlements, owed, frozen, bar, closes, units, halt, events, worth, earned>>
all == <<vars, engine>>

Phase == {"closed", "paying", "filling", "valuing", "deciding"}
NoBar == -1

-----------------------------------------------------------------------------
(* Value.                                                                  *)

Worth(stock, at) == IF Held(stock) THEN at[stock] * positions[stock].quantity ELSE 0
HoldingsValue(at) == SumFunctionOnSet([s \in Stock |-> Worth(s, at)], Stock)
Value(at) == balance + HoldingsValue(at)

EngineInit ==
    /\ positions = [s \in Stock |-> NoPosition]
    /\ ledger = <<[day |-> 1, kind |-> "deposit", amount |-> Capital, settles |-> 1]>>
    /\ balance = Capital
    /\ open = {}
    /\ today = 0
    /\ pending = {}
    /\ session = Closed
    /\ phase = "closed"
    /\ entitlements = <<>> /\ owed = 0 /\ earned = {}
    /\ frozen = {} /\ events = 0
    /\ bar = [s \in Stock |-> NoBar] /\ closes = [s \in Stock |-> NoBar]
    /\ units = Deposited(NoUnits, Capital)
    /\ halt = NoDay
    /\ worth = Capital

-----------------------------------------------------------------------------
(* Before the open: exclusions and corporate actions.                      *)

\* A split scales the last close, which values the stock on a day with no bar, and
\* cancels the orders for it.
Scaled(close, ratio) == IF close = NoBar THEN NoBar ELSE (close * ratio[2]) \div ratio[1]

Uncancelled_all(stock) == pending
Uncancelled(stock) == {o \in pending : o.stock # stock}

Split(stock, ratio, on) ==
    /\ IF Held(stock) THEN ApplySplit(stock, ratio, on) ELSE UNCHANGED portfolio
    /\ closes' = [closes EXCEPT ![stock] = Scaled(@, ratio)]
    /\ pending' = Uncancelled(stock)

\* A dividend is earned on the shares held at the last close, before today's splits, by
\* each stock in turn.
Entitlement(stock, perShare, on) ==
    [stock |-> stock, exDate |-> on, payDate |-> on + PayLag,
     gross |-> perShare * positions[stock].quantity]

Entitled(dividends, on) ==
    LET after[i \in 0..Len(BySymbol)] ==
          IF i = 0 THEN entitlements
          ELSE IF Held(BySymbol[i]) /\ BySymbol[i] \in DOMAIN dividends
               THEN Append(after[i - 1], Entitlement(BySymbol[i], dividends[BySymbol[i]], on))
               ELSE after[i - 1]
    IN  after[Len(BySymbol)]

FreezeExcluded(excluded) == frozen' = frozen \union {s \in excluded : Held(s)}

\* The day begins: what is excluded is frozen, at most one stock splits, and some
\* stocks go ex-dividend.
StartDay ==
    /\ phase = "closed"
    /\ today < MaxDay
    /\ \E excluded, payers \in SUBSET Stock, splits \in {{}} \union {{s} : s \in Stock \X Ratio} :
         \E dividends \in [payers -> PerShare] :
           /\ events' = events + Cardinality(excluded) + Cardinality(payers) + Cardinality(splits)
           /\ events' <= MaxEvents
           /\ FreezeExcluded(excluded)
           /\ IF splits = {}
              THEN UNCHANGED <<portfolio, closes, pending>>
              ELSE \E split \in splits : Split(split[1], split[2], today + 1)
           /\ entitlements' = Entitled(dividends, today + 1)
           /\ earned' = earned \union ToSet(entitlements')
    /\ today' = today + 1
    /\ phase' = "paying"
    /\ UNCHANGED <<session, owed, bar, units, halt, worth>>

DividendTax(gross) == (gross + TaxPart - 1) \div TaxPart

Due_whileHeld ==
    /\ entitlements # <<>> /\ Head(entitlements).payDate <= today
    /\ Held(Head(entitlements).stock)
Due == entitlements # <<>> /\ Head(entitlements).payDate <= today

\* A dividend that is due is paid, and then its tax charged.
Pay ==
    /\ phase = "paying"
    /\ owed = 0
    /\ Due
    /\ CreditDividend(Head(entitlements).gross, today)
    /\ owed' = DividendTax(Head(entitlements).gross)
    /\ entitlements' = Tail(entitlements)
    /\ UNCHANGED <<broker, phase, frozen, bar, closes, units, halt, events, worth, earned>>

PayTax ==
    /\ phase = "paying"
    /\ owed > 0
    /\ Charge("tax", owed, today, today)
    /\ owed' = 0
    /\ UNCHANGED <<broker, phase, entitlements, frozen, bar, closes, units, halt, events, worth,
                   earned>>

-----------------------------------------------------------------------------
(* The open, the fills and the close.                                      *)

\* Any other action on a held stock freezes it. Some stocks have no bar today.
OpenMarket ==
    /\ phase = "paying"
    /\ owed = 0
    /\ ~Due
    /\ \E stopped \in SUBSET Stock :
         /\ events' = events + Cardinality(stopped)
         /\ events' <= MaxEvents
         /\ frozen' = frozen \union {s \in stopped : Held(s)}
    /\ bar' \in [Stock -> Price \union {NoBar}]
    /\ session' = [Closed EXCEPT !.running = TRUE]
    /\ phase' = "filling"
    /\ UNCHANGED <<portfolio, today, pending, entitlements, owed, closes, units, halt, worth, earned>>

\* A frozen stock, or one without a bar, is refused at the open.
Fillable(o) == o.stock \notin frozen /\ bar[o.stock] # NoBar

Fill(o) ==
    /\ phase = "filling"
    /\ \/ Refuse(o)
       \/ /\ Fillable(o)
          /\ \E wanted \in 1..o.quantity, price \in Price :
                BuyOrder(o, wanted, price) \/ SellOrder(o, wanted, price)
    /\ UNCHANGED engine

CloseSession ==
    /\ phase = "filling"
    /\ CloseDay
    /\ phase' = "valuing"
    /\ UNCHANGED <<entitlements, owed, frozen, bar, closes, units, halt, events, worth, earned>>

\* Each held stock's close today, or its last close when it has no bar.
Closes ==
    [s \in Stock |-> IF ~Held(s) THEN NoBar ELSE IF bar[s] # NoBar THEN bar[s] ELSE closes[s]]

Halted_today(after) == IF Breached(units, after) THEN today ELSE NoDay
Halted(after) ==
    IF halt # NoDay THEN halt ELSE IF Breached(units, after) THEN today ELSE NoDay

\* On a month's first trading day its contribution buys units, at the price of the day. None
\* can be bought at a price of 0: the run stops.
FirstTradingDayOfMonth == today \in MonthStarts
TopUp(after) ==
    IF FirstTradingDayOfMonth
    THEN /\ after.price > 0
         /\ Deposit(Contribution, today) /\ units' = Deposited(after, Contribution)
    ELSE UNCHANGED portfolio /\ units' = after

\* The account is valued and halted if it must be, and only then topped up.
Revalue ==
    LET after == Revalued(units, Value(Closes))
    IN /\ phase = "valuing"
       /\ closes' = Closes
       /\ halt' = Halted(after)
       /\ TopUp(after)
       /\ worth' = balance' + HoldingsValue(Closes)
       /\ phase' = "deciding"
       /\ UNCHANGED <<broker, entitlements, owed, frozen, bar, events, earned>>

-----------------------------------------------------------------------------
(* The decision.                                                           *)

LastClose(s) == IF Held(s) THEN closes[s] ELSE bar[s]
Spendable == Max({SpendableCash(today), 0})
Cost(quantity, price) == price * quantity + Fee(price * quantity)

\* CompoundingSizer: whole lots of the difference from what is held, rounded towards zero.
Target(weights, s) == (Value(closes) * weights[s]) \div 100
Wanted(weights, s) ==
    LET gap == Target(weights, s) - Worth(s, closes)
    IN IF gap < 0 THEN -Min({(-gap) \div LastClose(s), positions[s].quantity})
       ELSE gap \div LastClose(s)

\* RiskManager.check: a buy is cut to the stock's limit, then to the cash left by the buys
\* before it, costs included; the proceeds of sales are not counted.
Room(s) == Max({((Value(closes) * MaxWeight) \div 100 - Worth(s, closes)) \div LastClose(s), 0})
Affordable(quantity, price, budget) ==
    Max({0} \union {q \in 1..Min({quantity, budget \div price}) : Cost(q, price) <= budget})

Bought(weights, buyable, s, budget) ==
    IF s \in buyable /\ Wanted(weights, s) > 0
    THEN Affordable(Min({Wanted(weights, s), Room(s)}), LastClose(s), budget)
    ELSE 0

Left(quantity, price, budget) == IF quantity = 0 THEN budget ELSE budget - Cost(quantity, price)

Checked(weights, buyable) ==
    LET budget[i \in 0..Len(BySymbol)] ==
          IF i = 0 THEN Spendable
          ELSE Left(Bought(weights, buyable, BySymbol[i], budget[i - 1]), LastClose(BySymbol[i]),
                    budget[i - 1])
        quantity(i) == Bought(weights, buyable, BySymbol[i], budget[i - 1])
    IN  {[stock |-> BySymbol[i], side |-> "buy", quantity |-> quantity(i)] :
            i \in {i \in DOMAIN BySymbol : quantity(i) > 0}}

Sales(weights, sellable) ==
    {[stock |-> s, side |-> "sell", quantity |-> -Wanted(weights, s)] :
        s \in {s \in sellable : Wanted(weights, s) < 0}}

Tradable == {s \in Stock : s \notin frozen /\ bar[s] # NoBar}

\* Nothing is ordered while halted. A strategy may want anything; a stock it may buy is
\* a member that is not excluded, so any part of what trades.
Decide ==
    /\ phase = "deciding"
    /\ IF halt # NoDay
       THEN pending' = {}
       ELSE \E weights \in [Stock -> Weights], buyable \in SUBSET Tradable :
              /\ SumFunctionOnSet(weights, Stock) <= 100
              /\ pending' = Sales(weights, {s \in Tradable : Held(s)})
                                \union Checked(weights, buyable)
    /\ phase' = "closed"
    /\ UNCHANGED <<portfolio, today, session, entitlements, owed, frozen, bar, closes, units, halt,
                   events, worth, earned>>

EngineNext ==
    \/ StartDay \/ Pay \/ PayTax \/ OpenMarket
    \/ \E o \in pending : Fill(o)
    \/ CloseSession \/ Revalue \/ Decide

EngineSpec == EngineInit /\ [][EngineNext]_all

-----------------------------------------------------------------------------
(* What must hold.                                                         *)

\* Whatever is held at a close can be valued, after days without a bar, splits and
\* fills of any order: run_day looks its last close up.
EveryHoldingHasAClose ==
    phase \in {"deciding", "closed"} => \A s \in Stock : Held(s) => closes[s] # NoBar

\* "Freezes it for the rest of the run": a frozen stock stays frozen, and its shares
\* change only by a split, though an order for it was queued before.
FrozenForGood ==
    [][/\ frozen \subseteq frozen'
       /\ \A s \in frozen : positions'[s] # positions[s] => phase = "closed"]_all

\* Nothing is ordered or traded after the day of the halt, and the halt stays, whatever
\* the value does.
HaltedForGood ==
    [][halt # NoDay =>
         /\ halt' = halt
         /\ today > halt => pending = {} /\ (phase # "closed" => positions' = positions)]_all

\* A freeze and a halt outlast whatever comes after them: recoveries, splits, orders queued
\* before.
StopsLast == FrozenForGood /\ HaltedForGood

\* A fall of a day's limit in the account's value since the last close, deposits left
\* out, halts, within the rounding of a unit's price, through splits and days without a bar.
LossesHalt ==
    [][phase = "valuing"
         /\ 100 * units.price * Value(Closes) <= (units.price - 1) * (100 - DailyLoss) * worth
         => halt' # NoDay]_all

\* "A top-up never looks like a gain and never hides a loss": valued again right after a
\* deposit, a unit has its price, but for the rounding of the units bought.
DepositsAreNeutral ==
    phase = "deciding" =>
        LET again == Revalued(units, Value(closes)).price
        IN units.price <= again /\ again <= units.price + 1

\* Every dividend earned is paid once, on its day, and its tax charged, whatever became
\* of the shares: sold, split or frozen.
DividendsPaidOnce ==
    LET paid == {e \in earned : e.payDate <= today}
        of(kind, day) == {i \in DOMAIN ledger : ledger[i].kind = kind /\ ledger[i].day = day}
    IN phase \in {"filling", "closed"} =>
         \A day \in 1..today :
            /\ Cash(of("dividend", day)) =
                 SumFunctionOnSet([e \in earned |-> e.gross], {e \in paid : e.payDate = day})
            /\ -Cash(of("tax", day)) =
                 SumFunctionOnSet([e \in earned |-> DividendTax(e.gross)],
                                  {e \in paid : e.payDate = day})

\* What is queued can be carried out. No sale is for more than is held when it fills, though
\* the shares were counted a day before and splits came between: Portfolio would refuse it
\* and stop the run. The buys together fit the cash that has settled, at their last closes
\* and with their fees, and none takes its stock past its limit.
SalesAreCovered ==
    \A o \in pending : o.side = "sell" => o.quantity <= positions[o.stock].quantity

BuysFit ==
    LET buys == {o \in pending : o.side = "buy"}
    IN /\ SumFunctionOnSet([o \in buys |-> Cost(o.quantity, LastClose(o.stock))], buys) <= Spendable
       /\ \A o \in buys : (Worth(o.stock, closes) + o.quantity * LastClose(o.stock)) * 100
                              <= Value(closes) * MaxWeight

OrdersFit ==
    /\ phase = "filling" => SalesAreCovered
    /\ phase = "closed" => BuysFit
=============================================================================
