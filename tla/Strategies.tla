----------------------------- MODULE Strategies -----------------------------
(***************************************************************************)
(* The strategies (steadyhand/strategies, view.py): what each wants to     *)
(* hold on a day, from what it may see and what it remembers.              *)
(*                                                                         *)
(* A strategy is asked every day, and remembers only what it returned the  *)
(* day before. What it sees is up to the day: any portfolio and any        *)
(* buyable stocks; the history of dividends and splits is fixed. Stocks    *)
(* are numbers, in the order of their symbols. A share or a weight is a    *)
(* decimal <<m, e>> for m / 10^e with at most Digits digits, where the     *)
(* program keeps 28. Restated dividends, their sums and yields are exact   *)
(* fractions, where the program divides once and rounds to 28 digits: the  *)
(* two compare alike but for sums that are equal only as fractions, as     *)
(* three thirds and one are.                                               *)
(***************************************************************************)
EXTENDS MarketRules

CONSTANTS
    Stocks, Digits,
    Calendar, MonthLength, FirstDay, LastDay,
    Instalments,                            \* of monthly-savings
    MinStocks, MaxStocks, GrowthYears,      \* of dividend-growth
    TrailingDays, PayLag,
    Portfolios,     \* what may be held: [cash, unsettled, held], the cash to spend first
    Tradables,      \* what may be traded: [members, buyable]
    Histories       \* what may have happened: [dividends, splits, incomplete, close]

ASSUME StrategiesConstants ==
    /\ CalendarAccepted(Calendar) /\ YearLength % MonthLength = 0
    /\ IsFiniteSet(Stocks) /\ Stocks \subseteq Nat /\ FirstDay \in Int /\ Digits \in Nat \ {0} /\ Instalments \in Nat \ {0}
    /\ MinStocks \in Nat \ {0} /\ MaxStocks \in Nat /\ MinStocks <= MaxStocks /\ GrowthYears \in Nat \ {0}
    /\ \A p \in Portfolios :
        /\ p.cash \in Nat /\ p.unsettled \in Nat
        /\ DOMAIN p.held \subseteq Stocks /\ p.held \in [DOMAIN p.held -> Nat]
    /\ \A tradable \in Tradables :
        tradable.buyable \subseteq tradable.members /\ tradable.members \subseteq Stocks
    /\ \A events \in Histories, stock \in Stocks :
        /\ \A known \in {events.dividends[stock], events.splits[stock]} :
                IsFiniteSet(DOMAIN known) /\ DOMAIN known \subseteq Nat
        /\ \A day \in DOMAIN events.dividends[stock] : events.dividends[stock][day] \in Nat
        /\ \A day \in DOMAIN events.splits[stock] :
                events.splits[stock][day] \in (Nat \ {0}) \X (Nat \ {0})
        /\ events.close[stock] \in Nat

VARIABLES
    strategy, history,
    today,
    portfolio, tradable,    \* what the strategy last saw
    memory,                 \* and what it answered
    weights

svars == <<strategy, history, today, portfolio, tradable, memory, weights>>

Month(day) == day \div MonthLength

-----------------------------------------------------------------------------
(* Decimals.                                                               *)

Zero == <<0, 0>>
Tens[n \in 0..Digits + 4] == IF n = 0 THEN 1 ELSE 10 * Tens[n - 1]
Grown(a, e) == a[1] * Tens[e - a[2]]
AtMost(a, b) == LET e == Max({a[2], b[2]}) IN Grown(a, e) <= Grown(b, e)

\* Rounded half to even, to as many digits as are kept.
Kept(m, e) ==
    LET drop == Min({k \in 0..4 : m \div Tens[k] < Tens[Digits]})
    IN  <<HalfEven(m, Tens[drop]), e - drop>>
Plus(a, b) == LET e == Max({a[2], b[2]}) IN Kept(Grown(a, e) + Grown(b, e), e)
Minus(a, b) == LET e == Max({a[2], b[2]}) IN Kept(Grown(a, e) - Grown(b, e), e)

RatioDown(part, whole) ==
    IF whole = 0 THEN Zero
    ELSE LET e == Max({e \in 0..Digits + 2 : (part * Tens[e]) \div whole < Tens[Digits]})
         IN  <<(part * Tens[e]) \div whole, e>>
RupiahUp(weight, value) == CeilDiv(weight[1] * value, Tens[weight[2]])

-----------------------------------------------------------------------------
(* What a strategy sees.                                                   *)

Held(p, stock) == IF stock \in DOMAIN p.held THEN p.held[stock] ELSE 0
Value(p) == p.cash + p.unsettled + SumFunction(p.held)
Weight(p, stock) == RatioDown(Held(p, stock), Value(p))

\* A dividend a share, in the shares of a later day: a fraction. It is earned on the
\* shares held before the splits of its own day.
Restated_afterItsDay(stock, day, on) ==
    LET splits == history.splits[stock]
    IN  Times(<<history.dividends[stock][day], 1>>,
              ProductOf([s \in DOMAIN splits |-> <<splits[s][2], splits[s][1]>>],
                        {s \in DOMAIN splits : day < s /\ s <= on}))
Restated(stock, day, on) ==
    LET splits == history.splits[stock]
    IN  Times(<<history.dividends[stock][day], 1>>,
              ProductOf([s \in DOMAIN splits |-> <<splits[s][2], splits[s][1]>>],
                        {s \in DOMAIN splits : day <= s /\ s <= on}))
PaidOver(stock, days, on) ==
    FoldFunction(Added, <<0, 1>>,
                 [day \in days \cap DOMAIN history.dividends[stock] |-> Restated(stock, day, on)])

-----------------------------------------------------------------------------
(* buy-and-hold: the stocks buyable on its first day share the cash.       *)

Remembers(key) == key \in DOMAIN memory

HeldWeights(p) == [stock \in DOMAIN p.held |-> Weight(p, stock)]

\* Each stock bought gets the same part of the cash on top of what is held.
Shared(p, buying, cash) ==
    LET each == RatioDown(cash \div Cardinality(buying), Value(p))
    IN  [stock \in DOMAIN p.held \cup buying |->
            IF stock \in buying THEN Plus(Weight(p, stock), each) ELSE Weight(p, stock)]

BuyAndHold(p, t) ==
    LET chosen == IF Remembers("set") THEN memory.set ELSE t.buyable
        buying == chosen \cap t.buyable
    IN  [weights |-> IF buying = {} THEN HeldWeights(p) ELSE Shared(p, buying, p.cash),
         memory |-> [set |-> chosen]]

-----------------------------------------------------------------------------
(* monthly-savings: the first day's cash in instalments, one a month, in   *)
(* the months in which a stock can be bought.                              *)

Reserve(due, instalment) == IF due > 0 THEN (due - 1) * instalment ELSE 0

MonthlySavings(p, t, day) ==
    LET instalment == IF Remembers("instalment") THEN memory.instalment ELSE p.cash \div Instalments
        due == IF Remembers("due") THEN memory.due ELSE Instalments
        bought == IF Remembers("month") THEN memory.month ELSE {}
        spent == Max({p.cash - Reserve(due, instalment), 0})
    IN  IF t.buyable = {} \/ bought = {Month(day)}
        THEN [weights |-> HeldWeights(p),
              memory |-> [instalment |-> instalment, due |-> due, month |-> bought]]
        ELSE [weights |-> Shared(p, t.buyable, spent),
              memory |-> [instalment |-> instalment, due |-> Max({due - 1, 0}),
                          month |-> {Month(day)}]]

-----------------------------------------------------------------------------
(* top_up: new cash shared by water-filling, up to a target weight.        *)

FillsBefore_bySymbol(room, a, b) == a < b
FillsBefore(room, a, b) == AtMost(room[a], room[b]) /\ (AtMost(room[b], room[a]) => a < b)

Room(p, buying, target) ==
    [stock \in buying |->
        IF AtMost(target, Weight(p, stock)) THEN Zero ELSE Minus(target, Weight(p, stock))]

\* The stock with the least room of those left is offered its part of what is unspent.
Filled(p, room, to, left) ==
    LET others == DOMAIN room \ DOMAIN to.weights
        stock == CHOOSE a \in others : \A b \in others \ {a} : FillsBefore(room, a, b)
        offered == to.unspent \div left
        share == RatioDown(offered, Value(p))
        fits == AtMost(share, room[stock])
    IN  [unspent |-> to.unspent - (IF fits THEN offered ELSE RupiahUp(room[stock], Value(p))),
         weights |-> [s \in DOMAIN to.weights \cup {stock} |->
            IF s = stock THEN Plus(Weight(p, stock), IF fits THEN share ELSE room[stock])
            ELSE to.weights[s]]]

TopUp(p, buying, target) ==
    LET room == Room(p, buying, target)
        count == Cardinality(buying)
        to[i \in 0..count] ==
            IF i = 0 THEN [unspent |-> p.cash, weights |-> [stock \in {} |-> Zero]]
            ELSE Filled(p, room, to[i - 1], count + 1 - i)
    IN  to[count].weights

-----------------------------------------------------------------------------
(* dividend-growth: once a year, the stocks whose dividends were paid      *)
(* every year and grew; new cash goes to them in between.                  *)

Passes(stock, t, day) ==
    LET first == YearOf(day) - GrowthYears - 1
        total(year) == PaidOver(stock, DaysOfYear(year), day)
    IN  /\ stock \in t.members /\ stock \notin history.incomplete
        /\ \A year \in first..YearOf(day) - 1 : total(year)[1] > 0
        /\ NotBelow(total(YearOf(day) - 1), total(first))

\* A stock without a close yields nothing.
TrailingYield(stock, day) ==
    IF history.close[stock] = 0 THEN <<0, 1>>
    ELSE Times(PaidOver(stock, {d \in 0..day : d > day - TrailingDays}, day),
               <<1, history.close[stock]>>)

\* Picked one at a time: the one with the least crowded month it pays in.
Spread(candidates, day) ==
    LET months == [stock \in candidates |->
            {Month(AddTradingDays(Calendar, d, PayLag)) % (YearLength \div MonthLength) :
                d \in DOMAIN history.dividends[stock] \cap DaysOfYear(YearOf(day) - 1)}]
        crowding(picked, stock) ==
            Min({Cardinality({other \in picked : month \in months[other]}) : month \in months[stock]})
        better(picked, a, b) ==
            \/ crowding(picked, a) < crowding(picked, b)
            \/ /\ crowding(picked, a) = crowding(picked, b)
               /\ \/ ~NotBelow(TrailingYield(b, day), TrailingYield(a, day))
                  \/ NotBelow(TrailingYield(b, day), TrailingYield(a, day))
                     /\ NotBelow(TrailingYield(a, day), TrailingYield(b, day)) /\ a < b
        next == [picked \in SUBSET candidates |->
            CHOOSE a \in candidates \ picked :
                \A b \in candidates \ (picked \cup {a}) : better(picked, a, b)]
        picks[i \in 0..MaxStocks] ==
            IF i = 0 THEN {} ELSE picks[i - 1] \cup {next[picks[i - 1]]}
    IN  picks[MaxStocks]

Target(picked) == RatioDown(1, Max({MinStocks, Cardinality(picked)}))

Review(p, t, day) ==
    LET candidates == {stock \in t.buyable \cup DOMAIN p.held : Passes(stock, t, day)}
        picked == IF Cardinality(candidates) <= MaxStocks THEN candidates ELSE Spread(candidates, day)
    IN  [weights |-> [stock \in picked |-> Target(picked)],
         memory |-> [set |-> picked, year |-> YearOf(day)]]

Between(p, t) ==
    LET topped == TopUp(p, memory.set \cap t.buyable, Target(memory.set))
    IN  [weights |-> [stock \in DOMAIN p.held \cup DOMAIN topped |->
            IF stock \in DOMAIN topped THEN topped[stock] ELSE Weight(p, stock)],
         memory |-> memory]

DividendGrowth(p, t, day) ==
    IF Remembers("year") /\ memory.year = YearOf(day) THEN Between(p, t) ELSE Review(p, t, day)

-----------------------------------------------------------------------------
SInit ==
    /\ strategy = "none" /\ history = <<>> /\ today = FirstDay
    /\ portfolio = <<>> /\ tradable = <<>> /\ memory = <<>> /\ weights = <<>>

Begin(name, events) ==
    /\ strategy = "none" /\ strategy' = name /\ history' = events
    /\ UNCHANGED <<today, portfolio, tradable, memory, weights>>

Decide(p, t) ==
    LET Answered(decision) == memory' = decision.memory /\ weights' = decision.weights
    IN  /\ portfolio = <<>> /\ IsTradingDay(Calendar, today)
        /\ portfolio' = p /\ tradable' = t
        /\ \/ strategy = "buy-and-hold" /\ Answered(BuyAndHold(p, t))
           \/ strategy = "monthly-savings" /\ Answered(MonthlySavings(p, t, today))
           \/ strategy = "dividend-growth" /\ Answered(DividendGrowth(p, t, today))
        /\ UNCHANGED <<strategy, history, today>>

\* The strategy is not asked on a day on which ordering is halted.
NextDay ==
    /\ strategy # "none" /\ today < LastDay /\ today' = today + 1
    /\ portfolio' = <<>> /\ tradable' = <<>> /\ weights' = <<>>
    /\ UNCHANGED <<strategy, history, memory>>

SNext ==
    \/ \E name \in {"buy-and-hold", "monthly-savings", "dividend-growth"}, events \in Histories :
            Begin(name, events)
    \/ \E p \in Portfolios, t \in Tradables : Decide(p, t)
    \/ NextDay

SSpec == SInit /\ [][SNext]_svars

-----------------------------------------------------------------------------
\* What the weights sum to, as Decision adds them up.
Total(given) ==
    FoldLeft(LAMBDA sum, stock : Plus(sum, given[stock]), Zero, InOrder(DOMAIN given))

\* The rupiah the weights put on top of what is held, as a fraction.
Spent(p, given) ==
    LET e == Digits + 2
    IN  <<Value(p) * SumFunction([stock \in DOMAIN given |->
                        Grown(given[stock], e) - Grown(Weight(p, stock), e)]), Tens[e]>>

\* All of an amount but for a rupiah a stock at most, and not a rupiah more.
AllOf(amount, spent, stocks) ==
    NotBelow(spent, <<amount - stocks, 1>>) /\ ~NotBelow(spent, <<amount + 1, 1>>)

\* The weight falls short of another by less than a rupiah.
Reaches(p, weight, target) ==
    LET e == Digits + 2 IN Value(p) * (Grown(target, e) - Grown(weight, e)) < Tens[e]

\* What monthly-savings remembers tells that it has bought in a month.
BoughtIn(memo, month) == memo # <<>> /\ memo.month = {month}

\* The cash is spent once and only what may be: monthly-savings buys on the first day of a
\* month on which it can and on no other, instalments due or not, and keeps what those still
\* due need; dividend-growth leaves cash idle only where every stock it may buy is at its
\* target, however the roundings of the stocks before fall (top_up, decide).
CashFits(p, t, day, before, after, given) ==
    LET spent == Spent(p, given)
        stocks == Cardinality(Stocks)
    IN  \/ /\ strategy = "buy-and-hold"
           /\ AllOf(IF after.set \cap t.buyable = {} THEN 0 ELSE p.cash, spent, stocks)
        \/ /\ strategy = "monthly-savings"
           /\ IF t.buyable = {} \/ BoughtIn(before, Month(day))
              THEN /\ after.due = (IF before = <<>> THEN Instalments ELSE before.due)
                   /\ AllOf(0, spent, 0) /\ (BoughtIn(after, Month(day)) <=> BoughtIn(before, Month(day)))
              ELSE /\ AllOf(Max({p.cash - after.due * after.instalment, 0}), spent, stocks)
                   /\ BoughtIn(after, Month(day))
        \/ /\ strategy = "dividend-growth"
           /\ \/ after # before
              \/ AllOf(p.cash, spent, stocks)
              \/ /\ ~NotBelow(spent, <<p.cash + 1, 1>>)
                 /\ \A stock \in after.set \cap t.buyable :
                        Reaches(p, given[stock], Target(after.set))
DecisionsFit ==
    [][(portfolio = <<>> /\ portfolio' # <<>>) =>
        CashFits(portfolio', tradable', today, memory, memory', weights')]_svars

\* Shares of a value with so many digits are exact to a part of a rupiah.
PreciseShares ==
    \A p \in Portfolios : 15 * Cardinality(Stocks) * Value(p) < Tens[Digits]

\* A holder of some shares who never trades, from the first day: what each year's dividends
\* pay him, the splits of a day after its dividend.
HolderPaid(stock, shares, year) ==
    LET splits == history.splits[stock]
        held(day) == Times(<<shares, 1>>, ProductOf(splits, {s \in DOMAIN splits : s < day}))
    IN  FoldFunction(Added, <<0, 1>>,
                     [day \in DaysOfYear(year) \cap DOMAIN history.dividends[stock] |->
                         Times(<<history.dividends[stock][day], 1>>, held(day))])

\* dividend-growth picks no more stocks than it may, and only those whose dividends were paid
\* in every year it looks at and were in the last no lower than in the first, to a holder who
\* kept his shares through every split (passes, ActionHistory.dividends).
PickedDividendsGrew ==
    (strategy = "dividend-growth" /\ memory # <<>>) =>
        /\ Cardinality(memory.set) <= MaxStocks
        /\ \A stock \in memory.set :
            LET first == memory.year - GrowthYears - 1
                paid(year) == HolderPaid(stock, 1, year)
            IN  /\ \A year \in first..memory.year - 1 : paid(year)[1] > 0
                /\ NotBelow(paid(memory.year - 1), paid(first))

\* Weights rounded down never sum above 1 (_ratio.py), which Decision refuses.
WeightsFit == AtMost(Total(weights), <<1, 0>>)
=============================================================================
