---------------------------- MODULE YahooSource -----------------------------
(***************************************************************************)
(* steadyhand_idx.yahoo: one stock's bars and dividends read from Yahoo,   *)
(* whose history is divided by every later split, which it reports, and by *)
(* the factor of a rights issue, which it does not.                        *)
(*                                                                         *)
(* A program starts and ends on one day, today, on which Yahoo's answers   *)
(* stay the same. A row has an open and a close; high and low, and the     *)
(* volume, which refuses a day as an unproven price does when it is not    *)
(* whole once its splits are reversed, are left out, and so are the splits *)
(* among the actions, which are answered as Yahoo reports them.            *)
(***************************************************************************)
EXTENDS PriceFactor

CONSTANTS
    MaxDay, MaxReads,
    Calendar,
    Rows,           \* what a day may trade: [prices, volume]
    Splits,         \* the splits of the stock: functions from ex-dates to <<new, old>>
    Rights,         \* its rights issue: [day, by], or one after MaxDay
    Dividends,      \* functions from ex-dates to rupiah a share
    Unit            \* Yahoo's numbers are whole numbers of one in so many rupiah

VARIABLES
    traded, splits, rights, dividends,  \* what really happened, on every day
    today,
    runs,           \* _runs: the runs of the stock's history, once they are read
    told, paid,     \* the bars and the dividends answered so far
    reads

facts == <<traded, splits, rights, dividends>>
yvars == <<facts, today, runs, told, paid, reads>>

Days == 1..MaxDay

ASSUME SourceConstants ==
    /\ CalendarAccepted(Calendar) /\ \A day \in Days : IsCovered(Calendar, day)
    /\ MaxDay \in Nat /\ Unit \in Nat \ {0}
    /\ \A row \in Rows : row.prices \in Seq(Nat \ {0}) \ {<<>>}
    /\ \A r \in Rights : r.day \in Nat

-----------------------------------------------------------------------------
(* Yahoo's numbers for a day, in an answer made on another.                *)

Adjustment(day) ==
    Times(ProductOf(splits, {s \in DOMAIN splits : day < s /\ s <= today}),
          IF day < rights.day /\ rights.day <= today THEN rights.by ELSE <<1, 1>>)
Recorded(amount, day) ==
    LET by == Adjustment(day) IN <<Half(amount * by[2] * Unit, by[1]), Unit>>

-----------------------------------------------------------------------------
(* What the source makes of them.                                          *)

Factor(day) == ProductOf(splits, {s \in DOMAIN splits : day < s /\ s <= today})
ReversedPrices(day) ==
    [i \in DOMAIN traded[day].prices |->
        Times(Recorded(traded[day].prices[i], day), Factor(day))]

\* Within a ten-thousandth of a rupiah.
IsWhole(price) ==
    LET off == price[1] - HalfEven(price[1], price[2]) * price[2]
    IN  off <= price[2] \div 10000 /\ -off <= price[2] \div 10000
AllWhole(prices) == \A price \in Range(prices) : IsWhole(price)

Placeholder(day) == traded[day].volume = 0 /\ Cardinality(Range(traded[day].prices)) = 1

EvidenceOf(days) ==
    LET rows == {day \in days : ~Placeholder(day) /\ ~AllWhole(ReversedPrices(day))}
        order == InOrder(rows)
    IN  [i \in DOMAIN order |-> [day |-> order[i], prices |-> ReversedPrices(order[i])]]

WholeRange(range) ==
    \A day \in range : AllWhole(ReversedPrices(day))
RunsRead_inTheRange(range) ==
    IF WholeRange(range) \/ runs # {} THEN runs
    ELSE {FindRuns(EvidenceOf(range))}
RunsRead(range) ==
    IF WholeRange(range) \/ runs # {} THEN runs
    ELSE {FindRuns(EvidenceOf(GridStart..today))}
RunsFor(range) ==
    IF WholeRange(range) THEN {} ELSE UNION {Range(found) : found \in RunsRead(range)}

Covering(found, day) == {run \in found : run.first <= day /\ day <= run.last}
Proven(found, day) == {run \in Covering(found, day) : run.factor # Unproven}

\* The day's prices in whole rupiah, restored if they must be; <<>> when they cannot be.
Amounts(found, day) ==
    LET prices == ReversedPrices(day)
    IN  IF AllWhole(prices) THEN [i \in DOMAIN prices |-> HalfEven(prices[i][1], prices[i][2])]
        ELSE IF Proven(found, day) = {} THEN <<>>
        ELSE RestorePrices(prices, (CHOOSE run \in Proven(found, day) : TRUE).factor, day)

Payment(found, day) ==
    LET amount == Times(Recorded(dividends[day], day), Factor(day))
    IN  IF Proven(found, day) = {} THEN amount
        ELSE RestoreDividend(amount, (CHOOSE run \in Proven(found, day) : TRUE).factor)

-----------------------------------------------------------------------------
YInit ==
    /\ splits \in Splits /\ rights \in Rights /\ dividends \in Dividends
    /\ traded \in [Days -> Rows]
    /\ \A day \in Days : GridOn(day) # <<>> =>
        \A price \in Range(traded[day].prices) : IsValidPrice(GridOn(day), price)
    /\ today = MaxDay
    /\ runs = {} /\ told = {} /\ paid = {} /\ reads = 0

Read(range) ==
    /\ reads < MaxReads /\ reads' = reads + 1
    /\ runs' = RunsRead(range)
    /\ UNCHANGED <<facts, today>>

\* bars: trading on a holiday, or a price that cannot be restored, refuses the whole range.
ReadBars(range) ==
    LET found == RunsFor(range)
        bars == {[day |-> day, prices |-> Amounts(found, day)] :
                    day \in {day \in range : IsTradingDay(Calendar, day)}}
    IN  /\ Read(range)
        /\ told' = IF \/ \E day \in range : ~IsTradingDay(Calendar, day) /\ ~Placeholder(day)
                      \/ \E bar \in bars : bar.prices = <<>>
                   THEN told ELSE told \cup bars
        /\ UNCHANGED paid

\* corporate_actions: a dividend in an unproven run refuses the range.
CorporateActions(range) ==
    LET found == RunsFor(range)
        due == range \cap DOMAIN dividends
    IN  /\ Read(range)
        /\ paid' = IF \E day \in due, run \in found : run \in Covering(found, day) \ Proven(found, day)
                   THEN paid
                   ELSE paid \cup {[day |-> day, amount |-> Payment(found, day)] : day \in due}
        /\ UNCHANGED told

YNext == \E start, end \in 1..today : start <= end /\ (ReadBars(start..end) \/ CorporateActions(start..end))
YSpec == YInit /\ [][YNext]_yvars

-----------------------------------------------------------------------------
(* Numbers precise enough: what the roundings of Yahoo's numbers and of a  *)
(* refined factor may take off the prices and dividends a stock may have,  *)
(* whatever splits they are read through.                                  *)

Amount == UNION {Range(row.prices) : row \in Rows}
SplitFactors ==
    UNION {{ProductOf(s, {ex \in DOMAIN s : day < ex /\ ex <= MaxDay}) : day \in Days} : s \in Splits}
Seen(amount, split, by) ==
    LET all == Times(split, by) IN Times(<<Half(amount * all[2] * Unit, all[1]), Unit>>, split)
Off(value, amount) ==
    LET off == value[1] - amount * value[2] IN IF off < 0 THEN -off ELSE off

\* Within a fiftieth of a rupiah.
IsPaid(value, amount) ==
    LET off == value[1] - amount * value[2]
    IN  off <= value[2] \div 50 /\ -off <= value[2] \div 50

\* What is read is what it was, when no rights issue came after it.
PreciseWhole ==
    \A split \in SplitFactors :
        /\ \A amount \in Amount : LET value == Seen(amount, split, <<1, 1>>)
                                  IN  IsWhole(value) /\ HalfEven(value[1], value[2]) = amount
        /\ \A d \in Dividends : \A amount \in Range(d) :
            IsPaid(Seen(amount, split, <<1, 1>>), amount)

\* A factor that makes one price read what was traded is tried, and fits every other.
PreciseFits(by) ==
    \A open \in Amount, split \in SplitFactors :
        LET value == Seen(open, split, by)
        IN  /\ value \in (Nat \ {0}) \X (Nat \ {0})
            /\ open >= Max({Half(value[1], value[2]), 1})
            /\ open <= 2 * (value[1] \div value[2] + 1)
            /\ 50 * open * value[2] < 100 * value[1] + value[2]
            /\ \A other \in Amount, splitToo \in SplitFactors :
                LET restored == Times(Seen(other, splitToo, by), <<open * value[2], value[1]>>)
                IN  Off(restored, other) <= restored[2] \div 100

\* So does any factor between two refined ones.
Refined(amount, value) == Half(amount * value[2] * FactorUnit, value[1])
RefinedFactors(by) ==
    UNION {{Refined(amount, Seen(amount, split, by)) : amount \in Amount} : split \in SplitFactors}
PreciseRefined(by) ==
    \A low, high \in RefinedFactors(by) :
        \A factor \in low..high, split \in SplitFactors :
            /\ \A amount \in Amount :
                LET restored == Times(Seen(amount, split, by), <<factor, FactorUnit>>)
                IN  2 * Off(restored, amount) < restored[2]
            /\ \A d \in Dividends : \A amount \in Range(d) :
                IsPaid(RestoreDividend(Seen(amount, split, by), <<factor, FactorUnit>>), amount)

PreciseNumbers ==
    PreciseWhole /\ \A r \in Rights : PreciseFits(r.by) /\ PreciseRefined(r.by)

-----------------------------------------------------------------------------
\* The rights issue left the prices of the day whole, so that nothing shows it.
ScaledToWhole(day) ==
    day < rights.day /\ rights.day <= today /\ AllWhole(ReversedPrices(day))

\* Every bar the source answers holds the prices the stock traded at on its day,
\* whichever range is asked for, however often and however late: the splits are reversed
\* and the rights issue is undone or the day is refused (unadjust, find_runs,
\* YahooDataSource._runs_for).
ReadAsTraded ==
    \A bar \in told : bar.prices = traded[bar.day].prices \/ ScaledToWhole(bar.day)

\* Every dividend the source answers is what was paid, unless its day shows nothing of the
\* rights issue, or lies outside the days whose grid is known, or no bar of it traded
\* (actions_in).
DividendsAsPaid ==
    \A payment \in paid :
        \/ IsPaid(payment.amount, dividends[payment.day])
        \/ ScaledToWhole(payment.day) \/ payment.day < GridStart \/ Placeholder(payment.day)
=============================================================================
