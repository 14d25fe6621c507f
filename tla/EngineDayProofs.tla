-------------------------- MODULE EngineDayProofs --------------------------
(***************************************************************************)
(* Theorems about Portfolio, EngineDay, Snapshot and Results, for any      *)
(* stocks, prices, actions, limits and days.                               *)
(*                                                                         *)
(* First the portfolio's operations. The types, OpenSettlesLater and       *)
(* BalanceIsSum are inductive together: a booking looks only at the        *)
(* movements already open, which is enough because it is never dated       *)
(* before the last one, so what has settled stays settled. What the cash   *)
(* is on a day follows, and how a booking changes it.                      *)
(*                                                                         *)
(* Then whole days: a freeze and a halt are for good, a deposit never      *)
(* lowers the price of a unit, and a day of orders, fills, dividends and   *)
(* charges never overdraws the account, misses a lot, orders what it       *)
(* cannot carry out or loses a dividend.                                   *)
(*                                                                         *)
(* The last four rest on one invariant, DayInv. On every day to come no    *)
(* less is settled than the tax still owed, and while orders fill the      *)
(* day's charge is held back: from the cash free today once something was  *)
(* bought, from that and the proceeds of the day's sales before. It needs  *)
(* every sell to be tried before the first buy, and a sale to settle after *)
(* its day.                                                                *)
(*                                                                         *)
(* Then what a day leaves to the next: the state a paper account saves is  *)
(* accepted when it is read back and is what it was; the price of a unit   *)
(* is not moved by a deposit, and a day's loss halts, as far as a price    *)
(* has room to be rounded in. These rest on LeftInv beside DayInv: the     *)
(* ledger is in the order of its days, whatever is held has a close, and   *)
(* the price of a unit is the account's worth for a unit, rounded down.    *)
(*                                                                         *)
(* Last what a run reports, which is what its ledger holds. The reports    *)
(* are added up apart from the ledger, so the invariant sets the two side  *)
(* by side day by day: what was booked on a day is what its report says    *)
(* was traded, charged and paid, and on the day under way what is noted so *)
(* far (AllBooked). Sums over days follow, whatever the days are: the last *)
(* year, a month or the whole run. The drawdown is found in one pass; that *)
(* it is the deepest of all falls is an induction on the reports it has    *)
(* seen.                                                                   *)
(***************************************************************************)
EXTENDS Snapshot, Results, SumProofs

\* The cost a partial sale releases, rounded up, is not negative and leaves none
\* of the cost negative; the rest is at most the kept shares' part of the whole.
LEMMA ReleasedBounds ==
    ASSUME NEW b \in Nat, NEW h \in Nat, NEW q \in Nat, 0 < q, q < h
    PROVE  LET released == Released([quantity |-> h, basis |-> b], q)
           IN /\ released \in Nat
              /\ released <= b
              /\ (b - released) * h <= b * (h - q)
  <1> DEFINE k == (-b * q) \div h
  <1>1. -b * q \in Int /\ k \in Int
    OBVIOUS
  <1>2. h * k <= -b * q /\ -b * q < h * k + h
    BY <1>1
  <1> QED
    BY <1>1, <1>2 DEF Released

\* A snapshot's open movements, filtered anew at each booking from those open
\* before, are all the movements of the ledger that settle after its last day.
OpenSettlesLater == open = {i \in DOMAIN ledger : ledger[i].settles > LastDay}

\* The cached balance is the sum of every movement.
BalanceIsSum == balance = Cash(DOMAIN ledger)

\* The inductive invariant: the types, and what the cached sum and open movements are.
Consistent == PortfolioTypeOK /\ OpenSettlesLater /\ BalanceIsSum

-----------------------------------------------------------------------------
(* The cash of a day.                                                      *)

\* The cash that has settled by a day, and what of it no later debit needs, as the whole
\* ledger has them.
Settled(d) == Cash({i \in DOMAIN ledger : ledger[i].settles <= d})
Free(d) == Cash({i \in DOMAIN ledger : Credit(i) => ledger[i].settles <= d})

\* A ledger has finitely many places, each with an amount.
LEMMA LedgerPlaces ==
    ASSUME PortfolioTypeOK
    PROVE  /\ IsFiniteSet(DOMAIN ledger)
           /\ \A i \in DOMAIN ledger : /\ Amounts[i] = ledger[i].amount
                                       /\ Amounts[i] \in Int
                                       /\ ledger[i].settles \in Int
  <1>1. Len(ledger) \in Nat /\ DOMAIN ledger = 1..Len(ledger)
    BY DEF PortfolioTypeOK
  <1>2. IsFiniteSet(DOMAIN ledger)
    BY <1>1, FS_Interval
  <1>3. \A i \in DOMAIN ledger : ledger[i] \in CashMovement
    BY DEF PortfolioTypeOK
  <1>4. \A i \in DOMAIN ledger : ledger[i].amount \in Int /\ ledger[i].settles \in Int
    BY <1>3, PortfolioConstants DEF CashMovement, Days
  <1> QED
    BY <1>2, <1>4 DEF Amounts

\* The cash moved at any places of the ledger is a number.
LEMMA CashInt ==
    ASSUME PortfolioTypeOK, NEW places \in SUBSET DOMAIN ledger
    PROVE  Cash(places) \in Int
  <1>1. IsFiniteSet(places)
    BY LedgerPlaces, FS_Subset
  <1>2. \A i \in places : Amounts[i] \in Int
    BY LedgerPlaces
  <1> QED
    BY <1>1, <1>2, SumInt DEF Cash

\* What is read from the balance and the open movements is what the ledger says, on any day.
LEMMA CashRead ==
    ASSUME Consistent, NEW d \in Int
    PROVE  /\ SettledCash(d) = Settled(d) /\ Settled(d) \in Int
           /\ SpendableCash(d) = Free(d) /\ Free(d) \in Int
  <1> DEFINE whole == DOMAIN ledger
             later == {i \in whole : ledger[i].settles > d}
             laterCredits == {i \in whole : ledger[i].settles > d /\ Credit(i)}
  <1>1. PortfolioTypeOK /\ OpenSettlesLater /\ balance = Cash(whole) /\ open \subseteq whole
    BY DEF Consistent, BalanceIsSum, PortfolioTypeOK
  <1>2. LastDay \in Int
    <2>1. CASE ledger = <<>>
      BY <2>1 DEF LastDay, NoDay
    <2>2. CASE ledger # <<>>
      <3>1. ledger[Len(ledger)] \in CashMovement
        BY <1>1, <2>2 DEF PortfolioTypeOK
      <3> QED
        BY <2>2, <3>1, PortfolioConstants DEF LastDay, CashMovement, Days
    <2> QED
      BY <2>1, <2>2
  <1>3. \A i \in whole : ledger[i].settles \in Int
    BY <1>1, LedgerPlaces
  <1>4. {i \in Pool(d) : ledger[i].settles > d} = later
    BY <1>1, <1>2, <1>3 DEF Pool, OpenSettlesLater
  <1>5. {i \in Pool(d) : ledger[i].settles > d /\ Credit(i)} = laterCredits
    BY <1>1, <1>2, <1>3 DEF Pool, OpenSettlesLater
  <1>6. {i \in whole : ledger[i].settles <= d} = whole \ later
    BY <1>3
  <1>7. {i \in whole : Credit(i) => ledger[i].settles <= d} = whole \ laterCredits
    BY <1>3
  <1>8. ASSUME NEW part \in SUBSET whole
        PROVE  Cash(whole) - Cash(part) = Cash(whole \ part) /\ Cash(whole \ part) \in Int
    <2>1. Cash(whole) = Cash(part) + Cash(whole \ part)
      BY <1>1, LedgerPlaces, SumSplit DEF Cash
    <2>2. Cash(whole) \in Int /\ Cash(part) \in Int /\ Cash(whole \ part) \in Int
      BY <1>1, CashInt
    <2> QED
      BY <2>1, <2>2
  <1>9. later \in SUBSET whole /\ laterCredits \in SUBSET whole
    OBVIOUS
  <1> HIDE DEF later, laterCredits
  <1>10. SettledCash(d) = Cash(whole \ later)
    BY <1>1, <1>4, <1>8, <1>9 DEF SettledCash
  <1>11. SpendableCash(d) = Cash(whole \ laterCredits)
    BY <1>1, <1>5, <1>8, <1>9 DEF SpendableCash
  <1> QED
    BY <1>6, <1>7, <1>8, <1>9, <1>10, <1>11 DEF Settled, Free

\* What stays of the ledger keeps its sums, and a movement more adds its amount to them.
LEMMA AppendSums ==
    ASSUME PortfolioTypeOK, NEW m, m.amount \in Int, ledger' = Append(ledger, m),
           NEW part \in SUBSET DOMAIN ledger
    PROVE  /\ SumFunctionOnSet(Amounts', part) = Cash(part)
           /\ SumFunctionOnSet(Amounts', part \union {Len(ledger) + 1}) = m.amount + Cash(part)
  <1> DEFINE n == Len(ledger)
  <1>1. n \in Nat /\ DOMAIN ledger = 1..n /\ DOMAIN ledger' = 1..n + 1
    BY DEF PortfolioTypeOK
  <1>2. /\ \A i \in 1..n : ledger'[i] = ledger[i]
        /\ ledger'[n + 1] = m
    BY <1>1 DEF PortfolioTypeOK
  <1>3. IsFiniteSet(part) /\ \A i \in part : Amounts[i] \in Int /\ Amounts[i] = Amounts'[i]
    <2>1. IsFiniteSet(part)
      BY LedgerPlaces, FS_Subset
    <2>2. \A i \in DOMAIN ledger : Amounts[i] \in Int /\ Amounts[i] = Amounts'[i]
      BY <1>1, <1>2, LedgerPlaces DEF Amounts
    <2> QED
      BY <2>1, <2>2
  <1>4. Amounts'[n + 1] = m.amount
    BY <1>1, <1>2 DEF Amounts
  <1>5. SumFunctionOnSet(Amounts', part) = Cash(part)
    BY <1>3, SumSame DEF Cash
  <1>6. n + 1 \notin part /\ \A i \in part \union {n + 1} : Amounts'[i] \in Int
    BY <1>1, <1>3, <1>4
  <1>7. SumFunctionOnSet(Amounts', part \union {n + 1}) = m.amount + SumFunctionOnSet(Amounts', part)
    BY <1>3, <1>4, <1>6, SumAdd
  <1> QED
    BY <1>5, <1>7

\* A booking of a movement of its type keeps the types of the cash, and the open
\* movements remain all those that settle later.
LEMMA Booked ==
    ASSUME Consistent, NEW kind \in Kind, NEW amount \in Int, NEW on \in Days,
           NEW settles \in Days \union 1..MaxDay + Lag, Book(kind, amount, on, settles)
    PROVE  /\ ledger' \in Seq(CashMovement) /\ balance' \in Int /\ open' \subseteq DOMAIN ledger'
           /\ OpenSettlesLater' /\ BalanceIsSum'
           /\ ledger'[Len(ledger')].kind = kind /\ Len(ledger') = Len(ledger) + 1
  <1> DEFINE m == [day |-> on, kind |-> kind, amount |-> amount, settles |-> settles]
             n == Len(ledger)
  <1>1. m \in CashMovement /\ m.settles = settles /\ m.day = on /\ m.amount = amount
    BY DEF Book, CashMovement
  <1>2. ledger \in Seq(CashMovement) /\ n \in Nat /\ DOMAIN ledger = 1..n
    BY DEF Consistent, PortfolioTypeOK
  <1>3. ledger' = Append(ledger, m) /\ open' = StillOpen(m) /\ balance' = Balance(m)
    BY DEF Book
  <1> HIDE DEF m
  <1>4. /\ ledger' \in Seq(CashMovement) /\ Len(ledger') = n + 1 /\ DOMAIN ledger' = 1..n + 1
        /\ \A i \in 1..n : ledger'[i] = ledger[i]
        /\ ledger'[n + 1] = m
    BY <1>1, <1>2, <1>3
  <1>5. balance' \in Int
    BY <1>1, <1>3 DEF Balance, Consistent, PortfolioTypeOK
  <1>6. open' \subseteq DOMAIN ledger'
    BY <1>2, <1>3, <1>4 DEF StillOpen, Consistent, PortfolioTypeOK
  <1>7. LastDay' = on
    BY <1>1, <1>2, <1>4 DEF LastDay
  <1>8. \A i \in 1..n : ledger[i].settles > on => i \in open
    <2>1. LastDay \in Nat /\ LastDay <= on
      BY <1>2 DEF Book, NotBeforeLast, LastDay, NoDay, Days, CashMovement
    <2>2. \A i \in 1..n : ledger[i].settles \in Nat
      BY <1>2, PortfolioConstants DEF CashMovement, Days
    <2> QED
      BY <1>2, <2>1, <2>2 DEF Consistent, OpenSettlesLater, Days
  <1>9. OpenSettlesLater'
    BY <1>1, <1>2, <1>3, <1>4, <1>7, <1>8 DEF OpenSettlesLater, StillOpen, Consistent, PortfolioTypeOK
  <1>10. m.kind = kind
    BY DEF m
  <1>11. BalanceIsSum'
    <2>1. SumFunctionOnSet(Amounts', (1..n) \union {n + 1}) = m.amount + Cash(1..n)
      BY <1>1, <1>2, <1>3, AppendSums DEF Consistent
    <2>2. (1..n) \union {n + 1} = DOMAIN ledger'
      BY <1>2, <1>4
    <2>3. balance = Cash(1..n) /\ balance \in Int
      BY <1>2 DEF Consistent, BalanceIsSum, PortfolioTypeOK
    <2>4. balance' = m.amount + Cash(1..n)
      BY <1>1, <1>3, <2>3 DEF Balance
    <2> QED
      BY <2>1, <2>2, <2>4 DEF BalanceIsSum, Cash
  <1> QED
    BY <1>4, <1>5, <1>6, <1>9, <1>10, <1>11

\* How a booking changes the cash of a day: a debit is missed at once, a credit is there from
\* the day it settles.
LEMMA Moves ==
    ASSUME Consistent, NEW kind \in Kind, NEW amount \in Int, NEW on \in Days,
           NEW settles \in Days \union 1..MaxDay + Lag, Book(kind, amount, on, settles), NEW d \in Int
    PROVE  /\ Settled(d)' = IF settles <= d THEN amount + Settled(d) ELSE Settled(d)
           /\ Free(d)' = IF amount >= 0 /\ settles > d THEN Free(d) ELSE amount + Free(d)
  <1> DEFINE m == [day |-> on, kind |-> kind, amount |-> amount, settles |-> settles]
             n == Len(ledger)
             settled == {i \in DOMAIN ledger : ledger[i].settles <= d}
             free == {i \in DOMAIN ledger : Credit(i) => ledger[i].settles <= d}
  <1>1. ledger' = Append(ledger, m) /\ m.amount = amount /\ m.settles = settles
    BY DEF Book
  <1>2. PortfolioTypeOK /\ n \in Nat /\ DOMAIN ledger = 1..n
    BY DEF Consistent, PortfolioTypeOK
  <1> HIDE DEF m
  <1>3. /\ DOMAIN ledger' = 1..n + 1 /\ n + 1 \notin 1..n
        /\ \A i \in 1..n : ledger'[i] = ledger[i]
        /\ ledger'[n + 1] = m
    BY <1>1, <1>2 DEF PortfolioTypeOK
  <1>4. \A i \in 1..n : ledger[i].settles \in Int /\ ledger[i].amount \in Int
    BY <1>2, LedgerPlaces
  <1>5. settles \in Int
    BY PortfolioConstants DEF Days
  <1>6. {i \in DOMAIN ledger' : ledger'[i].settles <= d}
          = IF settles <= d THEN settled \union {n + 1} ELSE settled
    BY <1>1, <1>2, <1>3
  <1>7. {i \in DOMAIN ledger' : ledger'[i].amount >= 0 => ledger'[i].settles <= d}
          = IF amount >= 0 /\ settles > d THEN free ELSE free \union {n + 1}
    <2>1. \A i \in 1..n : Credit(i) <=> ledger'[i].amount >= 0
      BY <1>3 DEF Credit
    <2> QED
      BY <1>1, <1>2, <1>3, <1>5, <2>1
  <1>8. settled \in SUBSET DOMAIN ledger /\ free \in SUBSET DOMAIN ledger
    OBVIOUS
  <1>9. Settled(d)' = SumFunctionOnSet(Amounts', IF settles <= d THEN settled \union {n + 1} ELSE settled)
    BY <1>6 DEF Settled, Cash
  <1>10. Free(d)' = SumFunctionOnSet(Amounts', IF amount >= 0 /\ settles > d THEN free
                                               ELSE free \union {n + 1})
    BY <1>7 DEF Free, Cash, Credit
  <1> HIDE DEF settled, free
  <1>11. ASSUME NEW part \in SUBSET DOMAIN ledger
         PROVE  /\ SumFunctionOnSet(Amounts', part) = Cash(part)
                /\ SumFunctionOnSet(Amounts', part \union {n + 1}) = amount + Cash(part)
    BY <1>1, <1>2, AppendSums
  <1>12. Settled(d) = Cash(settled) /\ Free(d) = Cash(free)
    BY DEF Settled, Free, settled, free
  <1> QED
    BY <1>8, <1>9, <1>10, <1>11, <1>12

\* What is free on a day is settled on every later one.
LEMMA FreeIsSettled ==
    ASSUME Consistent, NEW c \in Int, NEW d \in Int, c <= d
    PROVE  Free(c) <= Settled(d)
  <1> DEFINE free == {i \in DOMAIN ledger : Credit(i) => ledger[i].settles <= c}
             settled == {i \in DOMAIN ledger : ledger[i].settles <= d}
             both == free \intersect settled
             zero == [i \in DOMAIN ledger |-> 0]
  <1>1. /\ PortfolioTypeOK /\ IsFiniteSet(DOMAIN ledger)
        /\ \A i \in DOMAIN ledger : /\ Amounts[i] = ledger[i].amount
                                    /\ Amounts[i] \in Int
                                    /\ ledger[i].settles \in Int
    BY LedgerPlaces DEF Consistent
  <1>2. \A i \in free \ both : Amounts[i] <= 0
    BY <1>1 DEF Credit
  <1>3. \A i \in settled \ both : Amounts[i] >= 0
    BY <1>1 DEF Credit
  <1>4. /\ Free(c) = Cash(free) /\ Settled(d) = Cash(settled)
        /\ free \in SUBSET DOMAIN ledger /\ settled \in SUBSET DOMAIN ledger
        /\ both \in SUBSET free /\ both \in SUBSET settled
    BY DEF Free, Settled
  <1> HIDE DEF free, settled, both
  <1>5. /\ IsFiniteSet(free) /\ IsFiniteSet(settled)
        /\ IsFiniteSet(free \ both) /\ IsFiniteSet(settled \ both)
    <2>1. free \ both \in SUBSET DOMAIN ledger /\ settled \ both \in SUBSET DOMAIN ledger
      BY <1>4
    <2> QED
      BY <1>1, <1>4, <2>1, FS_Subset
  <1>6. Cash(free) = Cash(both) + Cash(free \ both)
    <2>1. \A i \in free : Amounts[i] \in Int
      BY <1>1, <1>4
    <2> QED
      BY <1>4, <1>5, <2>1, SumSplit DEF Cash
  <1>7. Cash(settled) = Cash(both) + Cash(settled \ both)
    <2>1. \A i \in settled : Amounts[i] \in Int
      BY <1>1, <1>4
    <2> QED
      BY <1>4, <1>5, <2>1, SumSplit DEF Cash
  <1>8. SumFunctionOnSet(zero, free \ both) = 0 /\ SumFunctionOnSet(zero, settled \ both) = 0
    <2>1. \A i \in DOMAIN ledger : zero[i] = 0
      OBVIOUS
    <2>2. (\A i \in free \ both : zero[i] = 0) /\ (\A i \in settled \ both : zero[i] = 0)
      BY <1>4, <2>1
    <2> HIDE DEF zero
    <2> QED
      BY <1>5, <2>2, SumZero
  <1>9. Cash(free \ both) <= 0
    <2>1. \A i \in free \ both : Amounts[i] \in Int /\ zero[i] \in Int /\ Amounts[i] <= zero[i]
      BY <1>1, <1>2, <1>4
    <2> HIDE DEF zero
    <2> QED
      BY <1>5, <1>8, <2>1, SumAtMost DEF Cash
  <1>10. Cash(settled \ both) >= 0
    <2>1. \A i \in settled \ both : Amounts[i] \in Int /\ zero[i] \in Int /\ zero[i] <= Amounts[i]
      BY <1>1, <1>3, <1>4
    <2>2. SumFunctionOnSet(zero, settled \ both) <= SumFunctionOnSet(Amounts, settled \ both)
      <3> HIDE DEF zero
      <3> QED
        BY <1>5, <2>1, SumAtMost
    <2> HIDE DEF zero
    <2>3. Cash(settled \ both) \in Int
      <3>1. settled \ both \in SUBSET DOMAIN ledger
        BY <1>4
      <3> QED
        BY <1>1, <3>1, CashInt
    <2> QED
      BY <1>8, <2>2, <2>3 DEF Cash
  <1>11. Cash(both) \in Int /\ Cash(free \ both) \in Int /\ Cash(settled \ both) \in Int
    <2>1. /\ both \in SUBSET DOMAIN ledger /\ free \ both \in SUBSET DOMAIN ledger
          /\ settled \ both \in SUBSET DOMAIN ledger
      BY <1>4
    <2> QED
      BY <1>1, <2>1, CashInt
  <1> QED
    BY <1>4, <1>6, <1>7, <1>9, <1>10, <1>11

\* Money put in or taken out leaves the positions alone.
LEMMA CashBookingKeeps ==
    ASSUME Consistent, NEW kind \in Kind, kind # "sell", NEW amount \in Int, NEW on \in Days,
           NEW settles \in Days \union 1..MaxDay + Lag,
           Book(kind, amount, on, settles), UNCHANGED positions
    PROVE  Consistent' /\ ~Sold
  <1>1. /\ ledger' \in Seq(CashMovement) /\ balance' \in Int /\ open' \subseteq DOMAIN ledger'
        /\ OpenSettlesLater' /\ BalanceIsSum'
        /\ ledger'[Len(ledger')].kind = kind
    BY Booked
  <1> QED
    BY <1>1 DEF Consistent, PortfolioTypeOK, Sold

\* A deposit books cash and touches no position.
LEMMA DepositKeeps ==
    ASSUME Consistent, NEW on \in Days, NEW amount \in Amount, Deposit(amount, on)
    PROVE  Consistent' /\ ~Sold
  <1>1. Book("deposit", amount, on, on) /\ UNCHANGED positions
    BY PortfolioConstants DEF Deposit, BookCash
  <1>2. amount \in Int /\ "deposit" \in Kind /\ "deposit" # "sell"
    BY PortfolioConstants DEF Kind
  <1> QED
    BY <1>1, <1>2, CashBookingKeeps

\* A dividend books cash and touches no position.
LEMMA DividendKeeps ==
    ASSUME Consistent, NEW on \in Days, NEW gross \in Amount, CreditDividend(gross, on)
    PROVE  Consistent' /\ ~Sold
  <1>1. Book("dividend", gross, on, on) /\ UNCHANGED positions
    BY PortfolioConstants DEF CreditDividend, BookCash
  <1>2. gross \in Int /\ "dividend" \in Kind /\ "dividend" # "sell"
    BY PortfolioConstants DEF Kind
  <1> QED
    BY <1>1, <1>2, CashBookingKeeps

\* A charge books a debit, settled that day or later, and touches no position.
LEMMA ChargeKeeps ==
    ASSUME Consistent, NEW on \in Days, NEW kind \in Charges, NEW amount \in Amount,
           NEW settles \in {on, on + Lag}, Charge(kind, amount, on, settles)
    PROVE  Consistent' /\ ~Sold
  <1>1. Book(kind, -amount, on, settles) /\ UNCHANGED positions
    BY PortfolioConstants DEF Charge, BookCash
  <1>2. -amount \in Int /\ kind \in Kind /\ kind # "sell"
    <2>1. amount \in Nat
      BY PortfolioConstants
    <2>2. kind \in Kind /\ kind # "sell"
      BY DEF Kind, Charges
    <2> QED
      BY <2>1, <2>2
  <1>3. settles \in Days \union 1..MaxDay + Lag
    BY PortfolioConstants DEF Days
  <1> QED
    BY <1>1, <1>2, <1>3, CashBookingKeeps

\* A split changes one holding, and no cash.
LEMMA SplitKeeps ==
    ASSUME Consistent, NEW on \in Days, NEW stock \in Stock, NEW ratio \in Ratio,
           ApplySplit(stock, ratio, on)
    PROVE  Consistent' /\ ~Sold
  <1> DEFINE held == positions[stock]
             quantity == (held.quantity * ratio[1]) \div ratio[2]
  <1>1. held \in Position /\ held.quantity \in Nat /\ held.basis \in Nat
    BY DEF Consistent, PortfolioTypeOK, Position
  <1>2. ratio[1] \in Nat /\ ratio[2] \in Nat /\ ratio[2] > 0
    BY PortfolioConstants
  <1>3. quantity \in Nat
    <2>1. held.quantity * ratio[1] \in Nat
      BY <1>1, <1>2
    <2> HIDE DEF held
    <2> QED
      BY <1>2, <2>1
  <1>4. AfterSplit(held, quantity) \in Position
    BY <1>1, <1>3 DEF AfterSplit, NoPosition, Position
  <1>5. positions' \in [Stock -> Position]
    BY <1>4 DEF ApplySplit, Consistent, PortfolioTypeOK
  <1>6. UNCHANGED <<ledger, balance, open>>
    BY DEF ApplySplit
  <1> QED
    BY <1>5, <1>6 DEF Consistent, PortfolioTypeOK, OpenSettlesLater, LastDay, BalanceIsSum, Cash, Amounts, Sold

\* A buy adds its shares and its whole cost.
LEMMA BuyKeeps ==
    ASSUME Consistent, NEW on \in Days, NEW stock \in Stock, NEW quantity \in Nat \ {0},
           NEW cost \in Nat, Buy(stock, quantity, cost, on)
    PROVE  Consistent' /\ ~Sold
  <1>1. quantity \in Nat /\ quantity > 0 /\ cost \in Nat /\ -cost \in Int
    OBVIOUS
  <1>2. positions' \in [Stock -> Position]
    <2>1. positions \in [Stock -> Position]
      BY DEF Consistent, PortfolioTypeOK
    <2>2. positions[stock].quantity \in Nat /\ positions[stock].basis \in Nat
      BY <2>1 DEF Position
    <2>3. [positions[stock] EXCEPT !.quantity = @ + quantity, !.basis = @ + cost] \in Position
      <3>1. positions[stock] \in [quantity : Nat, basis : Nat]
        BY <2>1 DEF Position
      <3>2. ASSUME NEW held \in [quantity : Nat, basis : Nat]
            PROVE  [held EXCEPT !.quantity = @ + quantity, !.basis = @ + cost] \in Position
        <4>1. /\ held.quantity + quantity \in Nat /\ held.quantity + quantity # 0
              /\ held.basis + cost \in Nat
          BY <1>1
        <4> QED
          BY <4>1 DEF Position
      <3> QED
        BY <3>1, <3>2
    <2>4. positions' = [positions EXCEPT ![stock] =
                          [positions[stock] EXCEPT !.quantity = @ + quantity, !.basis = @ + cost]]
      BY <2>1 DEF Buy, Position
    <2> QED
      BY <2>1, <2>3, <2>4
  <1>3. Book("buy", -cost, on, on)
    BY DEF Buy
  <1>4. /\ ledger' \in Seq(CashMovement) /\ balance' \in Int /\ open' \subseteq DOMAIN ledger'
        /\ OpenSettlesLater' /\ BalanceIsSum'
        /\ ledger'[Len(ledger')].kind = "buy"
    BY <1>1, <1>3, Booked DEF Kind
  <1> QED
    BY <1>2, <1>4 DEF Consistent, PortfolioTypeOK, Sold

\* A sale keeps the cost of what is left not negative, and at most its share.
LEMMA SellKeeps ==
    ASSUME Consistent, NEW on \in Days, NEW stock \in Stock, NEW quantity \in Nat \ {0},
           NEW proceeds \in Int, Sell(stock, quantity, proceeds, on, on + Lag)
    PROVE  /\ Consistent'
           /\ \A s \in Stock : positions'[s].basis * positions[s].quantity
                                  <= positions[s].basis * positions'[s].quantity
  <1> DEFINE held == positions[stock]
             left == IF quantity = held.quantity THEN NoPosition
                     ELSE [quantity |-> held.quantity - quantity,
                           basis |-> held.basis - Released(held, quantity)]
  <1>1. quantity \in Nat /\ 0 < quantity /\ proceeds \in Int /\ on + Lag \in 1..MaxDay + Lag
    BY PortfolioConstants DEF Days
  <1>2. positions \in [Stock -> Position]
    BY DEF Consistent, PortfolioTypeOK
  <1>3. /\ held.quantity \in Nat /\ held.basis \in Nat
        /\ held = [quantity |-> held.quantity, basis |-> held.basis]
        /\ quantity <= held.quantity
        /\ positions' = [positions EXCEPT ![stock] = left]
    BY <1>2 DEF Sell, Position
  <1>4. left \in Position /\ left.basis * held.quantity <= held.basis * left.quantity
    <2>1. CASE quantity = held.quantity
      BY <1>3, <2>1 DEF NoPosition, Position
    <2>2. CASE quantity < held.quantity
      <3> DEFINE released == Released([quantity |-> held.quantity, basis |-> held.basis], quantity)
      <3>1. /\ released \in Nat /\ released <= held.basis
            /\ (held.basis - released) * held.quantity <= held.basis * (held.quantity - quantity)
        BY <1>1, <1>3, <2>2, ReleasedBounds
      <3>2. left = [quantity |-> held.quantity - quantity, basis |-> held.basis - released]
        BY <1>1, <1>3, <2>2
      <3> HIDE DEF left, released, held
      <3> QED
        BY <1>1, <1>3, <2>2, <3>1, <3>2 DEF Position
    <2> QED
      BY <1>1, <1>3, <2>1, <2>2
  <1> HIDE DEF left
  <1>5. positions' \in [Stock -> Position] /\ positions'[stock] = left
    BY <1>2, <1>3, <1>4
  <1>6. ASSUME NEW s \in Stock
        PROVE  positions'[s].basis * positions[s].quantity
                 <= positions[s].basis * positions'[s].quantity
    <2>1. CASE s = stock
      BY <1>4, <1>5, <2>1
    <2>2. CASE s # stock
      <3>1. positions'[s] = positions[s]
        BY <1>2, <1>3, <2>2
      <3>2. positions[s].basis * positions[s].quantity \in Int
        BY <1>2 DEF Position
      <3> QED
        BY <3>1, <3>2
    <2> QED
      BY <2>1, <2>2
  <1>7. /\ ledger' \in Seq(CashMovement) /\ balance' \in Int /\ open' \subseteq DOMAIN ledger'
        /\ OpenSettlesLater' /\ BalanceIsSum'
    BY <1>1, Booked DEF Sell, Kind
  <1> QED
    BY <1>5, <1>6, <1>7 DEF Consistent, PortfolioTypeOK

\* Every call keeps the snapshot consistent, and only a sale releases cost.
LEMMA CallKeeps ==
    ASSUME Consistent, [CallsNext]_portfolio
    PROVE  /\ Consistent'
           /\ Sold => \A s \in Stock :
                positions'[s].basis * positions[s].quantity
                    <= positions[s].basis * positions'[s].quantity
  <1>1. CASE UNCHANGED portfolio
    BY <1>1 DEF Consistent, PortfolioTypeOK, OpenSettlesLater, LastDay, BalanceIsSum, Cash,
               Amounts, portfolio, Sold
  <1>2. ASSUME NEW on \in Days, Call(on)
        PROVE  /\ Consistent'
               /\ Sold => \A s \in Stock :
                    positions'[s].basis * positions[s].quantity
                        <= positions[s].basis * positions'[s].quantity
    <2>1. Quantity \subseteq Nat \ {0} /\ Amount \subseteq Nat /\ Amount \union {0} \subseteq Int
      BY PortfolioConstants
    <2> QED
      BY <1>2, <2>1, DepositKeeps, DividendKeeps, ChargeKeeps, SplitKeeps, BuyKeeps, SellKeeps DEF Call
  <1> QED
    BY <1>1, <1>2 DEF CallsNext

\* The empty portfolio of Portfolio.empty is consistent.
LEMMA EmptyConsistent == Empty => Consistent
  <1> SUFFICES ASSUME Empty PROVE Consistent
    OBVIOUS
  <1>1. PortfolioTypeOK /\ OpenSettlesLater
    BY DEF Empty, PortfolioTypeOK, OpenSettlesLater, NoPosition, Position
  <1>2. DOMAIN ledger = {} /\ balance = 0
    BY DEF Empty
  <1>3. BalanceIsSum
    BY <1>2, SumEmpty DEF BalanceIsSum, Cash
  <1> QED
    BY <1>1, <1>3 DEF Consistent

-----------------------------------------------------------------------------
(* The theorems.                                                           *)

\* Any sequence of the portfolio's operations leaves a consistent snapshot.
THEOREM AlwaysConsistent == CallsSpec => []Consistent
  <1>1. Consistent /\ [CallsNext]_portfolio => Consistent'
    BY CallKeeps
  <1> QED
    BY <1>1, EmptyConsistent, PTL DEF CallsSpec

\* Every field keeps its type: no position has negative shares or a negative cost,
\* whatever is bought, sold and split.
THEOREM PortfolioTypeCorrect == CallsSpec => []PortfolioTypeOK
  <1>1. Consistent => PortfolioTypeOK
    BY DEF Consistent
  <1> QED
    BY <1>1, AlwaysConsistent, PTL

\* The cached open movements are exactly those that settle after the last day.
THEOREM OpenIsExact == CallsSpec => []OpenSettlesLater
  <1>1. Consistent => OpenSettlesLater
    BY DEF Consistent
  <1> QED
    BY <1>1, AlwaysConsistent, PTL

\* "Settled credits, less every debit" on any day, though it is read from the balance and the
\* few open movements.
THEOREM CashIsExact == CallsSpec => []CashIsAsDefined
  <1>1. Consistent => CashIsAsDefined
    <2> SUFFICES ASSUME Consistent, NEW d \in 1..MaxDay + Lag
                 PROVE  SpendableCash(d) = Free(d) /\ SettledCash(d) = Settled(d)
      BY DEF CashIsAsDefined, Free, Settled
    <2> QED
      BY CashRead
  <1> QED
    BY <1>1, AlwaysConsistent, PTL

\* No sale releases too little cost, so none overstates its gain.
THEOREM NoGainIsOverstated == CallsSpec => NoGainOverstated
  <1> DEFINE Fair == Sold => \A s \in Stock :
                positions'[s].basis * positions[s].quantity
                    <= positions[s].basis * positions'[s].quantity
  <1>1. Consistent /\ [CallsNext]_portfolio => [Fair]_portfolio
    BY CallKeeps
  <1> QED
    BY <1>1, AlwaysConsistent, PTL DEF CallsSpec, NoGainOverstated

-----------------------------------------------------------------------------
(* Days: what stops for good.                                              *)

\* What a freeze rests on: there is one position for each stock.
FreezeInv ==
    /\ positions = [s \in Stock |-> positions[s]]
    /\ frozen \subseteq Stock

\* Booking cash leaves what is held alone.
LEMMA CashLeavesPositions ==
    ASSUME NEW kind, NEW amount, NEW on, NEW settles,
           \/ Deposit(amount, on) \/ CreditDividend(amount, on)
           \/ Charge(kind, amount, on, settles) \/ UNCHANGED portfolio
    PROVE  positions' = positions
  BY DEF Deposit, CreditDividend, Charge, BookCash, portfolio

\* A fill changes no position but that of its stock, which is not frozen.
LEMMA FillTouchesItsStock ==
    ASSUME FreezeInv, NEW o \in pending, Fill(o)
    PROVE  /\ positions' = [s \in Stock |-> positions'[s]]
           /\ \A s \in Stock : positions'[s] # positions[s] => s = o.stock /\ s \notin frozen
  <1>1. CASE Refuse(o)
    BY <1>1 DEF Refuse, portfolio, FreezeInv
  <1>2. CASE /\ Fillable(o)
             /\ \E wanted \in 1..o.quantity, price \in Price :
                   BuyOrder(o, wanted, price) \/ SellOrder(o, wanted, price)
    <2>1. PICK wanted \in 1..o.quantity, price \in Price :
              BuyOrder(o, wanted, price) \/ SellOrder(o, wanted, price)
      BY <1>2
    <2>2. o.stock \notin frozen
      BY <1>2 DEF Fillable
    <2>3. \/ positions' = positions
          \/ \E held : positions' = [positions EXCEPT ![o.stock] = held]
      BY <2>1 DEF BuyOrder, SellOrder, BookFill, ApplyFill, Buy, Sell, portfolio
    <2> QED
      BY <2>2, <2>3 DEF FreezeInv
  <1> QED
    BY <1>1, <1>2 DEF Fill

\* The positions stay one for each stock and the frozen stocks stocks, whatever happens.
LEMMA NextFreezes ==
    ASSUME FreezeInv, [EngineNext]_all
    PROVE  /\ FreezeInv'
           /\ frozen \subseteq frozen'
           /\ \A s \in frozen : positions'[s] # positions[s] => phase = "closed"
  <1>1. CASE StartDay
    <2>1. phase = "closed" /\ frozen \subseteq frozen' /\ frozen' \subseteq Stock
      BY <1>1 DEF StartDay, FreezeExcluded, FreezeInv
    <2>2. positions' = positions \/ \E s, held : positions' = [positions EXCEPT ![s] = held]
      BY <1>1 DEF StartDay, Split, ApplySplit, portfolio
    <2> QED
      BY <2>1, <2>2 DEF FreezeInv
  <1>2. CASE Pay \/ PayTax
    <2>1. positions' = positions /\ frozen' = frozen
      BY <1>2, CashLeavesPositions DEF Pay, PayTax
    <2> QED
      BY <2>1 DEF FreezeInv
  <1>3. CASE OpenMarket
    <2>1. positions' = positions /\ frozen \subseteq frozen' /\ frozen' \subseteq Stock
      BY <1>3 DEF OpenMarket, portfolio, FreezeInv
    <2> QED
      BY <2>1 DEF FreezeInv
  <1>4. ASSUME NEW o \in pending, Fill(o) PROVE FreezeInv' /\ frozen' = frozen
                /\ \A s \in frozen : positions'[s] = positions[s]
    <2>1. frozen' = frozen
      BY <1>4 DEF Fill, engine
    <2> QED
      BY <1>4, <2>1, FillTouchesItsStock DEF FreezeInv
  <1>5. CASE CloseSession
    <2>1. positions' = positions /\ frozen' = frozen
      BY <1>5, CashLeavesPositions DEF CloseSession, CloseDay
    <2> QED
      BY <2>1 DEF FreezeInv
  <1>6. CASE Revalue
    <2>1. positions' = positions /\ frozen' = frozen
      BY <1>6, CashLeavesPositions DEF Revalue, TopUp
    <2> QED
      BY <2>1 DEF FreezeInv
  <1>7. CASE Decide \/ UNCHANGED all
    <2>1. positions' = positions /\ frozen' = frozen
      BY <1>7 DEF Decide, all, vars, engine, portfolio
    <2> QED
      BY <2>1 DEF FreezeInv
  <1> QED
    BY <1>1, <1>2, <1>3, <1>4, <1>5, <1>6, <1>7 DEF EngineNext

\* "Freezes it for the rest of the run": a frozen stock is never unfrozen, and nothing
\* but a split changes how many of its shares are held.
THEOREM FreezesLast == EngineSpec => FrozenForGood
  <1>1. EngineInit => FreezeInv
    BY DEF EngineInit, FreezeInv
  <1>2. FreezeInv /\ [EngineNext]_all => FreezeInv'
    BY NextFreezes
  <1>3. FreezeInv /\ [EngineNext]_all =>
          [/\ frozen \subseteq frozen'
           /\ \A s \in frozen : positions'[s] # positions[s] => phase = "closed"]_all
    BY NextFreezes
  <1> QED
    BY <1>1, <1>2, <1>3, PTL DEF EngineSpec, FrozenForGood

-----------------------------------------------------------------------------
\* What a halt rests on: from the decision of its day on, nothing is pending.
HaltInv ==
    /\ today \in Nat /\ halt \in Nat
    /\ halt # NoDay => halt <= today
    /\ halt # NoDay /\ (today > halt \/ phase = "closed") => pending = {}

\* A step of a halted account keeps the halt, brings no order and, but for a split, no shares.
LEMMA NextStaysHalted ==
    ASSUME HaltInv, [EngineNext]_all
    PROVE  /\ HaltInv'
           /\ halt # NoDay =>
                /\ halt' = halt
                /\ today > halt => pending = {} /\ (phase # "closed" => positions' = positions)
  <1>1. CASE StartDay
    <2>1. today' = today + 1 /\ halt' = halt /\ phase = "closed" /\ phase' # "closed"
      BY <1>1 DEF StartDay
    <2>2. pending' \subseteq pending
      BY <1>1 DEF StartDay, Split, Uncancelled
    <2> QED
      BY <2>1, <2>2 DEF HaltInv
  <1>2. CASE Pay \/ PayTax \/ OpenMarket
    <2>1. today' = today /\ halt' = halt /\ pending' = pending /\ phase' # "closed"
      BY <1>2 DEF Pay, PayTax, OpenMarket, broker
    <2>2. positions' = positions
      BY <1>2, CashLeavesPositions DEF Pay, PayTax, OpenMarket, portfolio
    <2> QED
      BY <2>1, <2>2 DEF HaltInv
  <1>3. ASSUME NEW o \in pending, Fill(o) PROVE HaltInv' /\ halt' = halt /\ ~(halt # NoDay /\ today > halt)
    <2>1. halt' = halt /\ phase' = phase /\ phase = "filling"
      BY <1>3 DEF Fill, engine
    <2>2. today' = today
      BY <1>3 DEF Fill, Refuse, BuyOrder, SellOrder, Tried
    <2>3. ~(halt # NoDay /\ today > halt)
      BY <1>3 DEF HaltInv
    <2> QED
      BY <2>1, <2>2, <2>3 DEF HaltInv
  <1>4. CASE CloseSession
    <2>1. today' = today /\ halt' = halt /\ pending' = pending /\ phase' # "closed"
      BY <1>4 DEF CloseSession, CloseDay
    <2>2. positions' = positions
      BY <1>4, CashLeavesPositions DEF CloseSession, CloseDay
    <2> QED
      BY <2>1, <2>2 DEF HaltInv
  <1>5. CASE Revalue
    <2>1. today' = today /\ pending' = pending /\ phase' # "closed"
      BY <1>5 DEF Revalue, TopUp, broker
    <2>2. positions' = positions
      BY <1>5, CashLeavesPositions DEF Revalue, TopUp
    <2>3. PICK after : halt' = Halted(after)
      BY <1>5 DEF Revalue, TopUp
    <2>4. halt' \in Nat /\ (halt # NoDay => halt' = halt) /\ (halt' # NoDay => halt' <= today)
      BY <2>3 DEF Halted, HaltInv, NoDay
    <2>5. halt = NoDay => ~(today > halt')  \/ halt' = NoDay
      BY <2>3, <2>4 DEF Halted, HaltInv
    <2> QED
      BY <2>1, <2>2, <2>4, <2>5 DEF HaltInv
  <1>6. CASE Decide
    <2>1. today' = today /\ halt' = halt /\ positions' = positions
      BY <1>6 DEF Decide, portfolio
    <2>2. halt # NoDay => pending' = {}
      BY <1>6 DEF Decide
    <2> QED
      BY <2>1, <2>2 DEF HaltInv
  <1>7. CASE UNCHANGED all
    <2>1. UNCHANGED <<today, halt, pending, phase, positions>>
      BY <1>7 DEF all, vars, engine, broker, portfolio
    <2> QED
      BY <2>1 DEF HaltInv
  <1> QED
    BY <1>1, <1>2, <1>3, <1>4, <1>5, <1>6, <1>7 DEF EngineNext

\* Once halted an account stays halted, and after that day nothing is ordered or traded.
THEOREM HaltsLast == EngineSpec => HaltedForGood
  <1>1. EngineInit => HaltInv
    BY DEF EngineInit, HaltInv, NoDay
  <1>2. HaltInv /\ [EngineNext]_all => HaltInv'
    BY NextStaysHalted
  <1>3. HaltInv /\ [EngineNext]_all =>
          [halt # NoDay =>
             /\ halt' = halt
             /\ today > halt => pending = {} /\ (phase # "closed" => positions' = positions)]_all
    BY NextStaysHalted
  <1> QED
    BY <1>1, <1>2, <1>3, PTL DEF EngineSpec, HaltedForGood

\* Freezes and halts both last: the account is never traded where one stands, whatever comes
\* after it.
THEOREM StopsAreForGood == EngineSpec => StopsLast
  BY FreezesLast, HaltsLast, PTL DEF StopsLast

-----------------------------------------------------------------------------
\* What integer division rounds down to.
LEMMA DivisionBound ==
    ASSUME NEW a \in Nat, NEW b \in Nat \ {0}
    PROVE  a \div b \in Nat /\ b * (a \div b) <= a
  OBVIOUS

\* It is the most that the divisor goes into a number.
LEMMA DivisionIsLargest ==
    ASSUME NEW a \in Nat, NEW b \in Nat \ {0}, NEW x \in Nat, b * x <= a
    PROVE  x <= a \div b
  <1> DEFINE q == a \div b
  <1>1. q \in Nat /\ a < b * (q + 1)
    OBVIOUS
  <1> SUFFICES ASSUME x > q PROVE FALSE
    BY <1>1
  <1>2. x >= q + 1
    BY <1>1
  <1> HIDE DEF q
  <1>3. PICK d \in Nat : x = q + 1 + d
    <2>1. x - (q + 1) \in Nat
      BY <1>1, <1>2
    <2> QED
      BY <2>1, <1>1
  <1>4. b * x = b * (q + 1) + b * d
    BY <1>1, <1>3
  <1>5. b * d \in Nat /\ b * (q + 1) \in Nat
    BY <1>1
  <1> QED
    BY <1>1, <1>4, <1>5

\* A deposit never looks like a loss: an account of any value, valued again right after
\* a deposit of any amount at its unit price, has at least that price, whatever the
\* rounding of its units.
THEOREM DepositIsNoLoss ==
    ASSUME NEW value \in Nat, NEW amount \in Nat, NEW of \in [units : Nat \ {0}, price : Nat, high : Nat],
           of.price = PriceOf(value, of), of.price > 0
    PROVE  of.price <= PriceOf(value + amount, Deposited(of, amount))
  <1> DEFINE p == of.price
             u == of.units
             v == value * Scale * Scale
             a == amount * Scale * Scale
             more == a \div p
  <1>1. Scale \in Nat /\ u \in Nat \ {0} /\ p \in Nat \ {0}
    BY EngineConstants
  <1>2. v \in Nat /\ a \in Nat
    BY <1>1
  <1>3. (value + amount) * Scale * Scale = v + a
    BY <1>1
  <1>4. p = v \div u
    BY DEF PriceOf
  <1>5. Deposited(of, amount).units = u + more
    BY DEF Deposited
  <1>6. PriceOf(value + amount, Deposited(of, amount)) = (v + a) \div (u + more)
    BY <1>3, <1>5 DEF PriceOf
  <1> HIDE DEF p, u, v, a
  <1>7. more \in Nat /\ p * more <= a
    BY <1>1, <1>2, DivisionBound
  <1>8. u * p <= v
    BY <1>1, <1>2, <1>4, DivisionBound
  <1> HIDE DEF more
  <1>9. (u + more) * p = u * p + p * more
    BY <1>1, <1>7
  <1>10. u * p \in Nat /\ p * more \in Nat /\ u + more \in Nat \ {0} /\ v + a \in Nat
    BY <1>1, <1>2, <1>7
  <1>11. (u + more) * p <= v + a
    BY <1>2, <1>7, <1>8, <1>9, <1>10
  <1>12. p <= (v + a) \div (u + more)
    BY <1>1, <1>10, <1>11, DivisionIsLargest
  <1> QED
    BY <1>6, <1>12 DEF p

-----------------------------------------------------------------------------
(* The decision: what is ordered, and what the day's buys come to.         *)

\* The less of two numbers.
LEMMA LessOf ==
    ASSUME NEW a \in Int, NEW b \in Int
    PROVE  Min({a, b}) \in {a, b} /\ Min({a, b}) <= a /\ Min({a, b}) <= b
  BY DEF Min

\* The greater of two numbers.
LEMMA MoreOf ==
    ASSUME NEW a \in Int, NEW b \in Int
    PROVE  Max({a, b}) \in {a, b} /\ Max({a, b}) >= a /\ Max({a, b}) >= b
  BY DEF Max

\* An amount, or nothing if there is less than nothing.
LEMMA AtLeastNothing ==
    ASSUME NEW a \in Int
    PROVE  /\ Max({a, 0}) \in Nat /\ a <= Max({a, 0})
           /\ Max({a, 0}) = a \/ Max({a, 0}) = 0
  <1>1. Max({a, 0}) \in {a, 0} /\ Max({a, 0}) >= a /\ Max({a, 0}) >= 0
    BY MoreOf
  <1> QED
    BY <1>1

\* The most of those that will do, or none.
LEMMA MostOf ==
    ASSUME NEW m \in Int, NEW T \in SUBSET (1..m)
    PROVE  /\ Max({0} \union T) \in {0} \union T
           /\ \A q \in {0} \union T : q <= Max({0} \union T)
  <1> DEFINE U == {0} \union T
             top == IF m < 0 THEN 0 ELSE m
  <1>1. top \in Nat /\ U \in SUBSET (0..top) /\ U # {}
    OBVIOUS
  <1>2. \E n \in U : \A k \in U : k <= n
    BY <1>1, Greatest
  <1>3. \A k, n \in U : k <= n <=> n >= k
    BY <1>1
  <1> QED
    BY <1>2, <1>3 DEF Max

\* There are only so many stocks, for their symbols put them in a row.
LEMMA StocksFinite == IsFiniteSet(Stock)
  <1>1. Len(BySymbol) \in Nat /\ BySymbol \in [1..Len(BySymbol) -> Stock]
    BY EngineConstants
  <1>2. \A s \in Stock : \E i \in 1..Len(BySymbol) : BySymbol[i] = s
    BY EngineConstants
  <1>3. BySymbol \in Surjection(1..Len(BySymbol), Stock)
    BY <1>1, <1>2 DEF Surjection
  <1> QED
    BY <1>1, <1>3, FS_NatSurjection DEF ExistsSurjection

\* A part of an amount, rounded up, is not negative and no more than the amount.
LEMMA PartBounds ==
    ASSUME NEW gross \in Nat, NEW part \in Nat \ {0}
    PROVE  LET k == (gross + part - 1) \div part
           IN k \in Nat /\ (gross > 0 => k <= gross)
  <1> DEFINE top == gross + part - 1
             k == top \div part
  <1>1. top \in Nat
    OBVIOUS
  <1>2. k \in Nat /\ part * k <= top
    BY <1>1, DivisionBound
  <1>3. ASSUME gross > 0 PROVE k <= gross
    <2>1. SUFFICES ASSUME k > gross PROVE FALSE
      BY <1>2
    <2> HIDE DEF k
    <2>2. PICK r \in Nat : k = gross + 1 + r
      <3>1. k - (gross + 1) \in Nat
        BY <1>2, <2>1
      <3> QED
        BY <1>2, <3>1
    <2>3. part * k = part * gross + part + part * r
      BY <2>2
    <2>4. part * gross >= gross /\ part * r \in Nat /\ part * gross \in Nat
      OBVIOUS
    <2> QED
      BY <1>2, <2>3, <2>4
  <1> QED
    BY <1>2, <1>3

\* A fee is never negative.
LEMMA FeeNat ==
    ASSUME NEW gross \in Nat
    PROVE  Fee(gross) \in Nat
  BY MarketConstants, PartBounds DEF Fee

\* A dividend's tax is never negative, and no more than the dividend.
LEMMA TaxNat ==
    ASSUME NEW gross \in Nat \ {0}
    PROVE  DividendTax(gross) \in Nat /\ DividendTax(gross) <= gross
  <1>1. TaxPart \in Nat \ {0} /\ gross \in Nat
    BY EngineConstants
  <1> QED
    BY <1>1, PartBounds DEF DividendTax

\* What can be bought is not negative, no more than wanted, and within the budget.
LEMMA AffordableFits ==
    ASSUME NEW quantity \in Int, NEW price \in Nat \ {0}, NEW budget \in Int
    PROVE  LET bought == Affordable(quantity, price, budget)
           IN /\ bought \in Nat
              /\ bought > 0 => bought <= quantity /\ Cost(bought, price) <= budget
              /\ bought > 0 => Cost(bought, price) \in Nat
  <1> DEFINE most == Min({quantity, budget \div price})
             fits == {q \in 1..most : Cost(q, price) <= budget}
             bought == Affordable(quantity, price, budget)
  <1>1. budget \div price \in Int
    OBVIOUS
  <1>2. most \in Int /\ most <= quantity
    BY <1>1, LessOf
  <1> HIDE DEF most
  <1>3. fits \in SUBSET (1..most)
    OBVIOUS
  <1>4. bought = Max({0} \union fits)
    BY DEF Affordable, most
  <1>5. bought \in {0} \union fits
    BY <1>2, <1>3, <1>4, MostOf
  <1>6. ASSUME NEW q \in Nat PROVE Cost(q, price) \in Nat
    <2>1. price * q \in Nat
      OBVIOUS
    <2> QED
      BY <2>1, FeeNat DEF Cost
  <1> HIDE DEF bought
  <1> QED
    BY <1>2, <1>5, <1>6 DEF bought

-----------------------------------------------------------------------------
(* The types of the day.                                                   *)

Orders == [stock : Stock, side : {"buy", "sell"}, quantity : Nat \ {0}]
Earnings == [stock : Stock, exDate : Nat, payDate : Nat, gross : Nat \ {0}]
Sessions == [running : BOOLEAN, traded : Nat, proceeds : Nat, bought : BOOLEAN]

\* A session runs while orders fill, a tax is owed only between a dividend and its tax, and
\* what is held and trades today is valued at today's close when the day is decided.
Types ==
    /\ Consistent
    /\ today \in 0..MaxDay /\ phase \in Phase /\ (phase # "closed" => today \in Days)
    /\ pending \in SUBSET Orders
    /\ session \in Sessions /\ (session.running <=> phase = "filling")
    /\ entitlements \in Seq(Earnings)
    /\ owed \in Nat /\ (phase # "paying" => owed = 0)
    /\ bar \in [Stock -> Price \union {NoBar}]
    /\ closes \in [Stock -> Nat \union {NoBar}]
    /\ phase = "deciding" => \A s \in Stock : Held(s) /\ bar[s] # NoBar => closes[s] = bar[s]

\* The cash on hand: on no day to come is less settled than the tax still owed; while orders
\* fill, the day's charge on what was traded is held back, from the cash that is free today
\* once something was bought, and from that and the day's proceeds before.
ChargeHeldBack ==
    LET due == DailyCost(session.traded)
    IN /\ session.bought => due <= Free(today) /\ \A o \in pending : o.side = "buy"
       /\ due > 0 => due <= Free(today) + session.proceeds
       /\ \A d \in Nat : d >= today + Lag => Free(today) + session.proceeds <= Settled(d)

CashOnHand ==
    /\ \A d \in Nat : d >= today => owed <= Settled(d)
    /\ phase = "filling" => ChargeHeldBack

\* The orders: a stock is sold once, and all of the sale is held.
SoldOnce ==
    \A o, p \in pending : o.side = "sell" /\ p.side = "sell" /\ o.stock = p.stock => o = p

OrdersKept == SoldOnce /\ SalesAreCovered /\ (phase = "closed" => BuysFit)

\* The dividends: those not paid are queued once each by their pay date, none of which is
\* past, and those paid are in the ledger.
BookedAs(kind, day) == {i \in DOMAIN ledger : ledger[i].kind = kind /\ ledger[i].day = day}
Paid(day) == {e \in earned \ ToSet(entitlements) : e.payDate = day}
InTurn(queue) ==
    \A i, j \in DOMAIN queue : i < j => queue[i].payDate <= queue[j].payDate /\ queue[i] # queue[j]

DividendsKept ==
    /\ earned \in SUBSET Earnings /\ IsFiniteSet(earned)
    /\ \A e \in earned : e.exDate <= today /\ e.payDate = e.exDate + PayLag
    /\ ToSet(entitlements) \subseteq earned /\ InTurn(entitlements)
    /\ \A e \in ToSet(entitlements) : IF phase = "paying" THEN e.payDate >= today ELSE e.payDate > today
    /\ \A day \in Days :
         /\ Cash(BookedAs("dividend", day)) = SumFunctionOnSet([e \in earned |-> e.gross], Paid(day))
         /\ (IF day = today THEN owed ELSE 0) - Cash(BookedAs("tax", day))
              = SumFunctionOnSet([e \in earned |-> DividendTax(e.gross)], Paid(day))

DayInv == Types /\ CashOnHand /\ OrdersKept /\ DividendsKept

-----------------------------------------------------------------------------
(* What each step does to the portfolio.                                   *)

\* A purchase of some lots, paid with the day's charge from the cash that is free today.
Purchase(o) ==
    \E lots, gross \in Nat \ {0} :
        /\ Buy(o.stock, lots, gross + Fee(gross), today)
        /\ gross + Fee(gross) + DailyCost(session.traded + gross) <= SpendableCash(today)
        /\ session' = [session EXCEPT !.traded = @ + gross, !.bought = TRUE]

\* A sale of some of the shares, whose proceeds cover the day's charge with what is free.
Sale(o) ==
    \E quantity \in 1..o.quantity, gross \in Nat \ {0} :
        /\ DailyCost(session.traded + gross) <= Covering(gross)
        /\ Sell(o.stock, quantity, Net(gross), today, today + Lag)
        /\ session' = [session EXCEPT !.traded = @ + gross, !.proceeds = @ + Net(gross)]

\* What a trade costs with the day's charge is a number, no less than what is traded.
LEMMA CostIsNat ==
    ASSUME session.traded \in Nat, NEW gross \in Nat
    PROVE  /\ Fee(gross) \in Nat /\ DailyCost(session.traded + gross) \in Nat
           /\ CostWithDuty(gross) \in Nat /\ gross <= CostWithDuty(gross)
  <1>1. Fee(gross) \in Nat
    BY FeeNat
  <1>2. DailyCost(session.traded + gross) \in Nat
    BY MarketConstants DEF DailyCost
  <1> QED
    BY <1>1, <1>2 DEF CostWithDuty

\* A buy is for lots that are paid with the day's charge, and no more of those wanted are.
LEMMA LotsArePaid ==
    ASSUME session.traded \in Nat, NEW wanted \in Nat, NEW price \in Nat \ {0}, NEW cash \in Int
    PROVE  LET lots == LotsPaid(wanted, price, cash)
           IN /\ lots \in Nat
              /\ lots > 0 => CostWithDuty(price * lots) <= cash
              /\ \A q \in lots + 1..wanted : CostWithDuty(price * q) > cash
  <1> DEFINE free == Max({cash, 0})
             most == Min({wanted, free \div price})
             paid == {q \in 1..most : CostWithDuty(price * q) <= cash}
             lots == LotsPaid(wanted, price, cash)
  <1>1. free \in Nat /\ cash <= free /\ (free = cash \/ free = 0)
    BY AtLeastNothing
  <1> HIDE DEF free
  <1>2. free \div price \in Nat
    BY <1>1
  <1>3. most \in {wanted, free \div price} /\ most \in Int
    <2>1. wanted \in Int /\ free \div price \in Int
      BY <1>2
    <2>2. most \in {wanted, free \div price}
      BY <2>1, LessOf
    <2> QED
      BY <2>1, <2>2
  <1>4. lots = Max({0} \union paid)
    BY DEF LotsPaid, free
  <1> HIDE DEF most
  <1>5. paid \in SUBSET (1..most)
    OBVIOUS
  <1>6. lots \in {0} \union paid /\ \A q \in {0} \union paid : q <= lots
    <2> HIDE DEF paid
    <2> QED
      BY <1>3, <1>4, <1>5, MostOf
  <1> HIDE DEF lots
  <1>7. ASSUME NEW q \in lots + 1..wanted
        PROVE  CostWithDuty(price * q) > cash
    <2>1. lots \in Nat /\ q \in Nat /\ q >= 1 /\ q > lots /\ q <= wanted /\ price * q \in Nat
      BY <1>6
    <2>2. CostWithDuty(price * q) \in Nat /\ price * q <= CostWithDuty(price * q)
      BY <2>1, CostIsNat
    <2>3. CASE q <= free \div price
      <3>1. q \in 1..most /\ q \notin paid
        BY <1>2, <1>3, <1>6, <2>1, <2>3
      <3> QED
        BY <2>2, <3>1
    <2>4. CASE q > free \div price
      <3>1. ~ (price * q <= free)
        BY <1>1, <2>1, <2>4, <1>2, DivisionIsLargest
      <3> QED
        BY <1>1, <2>1, <2>2, <3>1
    <2> QED
      BY <1>2, <2>1, <2>3, <2>4
  <1> QED
    BY <1>6, <1>7 DEF lots

\* What a fill does: an order leaves the queue, a buy only when no sale is left in it, and
\* lots are bought, shares sold or nothing traded.
LEMMA FillTrades ==
    ASSUME Types, NEW o \in pending, Fill(o)
    PROVE  /\ o \in Orders /\ phase = "filling" /\ today \in Days /\ session \in Sessions
           /\ pending' = pending \ {o} /\ today' = today /\ UNCHANGED engine
           /\ o.side = "buy" => \A p \in pending : p.side = "buy"
           /\ \/ UNCHANGED <<portfolio, session>>
              \/ o.side = "buy" /\ Purchase(o)
              \/ o.side = "sell" /\ Sale(o)
  <1>1. o \in Orders /\ phase = "filling" /\ today \in Days /\ session \in Sessions
    BY DEF Types, Fill
  <1>2. Tried(o) /\ UNCHANGED engine
    BY DEF Fill, Refuse, BuyOrder, SellOrder
  <1>3. /\ pending' = pending \ {o} /\ today' = today
        /\ o.side = "buy" => \A p \in pending : p.side = "buy"
    BY <1>2 DEF Tried, NextInLine
  <1>4. session.traded \in Nat /\ SpendableCash(today) \in Int
    <2>1. SpendableCash(today) \in Int
      <3>1. Consistent /\ today \in Int
        BY <1>1 DEF Types, Days
      <3> QED
        BY <3>1, CashRead
    <2> QED
      BY <1>1, <2>1 DEF Sessions
  <1>5. ASSUME NEW wanted \in 1..o.quantity, NEW price \in Price, BuyOrder(o, wanted, price)
        PROVE  UNCHANGED <<portfolio, session>> \/ (o.side = "buy" /\ Purchase(o))
    <2> DEFINE lots == LotsPaid(wanted, price, SpendableCash(today))
    <2>1. wanted \in Nat /\ price \in Nat \ {0}
      BY <1>1, MarketConstants DEF Orders
    <2>2. lots \in Nat /\ (lots > 0 => CostWithDuty(price * lots) <= SpendableCash(today))
      BY <1>4, <2>1, LotsArePaid
    <2>3. /\ o.side = "buy"
          /\ \/ UNCHANGED <<portfolio, session>>
             \/ /\ lots > 0
                /\ BookFill(o, lots, price)
                /\ session' = [session EXCEPT !.traded = @ + price * lots, !.bought = TRUE]
      BY <1>5 DEF BuyOrder
    <2> HIDE DEF lots
    <2>4. CASE /\ lots > 0
               /\ BookFill(o, lots, price)
               /\ session' = [session EXCEPT !.traded = @ + price * lots, !.bought = TRUE]
      <3>1. lots \in Nat \ {0} /\ price * lots \in Nat \ {0}
        BY <2>1, <2>2, <2>4
      <3>2. Buy(o.stock, lots, price * lots + Fee(price * lots), today)
        BY <2>3, <2>4 DEF BookFill, ApplyFill
      <3>3. price * lots + Fee(price * lots) + DailyCost(session.traded + price * lots)
              <= SpendableCash(today)
        BY <2>2, <2>4 DEF CostWithDuty
      <3> QED
        BY <2>3, <2>4, <3>1, <3>2, <3>3 DEF Purchase
    <2> QED
      BY <2>3, <2>4
  <1>6. ASSUME NEW wanted \in 1..o.quantity, NEW price \in Price, SellOrder(o, wanted, price)
        PROVE  UNCHANGED <<portfolio, session>> \/ (o.side = "sell" /\ Sale(o))
    <2>1. wanted \in Nat \ {0} /\ price \in Nat \ {0}
      BY <1>1, MarketConstants DEF Orders
    <2>2. price * wanted \in Nat \ {0}
      BY <2>1
    <2>3. /\ o.side = "sell"
          /\ \/ UNCHANGED <<portfolio, session>>
             \/ /\ DailyCost(session.traded + price * wanted) <= Covering(price * wanted)
                /\ BookFill(o, wanted, price)
                /\ session' = [session EXCEPT !.traded = @ + price * wanted,
                                              !.proceeds = @ + Net(price * wanted)]
      BY <1>6 DEF SellOrder
    <2>4. ASSUME BookFill(o, wanted, price)
          PROVE  Sell(o.stock, wanted, Net(price * wanted), today, today + Lag)
      BY <2>3, <2>4 DEF BookFill, ApplyFill, Net
    <2> QED
      BY <2>2, <2>3, <2>4 DEF Sale
  <1> QED
    BY <1>1, <1>2, <1>3, <1>5, <1>6 DEF Fill, Refuse

\* A purchase keeps the snapshot consistent, and takes its cost from the cash of every day.
LEMMA PurchaseBooks ==
    ASSUME Types, NEW o \in Orders, today \in Days, session \in Sessions, Purchase(o)
    PROVE  \E lots, gross \in Nat \ {0}, cost \in Nat \ {0} :
              /\ Consistent'
              /\ Buy(o.stock, lots, cost, today)
              /\ Book("buy", -cost, today, today)
              /\ session' = [session EXCEPT !.traded = @ + gross, !.bought = TRUE]
              /\ session' \in Sessions /\ session'.traded = session.traded + gross
              /\ session'.bought = TRUE /\ session'.proceeds = session.proceeds
              /\ cost + DailyCost(session'.traded) <= Free(today)
              /\ \A d \in Nat : d >= today => /\ Free(d)' = Free(d) - cost
                                              /\ Settled(d)' = Settled(d) - cost
  <1>1. PICK lots, gross \in Nat \ {0} :
              /\ Buy(o.stock, lots, gross + Fee(gross), today)
              /\ gross + Fee(gross) + DailyCost(session.traded + gross) <= SpendableCash(today)
              /\ session' = [session EXCEPT !.traded = @ + gross, !.bought = TRUE]
    BY DEF Purchase
  <1> DEFINE cost == gross + Fee(gross)
  <1>2. cost \in Nat \ {0}
    BY FeeNat
  <1>3. Consistent /\ today \in Nat /\ o.stock \in Stock
    BY DEF Types, Days, Orders
  <1>4. Consistent'
    BY <1>1, <1>2, <1>3, BuyKeeps
  <1>5. Book("buy", -cost, today, today)
    BY <1>1 DEF Buy
  <1>6. /\ session' \in Sessions /\ session'.traded = session.traded + gross
        /\ session'.bought = TRUE /\ session'.proceeds = session.proceeds
    <2>1. session' = [running |-> session.running, traded |-> session.traded + gross,
                      proceeds |-> session.proceeds, bought |-> TRUE]
      BY <1>1 DEF Sessions
    <2> QED
      BY <2>1 DEF Sessions
  <1>7. SpendableCash(today) = Free(today)
    BY <1>3, CashRead
  <1> HIDE DEF cost
  <1>8. ASSUME NEW d \in Nat, d >= today
        PROVE  Free(d)' = Free(d) - cost /\ Settled(d)' = Settled(d) - cost
    <2>1. -cost \in Int /\ ~ (-cost >= 0) /\ "buy" \in Kind
      BY <1>2 DEF Kind
    <2>2. Settled(d)' = -cost + Settled(d) /\ Free(d)' = -cost + Free(d)
      BY <1>3, <1>5, <1>8, <2>1, Moves
    <2>3. Settled(d) \in Int /\ Free(d) \in Int
      BY <1>3, CashRead
    <2> QED
      BY <1>2, <2>2, <2>3
  <1>9. cost + DailyCost(session'.traded) <= Free(today)
    BY <1>1, <1>6, <1>7 DEF cost
  <1> QED
    BY <1>1, <1>2, <1>4, <1>5, <1>6, <1>8, <1>9 DEF cost

\* A sale keeps it consistent; its proceeds are no cash that is free before they settle.
LEMMA SaleBooks ==
    ASSUME Types, NEW o \in Orders, today \in Days, today' = today, session \in Sessions, Sale(o)
    PROVE  \E quantity \in 1..o.quantity, gross \in Nat \ {0}, proceeds \in Nat :
              /\ Consistent'
              /\ Sell(o.stock, quantity, proceeds, today, today + Lag)
              /\ Book("sell", proceeds, today, today + Lag)
              /\ session' \in Sessions /\ session'.traded = session.traded + gross
              /\ session'.bought = session.bought
              /\ session'.proceeds = session.proceeds + proceeds
              /\ session'.running = session.running
              /\ DailyCost(session'.traded) <= Free(today) + session'.proceeds
              /\ Free(today)' = Free(today)
              /\ \A d \in Nat : Settled(d)' = IF today + Lag <= d THEN proceeds + Settled(d) ELSE Settled(d)
  <1>1. PICK quantity \in 1..o.quantity, gross \in Nat \ {0} :
              /\ DailyCost(session.traded + gross) <= Covering(gross)
              /\ Sell(o.stock, quantity, Net(gross), today, today + Lag)
              /\ session' = [session EXCEPT !.traded = @ + gross, !.proceeds = @ + Net(gross)]
    BY DEF Sale
  <1>2. Net(gross) \in Nat
    <2>1. Net(gross) \in Int
      BY FeeNat DEF Net
    <2>2. Net(gross) >= 0
      BY <1>1 DEF Sell
    <2> QED
      BY <2>1, <2>2
  <1>3. /\ Consistent /\ today \in Nat /\ o.stock \in Stock
        /\ quantity \in Nat \ {0} /\ Lag \in Nat \ {0} /\ today + Lag \in 1..MaxDay + Lag
    BY PortfolioConstants, MarketConstants DEF Types, Days, Orders
  <1>4. Consistent'
    BY <1>1, <1>2, <1>3, SellKeeps
  <1>5. Book("sell", Net(gross), today, today + Lag)
    BY <1>1 DEF Sell
  <1>6. /\ session' \in Sessions /\ session'.traded = session.traded + gross
        /\ session'.bought = session.bought
        /\ session'.proceeds = session.proceeds + Net(gross)
        /\ session'.running = session.running
    <2>1. session' = [running |-> session.running, traded |-> session.traded + gross,
                      proceeds |-> session.proceeds + Net(gross), bought |-> session.bought]
      BY <1>1 DEF Sessions
    <2> QED
      BY <1>2, <2>1 DEF Sessions
  <1>7. SpendableCash(today) = Free(today) /\ Free(today) \in Int
    BY <1>3, CashRead
  <1>8. ASSUME NEW d \in Nat
        PROVE  /\ Settled(d)' = IF today + Lag <= d THEN Net(gross) + Settled(d) ELSE Settled(d)
               /\ Free(d)' = IF Net(gross) >= 0 /\ today + Lag > d THEN Free(d) ELSE Net(gross) + Free(d)
    <2>1. "sell" \in Kind /\ Net(gross) \in Int
      BY <1>2 DEF Kind
    <2> QED
      BY <1>3, <1>5, <2>1, Moves
  <1>9. Free(today)' = Free(today)
    <2>1. today + Lag > today /\ Net(gross) >= 0
      BY <1>2, <1>3
    <2> QED
      BY <1>3, <1>8, <2>1
  <1>10. DailyCost(session'.traded) <= Free(today) + session'.proceeds
    <2>1. session.proceeds \in Int
      BY DEF Sessions
    <2>2. Covering(gross) = Free(today) + (session.proceeds + Net(gross))
      BY <1>2, <1>7, <2>1 DEF Covering
    <2> QED
      BY <1>1, <1>6, <2>2
  <1> QED
    BY <1>1, <1>2, <1>4, <1>5, <1>6, <1>8, <1>9, <1>10

-----------------------------------------------------------------------------
(* The dividends a day brings.                                             *)

\* One dividend more at the end of the queue.
LEMMA QueueOneMore ==
    ASSUME NEW q \in Seq(Earnings), NEW e \in Earnings
    PROVE  /\ Append(q, e) \in Seq(Earnings)
           /\ ToSet(Append(q, e)) = ToSet(q) \union {e}
           /\ InTurn(q) /\ (\A p \in ToSet(q) : p.payDate <= e.payDate /\ p # e) => InTurn(Append(q, e))
  <1> DEFINE n == Len(q)
             r == Append(q, e)
  <1>1. n \in Nat /\ DOMAIN q = 1..n /\ r \in Seq(Earnings) /\ DOMAIN r = 1..n + 1
    OBVIOUS
  <1>2. (\A i \in 1..n : r[i] = q[i] /\ q[i] \in ToSet(q)) /\ r[n + 1] = e
    BY DEF ToSet
  <1> HIDE DEF r, n
  <1>3. ToSet(r) = ToSet(q) \union {e}
    <2>1. ASSUME NEW x \in ToSet(r) PROVE x \in ToSet(q) \union {e}
      <3>1. PICK i \in 1..n + 1 : x = r[i]
        BY <1>1 DEF ToSet
      <3>2. CASE i \in 1..n
        BY <1>2, <3>1, <3>2
      <3>3. CASE i = n + 1
        BY <1>2, <3>1, <3>3
      <3> QED
        BY <1>1, <3>2, <3>3
    <2>2. ASSUME NEW x \in ToSet(q) PROVE x \in ToSet(r)
      <3>1. PICK i \in 1..n : x = q[i]
        BY <1>1 DEF ToSet
      <3>2. x = r[i] /\ i \in DOMAIN r
        BY <1>1, <1>2, <3>1
      <3> QED
        BY <3>2 DEF ToSet
    <2>3. e \in ToSet(r)
      <3>1. n + 1 \in DOMAIN r
        BY <1>1
      <3> QED
        BY <1>2, <3>1 DEF ToSet
    <2> QED
      BY <2>1, <2>2, <2>3
  <1>4. ASSUME InTurn(q), \A p \in ToSet(q) : p.payDate <= e.payDate /\ p # e
        PROVE  InTurn(r)
    <2>1. SUFFICES ASSUME NEW i \in 1..n + 1, NEW j \in 1..n + 1, i < j
                   PROVE  r[i].payDate <= r[j].payDate /\ r[i] # r[j]
      BY <1>1 DEF InTurn
    <2>2. CASE j \in 1..n
      <3>1. i \in 1..n
        BY <1>1, <2>1, <2>2
      <3>2. q[i].payDate <= q[j].payDate /\ q[i] # q[j]
        BY <1>1, <1>4, <2>1, <2>2, <3>1 DEF InTurn
      <3> QED
        BY <1>2, <2>2, <3>1, <3>2
    <2>3. CASE j = n + 1
      <3>1. i \in 1..n
        BY <1>1, <2>1, <2>3
      <3> QED
        BY <1>2, <1>4, <2>3, <3>1
    <2> QED
      BY <1>1, <2>2, <2>3
  <1> QED
    BY <1>1, <1>3, <1>4 DEF r

\* A day's dividends join the queue at its end, once for each stock that is held.
LEMMA EntitledOnce ==
    ASSUME positions \in [Stock -> Position], entitlements \in Seq(Earnings), NEW on \in Nat,
           NEW payers \in SUBSET Stock, NEW dividends \in [payers -> PerShare],
           InTurn(entitlements),
           \A e \in ToSet(entitlements) : e.payDate <= on + PayLag /\ e.exDate < on
    PROVE  LET queue == Entitled(dividends, on)
           IN /\ queue \in Seq(Earnings) /\ InTurn(queue)
              /\ ToSet(entitlements) \subseteq ToSet(queue)
              /\ \A e \in ToSet(queue) \ ToSet(entitlements) :
                    e.exDate = on /\ e.payDate = on + PayLag
  <1> DEFINE n == Len(BySymbol)
             Next(i, q) == IF Held(BySymbol[i]) /\ BySymbol[i] \in DOMAIN dividends
                           THEN Append(q, Entitlement(BySymbol[i], dividends[BySymbol[i]], on))
                           ELSE q
             Is(g) == g = [i \in 0..n |-> IF i = 0 THEN entitlements ELSE Next(i, g[i - 1])]
             after == CHOOSE g : Is(g)
  <1>1. /\ n \in Nat /\ \A i \in 1..n : BySymbol[i] \in Stock
        /\ \A i, j \in 1..n : BySymbol[i] = BySymbol[j] => i = j
    BY EngineConstants
  <1>2. ASSUME NEW i \in 1..n, Held(BySymbol[i]), BySymbol[i] \in DOMAIN dividends
        PROVE  Entitlement(BySymbol[i], dividends[BySymbol[i]], on) \in Earnings
    <2>1. PayLag \in Nat /\ dividends[BySymbol[i]] \in Nat \ {0}
      <3>1. dividends[BySymbol[i]] \in PerShare
        BY <1>2
      <3> QED
        BY <3>1, EngineConstants
    <2>2. positions[BySymbol[i]].quantity \in Nat \ {0}
      BY <1>1, <1>2 DEF Held, Position
    <2>3. dividends[BySymbol[i]] * positions[BySymbol[i]].quantity \in Nat \ {0}
      BY <2>1, <2>2
    <2> QED
      BY <1>1, <2>1, <2>3 DEF Entitlement, Earnings
  <1>3. \E g : Is(g)
    <2> DEFINE V == Seq(Earnings)
               F == [p \in (1..n) \X V |-> Next(p[1], p[2])]
    <2>1. ASSUME NEW i \in 1..n, NEW q \in V PROVE Next(i, q) \in V
      BY <1>2, QueueOneMore
    <2> HIDE DEF Next
    <2>2. F \in [(1..n) \X V -> V] /\ entitlements \in V
      BY <2>1
    <2>3. \A i \in 1..n, q \in V : F[<<i, q>>] = Next(i, q)
      OBVIOUS
    <2> HIDE DEF V, F, n
    <2>4. PICK g : Steps(g, n, V, entitlements, F)
      BY <1>1, <2>2, StepByStep
    <2>5. \A i \in 0..n : i # 0 => i \in 1..n /\ g[i - 1] \in V
      BY <1>1, <2>4 DEF Steps
    <2>6. \A i \in 0..n : g[i] = IF i = 0 THEN entitlements ELSE Next(i, g[i - 1])
      BY <2>3, <2>4, <2>5 DEF Steps
    <2> HIDE DEF Next
    <2>7. g = [i \in 0..n |-> IF i = 0 THEN entitlements ELSE Next(i, g[i - 1])]
      BY <2>4, <2>6 DEF Steps
    <2> QED
      BY <2>7
  <1>4. Is(after)
    <2> HIDE DEF Is
    <2> QED
      BY <1>3
  <1>5. Entitled(dividends, on) = after[n]
    BY DEF Entitled
  <1> HIDE DEF after
  <1>6. after[0] = entitlements /\ \A i \in 1..n : after[i] = Next(i, after[i - 1])
    <2> HIDE DEF Next, n
    <2>1. 0 \in 0..n /\ \A i \in 1..n : i \in 0..n /\ i # 0
      BY <1>1
    <2>2. \A i \in 0..n : after[i] = IF i = 0 THEN entitlements ELSE Next(i, after[i - 1])
      BY <1>4
    <2> QED
      BY <2>1, <2>2
  <1> DEFINE Fresh(e, i) == /\ e.exDate = on /\ e.payDate = on + PayLag
                            /\ \E j \in 1..i : e.stock = BySymbol[j]
             Good == {i \in Nat : i <= n =>
                        /\ after[i] \in Seq(Earnings) /\ InTurn(after[i])
                        /\ ToSet(entitlements) \subseteq ToSet(after[i])
                        /\ \A e \in ToSet(after[i]) \ ToSet(entitlements) : Fresh(e, i)}
  <1>7. 0 \in Good
    BY <1>6
  <1>8. ASSUME NEW k \in Nat, k \in Good PROVE k + 1 \in Good
    <2>1. SUFFICES ASSUME k + 1 <= n
                   PROVE  /\ after[k + 1] \in Seq(Earnings) /\ InTurn(after[k + 1])
                          /\ ToSet(entitlements) \subseteq ToSet(after[k + 1])
                          /\ \A e \in ToSet(after[k + 1]) \ ToSet(entitlements) : Fresh(e, k + 1)
      OBVIOUS
    <2> DEFINE q == after[k]
               s == BySymbol[k + 1]
    <2>2. /\ q \in Seq(Earnings) /\ InTurn(q) /\ ToSet(entitlements) \subseteq ToSet(q)
          /\ \A e \in ToSet(q) \ ToSet(entitlements) : Fresh(e, k)
      BY <1>8, <2>1
    <2>3. k + 1 \in 1..n /\ after[k + 1] = Next(k + 1, q)
      BY <1>1, <1>6, <2>1
    <2>4. \A e : Fresh(e, k) => Fresh(e, k + 1)
      OBVIOUS
    <2> HIDE DEF Good
    <2>5. CASE Held(s) /\ s \in DOMAIN dividends
      <3> DEFINE e == Entitlement(s, dividends[s], on)
      <3>1. e \in Earnings
        BY <1>2, <2>3, <2>5
      <3>2. e.stock = s /\ e.exDate = on /\ e.payDate = on + PayLag
        BY DEF Entitlement
      <3>3. Fresh(e, k + 1)
        BY <2>3, <3>2
      <3>4. after[k + 1] = Append(q, e)
        BY <2>3, <2>5
      <3> HIDE DEF q, e
      <3>5. ASSUME NEW p \in ToSet(q) PROVE p.payDate <= e.payDate /\ p # e
        <4>1. CASE p \in ToSet(entitlements)
          BY <3>2, <4>1
        <4>2. CASE p \notin ToSet(entitlements)
          <5>1. Fresh(p, k)
            BY <2>2, <4>2
          <5>2. PICK j \in 1..k : p.stock = BySymbol[j]
            BY <5>1
          <5>3. p.stock # s
            BY <1>1, <2>3, <5>2
          <5>4. p.payDate = on + PayLag /\ on + PayLag \in Int
            BY <5>1, EngineConstants
          <5> QED
            BY <3>2, <5>3, <5>4
        <4> QED
          BY <4>1, <4>2
      <3>6. /\ after[k + 1] \in Seq(Earnings) /\ InTurn(after[k + 1])
            /\ ToSet(after[k + 1]) = ToSet(q) \union {e}
        BY <2>2, <3>1, <3>4, <3>5, QueueOneMore
      <3> HIDE DEF Fresh
      <3> QED
        BY <2>2, <2>4, <3>3, <3>6
    <2>6. CASE ~ (Held(s) /\ s \in DOMAIN dividends)
      <3>1. after[k + 1] = q
        BY <2>3, <2>6
      <3> HIDE DEF Fresh, q
      <3> QED
        BY <2>2, <2>4, <3>1
    <2> QED
      BY <2>5, <2>6
  <1>9. n \in Good
    <2> HIDE DEF Good
    <2> QED
      BY <1>1, <1>7, <1>8, Naturals
  <1> QED
    BY <1>5, <1>9

-----------------------------------------------------------------------------
(* Each step keeps the invariant.                                          *)

\* What does not book leaves the cash, and what was booked as what, as they are.
LEMMA CashSame ==
    ASSUME UNCHANGED <<ledger, balance, open>>
    PROVE  /\ \A d : Settled(d)' = Settled(d) /\ Free(d)' = Free(d)
           /\ \A kind, day : Cash(BookedAs(kind, day))' = Cash(BookedAs(kind, day))
           /\ Consistent /\ UNCHANGED positions => Consistent'
  BY DEF Settled, Free, Cash, Amounts, Credit, BookedAs, Consistent, PortfolioTypeOK, OpenSettlesLater,
         LastDay, BalanceIsSum

\* A booking counts as what it is booked as, on its day.
LEMMA BookedMore ==
    ASSUME Consistent, NEW kind \in Kind, NEW amount \in Int, NEW on \in Days,
           NEW settles \in Days \union 1..MaxDay + Lag, Book(kind, amount, on, settles),
           NEW as \in Kind, NEW day \in Days
    PROVE  /\ Cash(BookedAs(as, day))' = IF as = kind /\ day = on
                                         THEN amount + Cash(BookedAs(as, day))
                                         ELSE Cash(BookedAs(as, day))
           /\ Cash(BookedAs(as, day)) \in Int
  <1> DEFINE m == [day |-> on, kind |-> kind, amount |-> amount, settles |-> settles]
             n == Len(ledger)
             part == BookedAs(as, day)
  <1>1. ledger' = Append(ledger, m) /\ m.amount = amount /\ m.kind = kind /\ m.day = on
    BY DEF Book
  <1>2. PortfolioTypeOK /\ n \in Nat /\ DOMAIN ledger = 1..n
    BY DEF Consistent, PortfolioTypeOK
  <1> HIDE DEF m
  <1>3. /\ DOMAIN ledger' = 1..n + 1 /\ n + 1 \notin 1..n
        /\ \A i \in 1..n : ledger'[i] = ledger[i]
        /\ ledger'[n + 1] = m
    BY <1>1, <1>2 DEF PortfolioTypeOK
  <1>4. {i \in DOMAIN ledger' : ledger'[i].kind = as /\ ledger'[i].day = day}
          = IF as = kind /\ day = on THEN part \union {n + 1} ELSE part
    <2>1. ledger'[n + 1].kind = kind /\ ledger'[n + 1].day = on
      BY <1>1, <1>3
    <2>2. \A i \in 1..n : i \in part <=> ledger'[i].kind = as /\ ledger'[i].day = day
      BY <1>2, <1>3 DEF BookedAs
    <2>3. \A i : i \in 1..n + 1 <=> i \in 1..n \/ i = n + 1
      BY <1>2
    <2>4. part \subseteq 1..n
      BY <1>2 DEF BookedAs
    <2> HIDE DEF part
    <2> QED
      BY <1>3, <2>1, <2>2, <2>3, <2>4
  <1>5. part \in SUBSET DOMAIN ledger
    BY DEF BookedAs
  <1>6. Cash(BookedAs(as, day))'
          = SumFunctionOnSet(Amounts', IF as = kind /\ day = on THEN part \union {n + 1} ELSE part)
    BY <1>4 DEF BookedAs, Cash
  <1> HIDE DEF part
  <1>7. /\ SumFunctionOnSet(Amounts', part) = Cash(part)
        /\ SumFunctionOnSet(Amounts', part \union {n + 1}) = amount + Cash(part)
    BY <1>1, <1>2, <1>5, AppendSums
  <1>8. Cash(part) \in Int
    BY <1>2, <1>5, CashInt
  <1> QED
    BY <1>6, <1>7, <1>8 DEF part

\* A dividend earned earlier counts the same when more are earned.
LEMMA EarnedMore ==
    ASSUME earned \in SUBSET Earnings, IsFiniteSet(earned), earned \subseteq earned',
           NEW part \in SUBSET earned
    PROVE  /\ SumFunctionOnSet([e \in earned' |-> e.gross], part)
                = SumFunctionOnSet([e \in earned |-> e.gross], part)
           /\ SumFunctionOnSet([e \in earned' |-> DividendTax(e.gross)], part)
                = SumFunctionOnSet([e \in earned |-> DividendTax(e.gross)], part)
  <1> DEFINE gross == [e \in earned |-> e.gross]
             more == [e \in earned' |-> e.gross]
             tax == [e \in earned |-> DividendTax(e.gross)]
             moreTax == [e \in earned' |-> DividendTax(e.gross)]
  <1>1. IsFiniteSet(part)
    BY FS_Subset
  <1>2. \A e \in part : e.gross \in Int /\ DividendTax(e.gross) \in Int
    <2>1. \A e \in part : e.gross \in Nat \ {0}
      BY DEF Earnings
    <2> QED
      BY <2>1, TaxNat
  <1>3. \A e \in part : /\ gross[e] = e.gross /\ more[e] = e.gross
                        /\ tax[e] = DividendTax(e.gross) /\ moreTax[e] = DividendTax(e.gross)
    OBVIOUS
  <1> HIDE DEF gross, more, tax, moreTax
  <1>4. SumFunctionOnSet(more, part) = SumFunctionOnSet(gross, part)
    BY <1>1, <1>2, <1>3, SumSame
  <1>5. SumFunctionOnSet(moreTax, part) = SumFunctionOnSet(tax, part)
    BY <1>1, <1>2, <1>3, SumSame
  <1> QED
    BY <1>4, <1>5 DEF gross, more, tax, moreTax

\* A queue is a finite set of dividends.
LEMMA QueueFinite ==
    ASSUME NEW q \in Seq(Earnings)
    PROVE  IsFiniteSet(ToSet(q)) /\ ToSet(q) \in SUBSET Earnings
  <1>1. Len(q) \in Nat /\ q \in [1..Len(q) -> Earnings] /\ DOMAIN q = 1..Len(q)
    OBVIOUS
  <1>2. ToSet(q) \in SUBSET Earnings
    BY <1>1 DEF ToSet
  <1>3. q \in Surjection(1..Len(q), ToSet(q))
    BY <1>1 DEF Surjection, ToSet
  <1> QED
    BY <1>1, <1>2, <1>3, FS_NatSurjection DEF ExistsSurjection

\* What the actions of a day's start do: at most one split, whose stock's orders go with it.
LEMMA StartDayDoes ==
    ASSUME Types, StartDay
    PROVE  /\ phase = "closed" /\ phase' = "paying" /\ today \in Nat
           /\ today' = today + 1 /\ today' \in Days
           /\ UNCHANGED <<ledger, balance, open, session, owed, bar>>
           /\ Consistent' /\ closes' \in [Stock -> Nat \union {NoBar}] /\ pending' \subseteq pending
           /\ \A o \in pending' : positions'[o.stock] = positions[o.stock]
  <1>1. /\ phase = "closed" /\ phase' = "paying" /\ today' = today + 1 /\ today < MaxDay
        /\ UNCHANGED <<session, owed, bar>>
    BY DEF StartDay
  <1>2. today \in Nat /\ today' \in Days
    BY <1>1, PortfolioConstants DEF Types, Days
  <1>3. \/ UNCHANGED <<portfolio, closes, pending>>
        \/ \E stock \in Stock, ratio \in Ratio : Split(stock, ratio, today + 1)
    BY DEF StartDay
  <1>4. CASE UNCHANGED <<portfolio, closes, pending>>
    <2>1. UNCHANGED <<positions, ledger, balance, open>>
      BY <1>4 DEF portfolio
    <2>2. Consistent'
      BY <2>1, CashSame DEF Types
    <2> QED
      BY <1>1, <1>2, <1>4, <2>1, <2>2 DEF Types
  <1>5. CASE \E stock \in Stock, ratio \in Ratio : Split(stock, ratio, today + 1)
    <2>1. PICK stock \in Stock, ratio \in Ratio : Split(stock, ratio, today + 1)
      BY <1>5
    <2>2. ratio[1] \in Nat \ {0} /\ ratio[2] \in Nat \ {0}
      BY PortfolioConstants
    <2>3. /\ Consistent' /\ UNCHANGED <<ledger, balance, open>>
          /\ \A s : s # stock => positions'[s] = positions[s]
      <3>1. CASE Held(stock)
        <4>1. ApplySplit(stock, ratio, today + 1)
          BY <2>1, <3>1 DEF Split
        <4>2. Consistent'
          BY <1>1, <1>2, <4>1, SplitKeeps DEF Types
        <4>3. positions \in [Stock -> Position]
          BY DEF Types, Consistent, PortfolioTypeOK
        <4> QED
          BY <4>1, <4>2, <4>3 DEF ApplySplit
      <3>2. CASE ~ Held(stock)
        <4>1. UNCHANGED <<positions, ledger, balance, open>>
          BY <2>1, <3>2 DEF Split, portfolio
        <4> QED
          BY <4>1, CashSame DEF Types
      <3> QED
        BY <3>1, <3>2
    <2>4. closes' \in [Stock -> Nat \union {NoBar}]
      <3>1. closes' = [closes EXCEPT ![stock] = Scaled(closes[stock], ratio)]
        BY <2>1 DEF Split
      <3>2. closes \in [Stock -> Nat \union {NoBar}]
        BY DEF Types
      <3>3. Scaled(closes[stock], ratio) \in Nat \union {NoBar}
        <4>1. CASE closes[stock] = NoBar
          BY <4>1 DEF Scaled
        <4>2. CASE closes[stock] # NoBar
          <5>1. closes[stock] * ratio[2] \in Nat
            BY <2>2, <3>2, <4>2
          <5>2. (closes[stock] * ratio[2]) \div ratio[1] \in Nat
            BY <2>2, <5>1, DivisionBound
          <5> QED
            BY <4>2, <5>2 DEF Scaled
        <4> QED
          BY <4>1, <4>2
      <3> QED
        BY <3>1, <3>2, <3>3
    <2>5. pending' \subseteq pending /\ \A o \in pending' : o.stock # stock
      BY <2>1 DEF Split, Uncancelled
    <2> QED
      BY <1>1, <1>2, <2>3, <2>4, <2>5
  <1> QED
    BY <1>3, <1>4, <1>5

\* Dividends that join the queue leave those paid as they were.
LEMMA DividendsJoin ==
    ASSUME Types, DividendsKept, StartDay
    PROVE  DividendsKept' /\ entitlements' \in Seq(Earnings)
  <1>1. /\ phase = "closed" /\ phase' = "paying" /\ today \in Nat /\ today' = today + 1
        /\ UNCHANGED <<ledger, balance, open, owed>>
    BY StartDayDoes
  <1>0. PICK payers \in SUBSET Stock :
            \E dividends \in [payers -> PerShare] : entitlements' = Entitled(dividends, today + 1)
    BY DEF StartDay
  <1>2. PICK dividends \in [payers -> PerShare] : entitlements' = Entitled(dividends, today + 1)
    BY <1>0
  <1>3. earned' = earned \union ToSet(entitlements')
    BY DEF StartDay
  <1>4. PayLag \in Nat \ {0}
    BY EngineConstants
  <1>5. earned \in SUBSET Earnings /\ \A e \in earned : e.exDate \in Nat /\ e.payDate \in Nat
    BY DEF DividendsKept, Earnings
  <1>6. /\ entitlements' \in Seq(Earnings) /\ InTurn(entitlements')
        /\ ToSet(entitlements) \subseteq ToSet(entitlements')
        /\ \A e \in ToSet(entitlements') \ ToSet(entitlements) :
              e.exDate = today + 1 /\ e.payDate = today + 1 + PayLag
    <2>1. positions \in [Stock -> Position] /\ entitlements \in Seq(Earnings) /\ today + 1 \in Nat
      BY <1>1 DEF Types, Consistent, PortfolioTypeOK
    <2>2. InTurn(entitlements)
      BY DEF DividendsKept
    <2>3. \A e \in ToSet(entitlements) : e.payDate <= today + 1 + PayLag /\ e.exDate < today + 1
      BY <1>1, <1>4, <1>5 DEF DividendsKept
    <2> QED
      BY <1>2, <2>1, <2>2, <2>3, EntitledOnce
  <1>7. /\ earned' \in SUBSET Earnings /\ IsFiniteSet(earned')
        /\ earned \subseteq earned' /\ ToSet(entitlements') \subseteq earned'
    BY <1>3, <1>5, <1>6, QueueFinite, FS_Union DEF DividendsKept
  <1>8. \A e \in earned' : e.exDate <= today + 1 /\ e.payDate = e.exDate + PayLag
    <2>1. SUFFICES ASSUME NEW e \in earned' PROVE e.exDate <= today + 1 /\ e.payDate = e.exDate + PayLag
      OBVIOUS
    <2>2. CASE e \in earned
      BY <1>1, <1>5, <2>2 DEF DividendsKept
    <2>3. CASE e \notin earned
      BY <1>1, <1>3, <1>6, <2>3 DEF DividendsKept
    <2> QED
      BY <2>2, <2>3
  <1>9. \A e \in ToSet(entitlements') : e.payDate >= today + 1
    <2>1. SUFFICES ASSUME NEW e \in ToSet(entitlements') PROVE e.payDate >= today + 1
      OBVIOUS
    <2>2. CASE e \in ToSet(entitlements)
      BY <1>1, <1>5, <2>2 DEF DividendsKept
    <2>3. CASE e \notin ToSet(entitlements)
      BY <1>1, <1>4, <1>6, <2>3
    <2> QED
      BY <2>2, <2>3
  <1>10. earned' \ ToSet(entitlements') = earned \ ToSet(entitlements)
    <2>1. \A e \in ToSet(entitlements') \ ToSet(entitlements) : e \notin earned
      BY <1>1, <1>5, <1>6 DEF DividendsKept
    <2> QED
      BY <1>3, <1>6, <2>1
  <1>11. \A day : Paid(day)' = Paid(day) /\ Paid(day) \in SUBSET earned
    BY <1>10 DEF Paid
  <1>12. ASSUME NEW day \in Days
         PROVE  /\ Cash(BookedAs("dividend", day))'
                     = SumFunctionOnSet([e \in earned' |-> e.gross], Paid(day)')
                /\ (IF day = today' THEN owed' ELSE 0) - Cash(BookedAs("tax", day))'
                     = SumFunctionOnSet([e \in earned' |-> DividendTax(e.gross)], Paid(day)')
    <2>1. /\ SumFunctionOnSet([e \in earned' |-> e.gross], Paid(day))
                = SumFunctionOnSet([e \in earned |-> e.gross], Paid(day))
          /\ SumFunctionOnSet([e \in earned' |-> DividendTax(e.gross)], Paid(day))
                = SumFunctionOnSet([e \in earned |-> DividendTax(e.gross)], Paid(day))
      BY <1>5, <1>7, <1>11, EarnedMore DEF DividendsKept
    <2>2. /\ Cash(BookedAs("dividend", day))' = Cash(BookedAs("dividend", day))
          /\ Cash(BookedAs("tax", day))' = Cash(BookedAs("tax", day))
      BY <1>1, CashSame
    <2>3. owed = 0 /\ owed' = 0
      BY <1>1 DEF Types
    <2> QED
      BY <1>11, <2>1, <2>2, <2>3 DEF DividendsKept
  <1> QED
    BY <1>1, <1>6, <1>7, <1>8, <1>9, <1>12 DEF DividendsKept

\* A day's start keeps the invariant.
LEMMA StartDayKeeps ==
    ASSUME DayInv, StartDay
    PROVE  DayInv'
  <1>1. Types /\ CashOnHand /\ OrdersKept /\ DividendsKept
    BY DEF DayInv
  <1>2. /\ phase = "closed" /\ phase' = "paying" /\ today \in Nat
        /\ today' = today + 1 /\ today' \in Days
        /\ UNCHANGED <<ledger, balance, open, session, owed, bar>>
        /\ Consistent' /\ closes' \in [Stock -> Nat \union {NoBar}] /\ pending' \subseteq pending
        /\ \A o \in pending' : positions'[o.stock] = positions[o.stock]
    BY <1>1, StartDayDoes
  <1>3. DividendsKept' /\ entitlements' \in Seq(Earnings)
    BY <1>1, DividendsJoin
  <1>4. Types'
    <2>1. today' \in 0..MaxDay
      BY <1>2, PortfolioConstants DEF Days
    <2> QED
      BY <1>1, <1>2, <1>3, <2>1 DEF Types, Phase
  <1>5. CashOnHand'
    <2>1. \A d : Settled(d)' = Settled(d)
      BY <1>2, CashSame
    <2> QED
      BY <1>1, <1>2, <2>1 DEF CashOnHand
  <1>6. OrdersKept'
    BY <1>1, <1>2 DEF OrdersKept, SoldOnce, SalesAreCovered
  <1> QED
    BY <1>3, <1>4, <1>5, <1>6 DEF DayInv

\* The queue without its first dividend.
LEMMA QueueRest ==
    ASSUME NEW q \in Seq(Earnings), q # <<>>, InTurn(q)
    PROVE  /\ Head(q) \in ToSet(q) /\ Tail(q) \in Seq(Earnings) /\ InTurn(Tail(q))
           /\ ToSet(Tail(q)) = ToSet(q) \ {Head(q)}
           /\ \A p \in ToSet(q) : Head(q).payDate <= p.payDate
  <1> DEFINE n == Len(q)
             r == Tail(q)
  <1>1. n \in Nat /\ n >= 1 /\ DOMAIN q = 1..n /\ r \in Seq(Earnings) /\ DOMAIN r = 1..n - 1
    OBVIOUS
  <1>2. Head(q) = q[1] /\ \A i \in 1..n - 1 : r[i] = q[i + 1] /\ i + 1 \in 1..n
    OBVIOUS
  <1>3. \A i, j \in 1..n : i < j => q[i].payDate <= q[j].payDate /\ q[i] # q[j]
    BY <1>1 DEF InTurn
  <1>4. \A i \in 1..n : q[i].payDate \in Nat
    <2>1. \A i \in 1..n : q[i] \in Earnings
      BY <1>1
    <2> QED
      BY <2>1 DEF Earnings
  <1> HIDE DEF r, n
  <1>5. InTurn(r)
    BY <1>1, <1>2, <1>3 DEF InTurn
  <1>6. 1 \in 1..n
    BY <1>1
  <1>7. ToSet(r) = ToSet(q) \ {q[1]}
    <2>1. ASSUME NEW x \in ToSet(r) PROVE x \in ToSet(q) \ {q[1]}
      <3>1. PICK i \in 1..n - 1 : x = r[i]
        BY <1>1 DEF ToSet
      <3>2. x = q[i + 1] /\ i + 1 \in 1..n /\ 1 < i + 1
        BY <1>1, <1>2, <3>1
      <3> QED
        BY <1>1, <1>3, <1>6, <3>2 DEF ToSet
    <2>2. ASSUME NEW x \in ToSet(q), x # q[1] PROVE x \in ToSet(r)
      <3>1. PICK i \in 1..n : x = q[i]
        BY <1>1 DEF ToSet
      <3>2. i - 1 \in 1..n - 1 /\ (i - 1) + 1 = i
        BY <1>1, <2>2, <3>1
      <3>3. x = r[i - 1]
        BY <1>2, <3>1, <3>2
      <3> QED
        BY <1>1, <3>2, <3>3 DEF ToSet
    <2> QED
      BY <2>1, <2>2
  <1>8. ASSUME NEW p \in ToSet(q) PROVE q[1].payDate <= p.payDate
    <2>1. PICK i \in 1..n : p = q[i]
      BY <1>1 DEF ToSet
    <2>2. CASE i = 1
      BY <1>4, <1>6, <2>1, <2>2
    <2>3. CASE i # 1
      <3>1. 1 < i
        BY <1>1, <2>1, <2>3
      <3> QED
        BY <1>3, <1>6, <2>1, <3>1
    <2> QED
      BY <2>2, <2>3
  <1>9. q[1] \in ToSet(q)
    BY <1>1, <1>6 DEF ToSet
  <1> QED
    BY <1>1, <1>2, <1>5, <1>7, <1>8, <1>9 DEF r

\* A dividend paid is in the ledger, and its tax is owed.
LEMMA PayKeeps ==
    ASSUME DayInv, Pay
    PROVE  DayInv'
  <1> DEFINE e == Head(entitlements)
             tax == DividendTax(e.gross)
  <1>1. Types /\ CashOnHand /\ OrdersKept /\ DividendsKept
    BY DEF DayInv
  <1>2. /\ phase = "paying" /\ owed = 0 /\ entitlements # <<>> /\ e.payDate <= today
        /\ CreditDividend(e.gross, today) /\ owed' = tax /\ entitlements' = Tail(entitlements)
        /\ UNCHANGED <<broker, phase, frozen, bar, closes, units, halt, events, worth, earned>>
    BY DEF Pay, Due
  <1>3. /\ e \in ToSet(entitlements) /\ Tail(entitlements) \in Seq(Earnings)
        /\ InTurn(Tail(entitlements))
        /\ ToSet(Tail(entitlements)) = ToSet(entitlements) \ {e}
        /\ \A p \in ToSet(entitlements) : e.payDate <= p.payDate
    BY <1>1, <1>2, QueueRest DEF Types, DividendsKept
  <1>4. /\ e \in earned /\ e \in Earnings /\ e.gross \in Nat \ {0} /\ e.payDate = today
        /\ today \in Days /\ today \in Nat
    <2>1. e \in earned /\ e \in Earnings
      BY <1>1, <1>3 DEF DividendsKept
    <2>2. e.gross \in Nat \ {0} /\ e.payDate \in Nat
      BY <2>1 DEF Earnings
    <2>3. today \in Days /\ today \in Nat
      BY <1>1, <1>2 DEF Types, Days
    <2>4. e.payDate >= today
      BY <1>1, <1>2, <1>3 DEF DividendsKept
    <2> HIDE DEF e
    <2> QED
      BY <1>2, <2>1, <2>2, <2>3, <2>4
  <1>5. tax \in Nat /\ tax <= e.gross
    BY <1>4, TaxNat
  <1>6. Book("dividend", e.gross, today, today) /\ UNCHANGED positions
    <2>1. 1 * e.gross = e.gross
      BY <1>4
    <2> QED
      BY <1>2, <2>1 DEF CreditDividend, BookCash
  <1>7. "dividend" \in Kind /\ "tax" \in Kind /\ "dividend" # "sell" /\ Consistent
    BY <1>1 DEF Kind, Types
  <1> HIDE DEF e, tax
  <1>8. Consistent'
    BY <1>4, <1>6, <1>7, CashBookingKeeps
  <1>9. UNCHANGED <<today, pending, session>>
    BY <1>2 DEF broker
  <1>10. Types'
    BY <1>1, <1>2, <1>3, <1>5, <1>8, <1>9 DEF Types
  <1>11. CashOnHand'
    <2>1. ASSUME NEW d \in Nat, d >= today PROVE tax <= Settled(d)'
      <3>1. Settled(d)' = e.gross + Settled(d)
        BY <1>4, <1>6, <1>7, <2>1, Moves
      <3>2. Settled(d) \in Int /\ Settled(d) >= 0
        BY <1>1, <1>2, <1>7, <2>1, CashRead DEF CashOnHand
      <3> QED
        BY <1>4, <1>5, <3>1, <3>2
    <2> QED
      BY <1>2, <1>9, <2>1 DEF CashOnHand
  <1>12. OrdersKept'
    BY <1>1, <1>2, <1>6, <1>9 DEF OrdersKept, SoldOnce, SalesAreCovered
  <1>13. DividendsKept'
    <2>1. /\ earned' = earned /\ ToSet(entitlements') = ToSet(entitlements) \ {e}
          /\ \A p \in ToSet(entitlements') : p.payDate >= today
      BY <1>1, <1>2, <1>3 DEF DividendsKept
    <2>2. ASSUME NEW day \in Days
          PROVE  /\ Cash(BookedAs("dividend", day))'
                      = SumFunctionOnSet([p \in earned |-> p.gross], Paid(day)')
                 /\ (IF day = today THEN tax ELSE 0) - Cash(BookedAs("tax", day))'
                      = SumFunctionOnSet([p \in earned |-> DividendTax(p.gross)], Paid(day)')
      <3> DEFINE gross == [p \in earned |-> p.gross]
                 taxes == [p \in earned |-> DividendTax(p.gross)]
      <3>1. /\ Cash(BookedAs("dividend", day))
                 = SumFunctionOnSet(gross, Paid(day))
            /\ 0 - Cash(BookedAs("tax", day)) = SumFunctionOnSet(taxes, Paid(day))
        BY <1>1, <1>2 DEF DividendsKept
      <3>2. /\ Cash(BookedAs("tax", day))' = Cash(BookedAs("tax", day))
            /\ Cash(BookedAs("dividend", day))'
                 = IF day = today THEN e.gross + Cash(BookedAs("dividend", day))
                   ELSE Cash(BookedAs("dividend", day))
            /\ Cash(BookedAs("tax", day)) \in Int
        BY <1>4, <1>6, <1>7, BookedMore
      <3>3. Paid(day)' = IF day = today THEN Paid(day) \union {e} ELSE Paid(day)
        BY <1>3, <1>4, <2>1 DEF Paid
      <3>4. e \notin Paid(day) /\ Paid(day) \in SUBSET earned
        BY <1>3 DEF Paid
      <3>5. IsFiniteSet(Paid(day)) /\ \A p \in earned : gross[p] \in Int /\ taxes[p] \in Int
        <4>1. \A p \in earned : p.gross \in Nat \ {0}
          BY <1>1 DEF DividendsKept, Earnings
        <4>2. \A p \in earned : DividendTax(p.gross) \in Nat
          BY <4>1, TaxNat
        <4> QED
          BY <1>1, <3>4, <4>1, <4>2, FS_Subset DEF DividendsKept
      <3>6. gross[e] = e.gross /\ taxes[e] = tax
        BY <1>4 DEF tax
      <3> HIDE DEF gross, taxes
      <3>7. /\ SumFunctionOnSet(gross, Paid(day) \union {e}) = e.gross + SumFunctionOnSet(gross, Paid(day))
            /\ SumFunctionOnSet(taxes, Paid(day) \union {e}) = tax + SumFunctionOnSet(taxes, Paid(day))
        <4>1. \A p \in Paid(day) \union {e} : gross[p] \in Int /\ taxes[p] \in Int
          BY <1>4, <3>4, <3>5
        <4> QED
          BY <3>4, <3>5, <3>6, <4>1, SumAdd
      <3>8. (IF day = today THEN tax ELSE 0) - Cash(BookedAs("tax", day))'
              = SumFunctionOnSet(taxes, Paid(day)')
        <4>1. CASE day = today
          BY <1>5, <3>1, <3>2, <3>3, <3>7, <4>1
        <4>2. CASE day # today
          BY <3>1, <3>2, <3>3, <4>2
        <4> QED
          BY <4>1, <4>2
      <3>9. Cash(BookedAs("dividend", day))' = SumFunctionOnSet(gross, Paid(day)')
        BY <3>1, <3>2, <3>3, <3>7
      <3> QED
        BY <3>8, <3>9 DEF gross, taxes
    <2> QED
      BY <1>1, <1>2, <1>3, <1>9, <2>1, <2>2 DEF DividendsKept
  <1> QED
    BY <1>10, <1>11, <1>12, <1>13 DEF DayInv

\* What neither pays nor earns a dividend leaves the dividends as they were.
LEMMA DividendsStay ==
    ASSUME DividendsKept, UNCHANGED <<entitlements, earned, today, owed>>,
           phase' = "paying" <=> phase = "paying",
           \A day \in Days : /\ Cash(BookedAs("dividend", day))' = Cash(BookedAs("dividend", day))
                             /\ Cash(BookedAs("tax", day))' = Cash(BookedAs("tax", day))
    PROVE  DividendsKept'
  <1>1. \A day : Paid(day)' = Paid(day)
    BY DEF Paid
  <1> QED
    BY <1>1 DEF DividendsKept

\* The tax of a dividend comes off what is settled, and off what is owed.
LEMMA PayTaxKeeps ==
    ASSUME DayInv, PayTax
    PROVE  DayInv'
  <1>1. Types /\ CashOnHand /\ OrdersKept /\ DividendsKept
    BY DEF DayInv
  <1>2. /\ phase = "paying" /\ owed \in Nat \ {0} /\ owed' = 0
        /\ Charge("tax", owed, today, today)
        /\ UNCHANGED <<broker, phase, entitlements, frozen, bar, closes, units, halt, events, worth, earned>>
    BY <1>1 DEF PayTax, Types
  <1>3. today \in Days /\ today \in Nat /\ Consistent /\ "tax" \in Kind /\ "tax" # "sell"
    BY <1>1, <1>2 DEF Types, Days, Kind
  <1>4. Book("tax", -owed, today, today) /\ UNCHANGED positions /\ -owed \in Int /\ ~ (-owed >= 0)
    BY <1>2 DEF Charge, BookCash
  <1>5. Consistent'
    BY <1>3, <1>4, CashBookingKeeps
  <1>6. UNCHANGED <<today, pending, session>>
    BY <1>2 DEF broker
  <1>7. Types'
    BY <1>1, <1>2, <1>5, <1>6 DEF Types
  <1>8. CashOnHand'
    <2>1. ASSUME NEW d \in Nat, d >= today PROVE 0 <= Settled(d)'
      <3>1. Settled(d)' = -owed + Settled(d)
        BY <1>3, <1>4, <2>1, Moves
      <3>2. Settled(d) \in Int /\ owed <= Settled(d)
        BY <1>1, <1>3, <2>1, CashRead DEF CashOnHand
      <3> QED
        BY <1>2, <3>1, <3>2
    <2> QED
      BY <1>2, <1>6, <2>1 DEF CashOnHand
  <1>9. OrdersKept'
    BY <1>1, <1>2, <1>4, <1>6 DEF OrdersKept, SoldOnce, SalesAreCovered
  <1>10. DividendsKept'
    <2>1. \A day : Paid(day)' = Paid(day)
      BY <1>2 DEF Paid
    <2>2. ASSUME NEW day \in Days
          PROVE  /\ Cash(BookedAs("dividend", day))'
                      = SumFunctionOnSet([p \in earned |-> p.gross], Paid(day)')
                 /\ (IF day = today THEN 0 ELSE 0) - Cash(BookedAs("tax", day))'
                      = SumFunctionOnSet([p \in earned |-> DividendTax(p.gross)], Paid(day)')
      <3>1. /\ Cash(BookedAs("dividend", day))
                 = SumFunctionOnSet([p \in earned |-> p.gross], Paid(day))
            /\ (IF day = today THEN owed ELSE 0) - Cash(BookedAs("tax", day))
                 = SumFunctionOnSet([p \in earned |-> DividendTax(p.gross)], Paid(day))
        BY <1>1 DEF DividendsKept
      <3>2. /\ Cash(BookedAs("tax", day)) \in Int
            /\ Cash(BookedAs("tax", day))' = IF day = today THEN -owed + Cash(BookedAs("tax", day))
                                             ELSE Cash(BookedAs("tax", day))
        BY <1>3, <1>4, BookedMore
      <3>3. "dividend" \in Kind
        BY DEF Kind
      <3>4. Cash(BookedAs("dividend", day))' = Cash(BookedAs("dividend", day))
        BY <1>3, <1>4, <3>3, BookedMore
      <3>5. 0 - Cash(BookedAs("tax", day))' = (IF day = today THEN owed ELSE 0) - Cash(BookedAs("tax", day))
        BY <1>2, <3>2
      <3> QED
        BY <2>1, <3>1, <3>4, <3>5
    <2> QED
      BY <1>1, <1>2, <1>6, <2>2 DEF DividendsKept
  <1> QED
    BY <1>7, <1>8, <1>9, <1>10 DEF DayInv

\* The day's charge is nothing before anything is traded.
LEMMA NoChargeYet == DailyCost(0) = 0
  BY MarketConstants DEF DailyCost

\* The market opens once every dividend due is paid.
LEMMA OpenMarketKeeps ==
    ASSUME DayInv, OpenMarket
    PROVE  DayInv'
  <1>1. Types /\ CashOnHand /\ OrdersKept /\ DividendsKept
    BY DEF DayInv
  <1>2. /\ phase = "paying" /\ phase' = "filling" /\ owed = 0 /\ ~Due
        /\ bar' \in [Stock -> Price \union {NoBar}] /\ session' = [Closed EXCEPT !.running = TRUE]
        /\ UNCHANGED <<portfolio, today, pending, entitlements, owed, closes, earned>>
    BY DEF OpenMarket
  <1>3. session' = [running |-> TRUE, traded |-> 0, proceeds |-> 0, bought |-> FALSE]
    BY <1>2 DEF Closed
  <1>4. UNCHANGED <<positions, ledger, balance, open>> /\ today \in Days /\ today \in Nat
    BY <1>1, <1>2 DEF portfolio, Types, Days
  <1>5. Consistent'
    BY <1>1, <1>4, CashSame DEF Types
  <1>6. Types'
    <2>1. session' \in Sessions /\ session'.running
      BY <1>3 DEF Sessions
    <2> QED
      BY <1>1, <1>2, <1>4, <1>5, <2>1 DEF Types, Phase
  <1>7. CashOnHand'
    <2>1. Free(today) \in Int
      BY <1>1, <1>4, CashRead DEF Types
    <2>2. \A d \in Nat : Settled(d)' = Settled(d) /\ Free(d)' = Free(d)
      BY <1>4, CashSame
    <2>3. ASSUME NEW d \in Nat, d >= today + Lag PROVE Free(today) + 0 <= Settled(d)
      <3>1. today <= d
        BY <1>4, <2>3, PortfolioConstants
      <3> QED
        BY <1>1, <1>4, <2>1, <3>1, FreeIsSettled DEF Types
    <2>4. Free(today)' = Free(today)
      BY <1>2, <1>4, CashSame
    <2>5. ChargeHeldBack'
      BY <1>2, <1>3, <2>2, <2>3, <2>4, NoChargeYet DEF ChargeHeldBack
    <2> QED
      BY <1>1, <1>2, <2>2, <2>5 DEF CashOnHand
  <1>8. OrdersKept'
    BY <1>1, <1>2, <1>4 DEF OrdersKept, SoldOnce, SalesAreCovered
  <1>9. DividendsKept'
    <2>1. \A e \in ToSet(entitlements) : e.payDate > today
      <3>1. SUFFICES ASSUME NEW e \in ToSet(entitlements) PROVE e.payDate > today
        OBVIOUS
      <3>2. entitlements \in Seq(Earnings) /\ InTurn(entitlements)
        BY <1>1 DEF Types, DividendsKept
      <3>3. entitlements # <<>>
        BY DEF ToSet
      <3>4. /\ Head(entitlements).payDate <= e.payDate
            /\ Head(entitlements) \in Earnings /\ e \in Earnings
        BY <3>2, <3>3, QueueRest, QueueFinite
      <3>5. ~ (Head(entitlements).payDate <= today)
        BY <1>2, <3>3 DEF Due
      <3>6. Head(entitlements).payDate \in Nat /\ e.payDate \in Nat
        BY <3>4 DEF Earnings
      <3> QED
        BY <1>4, <3>4, <3>5, <3>6
    <2>2. \A day : Paid(day)' = Paid(day)
      BY <1>2 DEF Paid
    <2>3. \A kind, day : Cash(BookedAs(kind, day))' = Cash(BookedAs(kind, day))
      BY <1>4, CashSame
    <2> QED
      BY <1>1, <1>2, <2>1, <2>2, <2>3 DEF DividendsKept
  <1> QED
    BY <1>6, <1>7, <1>8, <1>9 DEF DayInv

\* A step inside the day that books neither dividend nor tax leaves the dividends as they were.
LEMMA OtherBookings ==
    ASSUME DividendsKept, UNCHANGED <<entitlements, earned, today, owed>>,
           phase' = "paying" <=> phase = "paying", Consistent,
           NEW kind \in Kind \ {"dividend", "tax"}, NEW amount \in Int, today \in Days,
           NEW settles \in Days \union 1..MaxDay + Lag, Book(kind, amount, today, settles)
    PROVE  DividendsKept'
  <1>1. ASSUME NEW day \in Days
        PROVE  /\ Cash(BookedAs("dividend", day))' = Cash(BookedAs("dividend", day))
               /\ Cash(BookedAs("tax", day))' = Cash(BookedAs("tax", day))
    <2>1. "dividend" \in Kind /\ "tax" \in Kind /\ kind \in Kind
      BY DEF Kind
    <2> QED
      BY <2>1, BookedMore
  <1> QED
    BY <1>1, DividendsStay

\* A purchase leaves enough settled on every day, and the day's charge held back.
LEMMA PurchaseKeeps ==
    ASSUME DayInv, NEW o \in pending, Fill(o), o.side = "buy", Purchase(o)
    PROVE  DayInv'
  <1>1. Types /\ CashOnHand /\ OrdersKept /\ DividendsKept
    BY DEF DayInv
  <1>2. /\ o \in Orders /\ phase = "filling" /\ today \in Days /\ session \in Sessions
        /\ pending' = pending \ {o} /\ today' = today /\ UNCHANGED engine
        /\ \A p \in pending : p.side = "buy"
    BY <1>1, FillTrades
  <1>3. PICK lots, gross \in Nat \ {0}, cost \in Nat \ {0} :
              /\ Consistent'
              /\ Buy(o.stock, lots, cost, today)
              /\ Book("buy", -cost, today, today)
              /\ session' = [session EXCEPT !.traded = @ + gross, !.bought = TRUE]
              /\ session' \in Sessions /\ session'.traded = session.traded + gross
              /\ session'.bought = TRUE /\ session'.proceeds = session.proceeds
              /\ cost + DailyCost(session'.traded) <= Free(today)
              /\ \A d \in Nat : d >= today => /\ Free(d)' = Free(d) - cost
                                              /\ Settled(d)' = Settled(d) - cost
    BY <1>1, <1>2, PurchaseBooks
  <1>4. /\ UNCHANGED <<phase, entitlements, owed, bar, closes, earned>>
        /\ session'.running = session.running /\ today \in Nat /\ Consistent
        /\ positions \in [Stock -> Position]
    BY <1>1, <1>2, <1>3 DEF engine, Sessions, Types, Days, Consistent, PortfolioTypeOK
  <1>5. Types'
    BY <1>1, <1>2, <1>3, <1>4 DEF Types
  <1>6. Free(today) \in Int /\ DailyCost(session'.traded) \in Nat /\ session.proceeds \in Nat
    BY <1>2, <1>3, <1>4, CashRead, MarketConstants DEF DailyCost, Sessions
  <1>7. Free(today)' = Free(today) - cost
    BY <1>2, <1>3, <1>4
  <1>8. ASSUME NEW d \in Nat, d >= today PROVE 0 <= Settled(d)'
    <2>1. Free(today) <= Settled(d) /\ Settled(d) \in Int
      BY <1>4, <1>8, CashRead, FreeIsSettled
    <2> QED
      BY <1>3, <1>6, <1>8, <2>1
  <1>9. ChargeHeldBack'
    <2>1. DailyCost(session'.traded) <= Free(today)'
      BY <1>3, <1>6, <1>7
    <2>2. DailyCost(session'.traded) <= Free(today)' + session'.proceeds
      BY <1>3, <1>6, <1>7, <2>1
    <2>3. ASSUME NEW d \in Nat, d >= today + Lag PROVE Free(today)' + session'.proceeds <= Settled(d)'
      <3>1. d >= today
        BY <1>4, <2>3, PortfolioConstants
      <3>2. Free(today) + session.proceeds <= Settled(d) /\ Settled(d) \in Int
        BY <1>1, <1>2, <1>4, <2>3, CashRead DEF CashOnHand, ChargeHeldBack
      <3>3. Settled(d)' = Settled(d) - cost
        BY <1>3, <3>1
      <3> QED
        BY <1>3, <1>6, <1>7, <3>2, <3>3
    <2>4. \A p \in pending' : p.side = "buy"
      BY <1>2
    <2> QED
      BY <1>2, <2>1, <2>2, <2>3, <2>4 DEF ChargeHeldBack
  <1>10. CashOnHand'
    <2>1. owed' = 0
      BY <1>1, <1>2, <1>4 DEF Types
    <2> QED
      BY <1>2, <1>8, <1>9, <2>1 DEF CashOnHand
  <1>11. OrdersKept'
    BY <1>1, <1>2, <1>4 DEF OrdersKept, SoldOnce, SalesAreCovered
  <1>12. DividendsKept'
    <2>1. "buy" \in Kind \ {"dividend", "tax"} /\ -cost \in Int
      BY <1>3 DEF Kind
    <2> QED
      BY <1>1, <1>2, <1>3, <1>4, <2>1, OtherBookings
  <1> QED
    BY <1>5, <1>10, <1>11, <1>12 DEF DayInv

\* A sale too, though its proceeds settle later, and takes nothing another order sells.
LEMMA SaleKeeps ==
    ASSUME DayInv, NEW o \in pending, Fill(o), o.side = "sell", Sale(o)
    PROVE  DayInv'
  <1>1. Types /\ CashOnHand /\ OrdersKept /\ DividendsKept
    BY DEF DayInv
  <1>2. /\ o \in Orders /\ phase = "filling" /\ today \in Days /\ session \in Sessions
        /\ pending' = pending \ {o} /\ today' = today /\ UNCHANGED engine
    BY <1>1, FillTrades
  <1>3. PICK quantity \in 1..o.quantity, gross \in Nat \ {0}, proceeds \in Nat :
              /\ Consistent'
              /\ Sell(o.stock, quantity, proceeds, today, today + Lag)
              /\ Book("sell", proceeds, today, today + Lag)
              /\ session' \in Sessions /\ session'.traded = session.traded + gross
              /\ session'.bought = session.bought
              /\ session'.proceeds = session.proceeds + proceeds
              /\ session'.running = session.running
              /\ DailyCost(session'.traded) <= Free(today) + session'.proceeds
              /\ Free(today)' = Free(today)
              /\ \A d \in Nat : Settled(d)' = IF today + Lag <= d THEN proceeds + Settled(d) ELSE Settled(d)
    BY <1>1, <1>2, SaleBooks
  <1>4. /\ UNCHANGED <<phase, entitlements, owed, bar, closes, earned>>
        /\ today \in Nat /\ Consistent
        /\ positions \in [Stock -> Position] /\ session.proceeds \in Nat
        /\ today + Lag \in Nat
    BY <1>1, <1>2, PortfolioConstants DEF engine, Sessions, Types, Days, Consistent, PortfolioTypeOK
  <1>5. Types'
    BY <1>1, <1>2, <1>3, <1>4 DEF Types
  <1>6. ~ session.bought
    BY <1>1, <1>2 DEF CashOnHand, ChargeHeldBack
  <1>7. \A d \in Nat : Settled(d) \in Int /\ Settled(d)' \in Int /\ Settled(d) <= Settled(d)'
    BY <1>3, <1>4, CashRead
  <1>8. ChargeHeldBack'
    <2>1. ASSUME NEW d \in Nat, d >= today + Lag PROVE Free(today)' + session'.proceeds <= Settled(d)'
      <3>1. Free(today) + session.proceeds <= Settled(d)
        BY <1>1, <1>2, <2>1 DEF CashOnHand, ChargeHeldBack
      <3>2. Settled(d)' = proceeds + Settled(d)
        BY <1>3, <1>4, <2>1
      <3>3. Free(today) \in Int
        BY <1>4, CashRead
      <3> QED
        BY <1>3, <1>4, <1>7, <3>1, <3>2, <3>3
    <2>2. ~ session'.bought
      BY <1>3, <1>6
    <2> QED
      BY <1>2, <1>3, <2>1, <2>2 DEF ChargeHeldBack
  <1>9. CashOnHand'
    <2>1. owed' = owed /\ owed = 0
      BY <1>1, <1>2, <1>4 DEF Types
    <2>2. \A d \in Nat : d >= today => 0 <= Settled(d)'
      BY <1>1, <1>7, <2>1 DEF CashOnHand
    <2> QED
      BY <1>2, <1>8, <2>1, <2>2 DEF CashOnHand
  <1>10. OrdersKept'
    <2>1. \A s : s # o.stock => positions'[s] = positions[s]
      BY <1>3, <1>4 DEF Sell
    <2>2. \A p \in pending' : p.side = "sell" => p.stock # o.stock
      BY <1>1, <1>2 DEF OrdersKept, SoldOnce
    <2> QED
      BY <1>1, <1>2, <1>4, <2>1, <2>2 DEF OrdersKept, SoldOnce, SalesAreCovered
  <1>11. DividendsKept'
    <2>1. "sell" \in Kind \ {"dividend", "tax"} /\ proceeds \in Int /\ today + Lag \in 1..MaxDay + Lag
      BY <1>2, <1>3, PortfolioConstants DEF Kind, Days
    <2> QED
      BY <1>1, <1>2, <1>3, <1>4, <2>1, OtherBookings
  <1> QED
    BY <1>5, <1>9, <1>10, <1>11 DEF DayInv

\* Every fill keeps the invariant.
LEMMA FillKeeps ==
    ASSUME DayInv, NEW o \in pending, Fill(o)
    PROVE  DayInv'
  <1>1. Types /\ CashOnHand /\ OrdersKept /\ DividendsKept
    BY DEF DayInv
  <1>2. /\ phase = "filling" /\ today \in Days
        /\ pending' = pending \ {o} /\ today' = today /\ UNCHANGED engine
        /\ \/ UNCHANGED <<portfolio, session>>
           \/ o.side = "buy" /\ Purchase(o)
           \/ o.side = "sell" /\ Sale(o)
    BY <1>1, FillTrades
  <1>3. CASE UNCHANGED <<portfolio, session>>
    <2>1. /\ UNCHANGED <<positions, ledger, balance, open, session>>
          /\ UNCHANGED <<phase, entitlements, owed, bar, closes, earned>>
      BY <1>2, <1>3 DEF portfolio, engine
    <2>2. /\ Consistent'
          /\ \A d : Settled(d)' = Settled(d) /\ Free(d)' = Free(d)
          /\ \A kind, day : Cash(BookedAs(kind, day))' = Cash(BookedAs(kind, day))
      BY <1>1, <2>1, CashSame DEF Types
    <2>3. Types'
      BY <1>1, <1>2, <2>1, <2>2 DEF Types
    <2>4. CashOnHand'
      <3>1. Free(today)' = Free(today)
        BY <1>2, <2>1, CashSame
      <3> QED
        BY <1>1, <1>2, <2>1, <2>2, <3>1 DEF CashOnHand, ChargeHeldBack
    <2>5. OrdersKept'
      BY <1>1, <1>2, <2>1 DEF OrdersKept, SoldOnce, SalesAreCovered
    <2>6. DividendsKept'
      BY <1>1, <1>2, <2>1, <2>2, DividendsStay
    <2> QED
      BY <2>3, <2>4, <2>5, <2>6 DEF DayInv
  <1> QED
    BY <1>2, <1>3, PurchaseKeeps, SaleKeeps

\* The day's charge is paid, from what was held back for it.
LEMMA CloseSessionKeeps ==
    ASSUME DayInv, CloseSession
    PROVE  DayInv'
  <1>0. PICK due, settles : due = DailyCost(session.traded) /\ settles = ChargeSettles(session.bought)
    OBVIOUS
  <1>k. PICK kind : kind = "daily cost"
    OBVIOUS
  <1>1. Types /\ CashOnHand /\ OrdersKept /\ DividendsKept
    BY DEF DayInv
  <1>2. /\ phase = "filling" /\ phase' = "valuing" /\ pending = {} /\ session' = Closed
        /\ UNCHANGED <<today, pending, entitlements, owed, bar, closes, earned>>
        /\ IF due > 0 THEN Charge(kind, due, today, settles) ELSE UNCHANGED portfolio
    BY <1>0, <1>k DEF CloseSession, CloseDay
  <1>3. /\ today \in Days /\ today \in Nat /\ Consistent /\ due \in Nat /\ owed = 0
        /\ settles \in Days \union 1..MaxDay + Lag /\ settles \in Nat
        /\ (settles = today /\ session.bought) \/ (settles = today + Lag /\ ~ session.bought)
        /\ session \in Sessions
    <2>1. today \in Days /\ today \in Nat /\ Consistent /\ owed = 0 /\ session \in Sessions
      <3>1. phase = "filling"
        BY <1>2
      <3> QED
        BY <1>1, <3>1 DEF Types, Days
    <2>2. due \in Nat
      BY <1>0, MarketConstants DEF DailyCost
    <2>3. (settles = today /\ session.bought) \/ (settles = today + Lag /\ ~ session.bought)
      BY <1>0, <2>1 DEF ChargeSettles, Sessions
    <2>4. today + Lag \in 1..MaxDay + Lag /\ today + Lag \in Nat
      BY <2>1, PortfolioConstants DEF Days
    <2> QED
      BY <2>1, <2>2, <2>3, <2>4
  <1>4. /\ Consistent' /\ UNCHANGED positions /\ DividendsKept'
        /\ \A d \in Nat : d >= today => 0 <= Settled(d)'
    <2>1. CASE due > 0
      <3>1. Book(kind, -due, today, settles) /\ UNCHANGED positions
        <4>1. Charge(kind, due, today, settles)
          BY <1>2, <2>1
        <4>2. due \in Nat /\ -1 * due = -due
          BY <1>3
        <4> QED
          BY <4>1, <4>2 DEF Charge, BookCash
      <3>2. /\ kind \in Kind \ {"dividend", "tax"} /\ kind # "sell" /\ kind \in Kind
            /\ -due \in Int /\ ~ (-due >= 0)
        <4>1. kind \in Kind \ {"dividend", "tax"} /\ kind # "sell"
          BY <1>k DEF Kind
        <4> QED
          BY <1>3, <2>1, <4>1
      <3>3. Consistent'
        BY <1>3, <3>1, <3>2, CashBookingKeeps
      <3>4. DividendsKept'
        BY <1>1, <1>2, <1>3, <3>1, <3>2, OtherBookings
      <3>5. ASSUME NEW d \in Nat, d >= today PROVE 0 <= Settled(d)'
        <4>1. Settled(d)' = IF settles <= d THEN -due + Settled(d) ELSE Settled(d)
          BY <1>3, <3>1, <3>2, Moves
        <4>2. Settled(d) \in Int /\ Free(today) \in Int /\ Free(today) <= Settled(d)
          BY <1>3, <3>5, CashRead, FreeIsSettled
        <4>3. 0 <= Settled(d)
          BY <1>1, <1>3, <3>5 DEF CashOnHand
        <4>4. ASSUME settles <= d PROVE due <= Settled(d)
          <5>1. CASE session.bought
            <6>1. due <= Free(today)
              BY <1>0, <1>1, <1>2, <5>1 DEF CashOnHand, ChargeHeldBack
            <6> QED
              BY <1>3, <4>2, <6>1
          <5>2. CASE ~ session.bought
            <6>1. due <= Free(today) + session.proceeds /\ Free(today) + session.proceeds <= Settled(d)
              BY <1>0, <1>1, <1>2, <1>3, <2>1, <4>4, <5>2 DEF CashOnHand, ChargeHeldBack
            <6>2. session.proceeds \in Nat
              BY <1>3 DEF Sessions
            <6> QED
              BY <1>3, <4>2, <6>1, <6>2
          <5> QED
            BY <5>1, <5>2
        <4> QED
          BY <1>3, <4>1, <4>2, <4>3, <4>4
      <3> QED
        BY <3>1, <3>3, <3>4, <3>5
    <2>2. CASE ~ (due > 0)
      <3>1. UNCHANGED <<positions, ledger, balance, open>>
        BY <1>2, <2>2 DEF portfolio
      <3>2. /\ Consistent' /\ \A d : Settled(d)' = Settled(d)
            /\ \A of, day : Cash(BookedAs(of, day))' = Cash(BookedAs(of, day))
        BY <1>3, <3>1, CashSame
      <3>3. DividendsKept'
        BY <1>1, <1>2, <3>2, DividendsStay
      <3> QED
        BY <1>1, <1>3, <3>1, <3>2, <3>3 DEF CashOnHand
    <2> QED
      BY <2>1, <2>2
  <1>5. Types'
    <2>1. session' \in Sessions /\ ~ session'.running
      BY <1>2 DEF Sessions, Closed
    <2> QED
      BY <1>1, <1>2, <1>3, <1>4, <2>1 DEF Types, Phase
  <1>6. CashOnHand'
    BY <1>2, <1>3, <1>4 DEF CashOnHand
  <1>7. OrdersKept'
    BY <1>1, <1>2, <1>4 DEF OrdersKept, SoldOnce, SalesAreCovered
  <1> QED
    BY <1>4, <1>5, <1>6, <1>7 DEF DayInv

\* The account is valued at today's closes, and a deposit only adds to what is settled.
LEMMA RevalueKeeps ==
    ASSUME DayInv, Revalue
    PROVE  DayInv'
  <1>1. Types /\ CashOnHand /\ OrdersKept /\ DividendsKept
    BY DEF DayInv
  <1>2. /\ phase = "valuing" /\ phase' = "deciding" /\ closes' = Closes
        /\ UNCHANGED <<broker, entitlements, owed, bar, earned>>
        /\ UNCHANGED portfolio \/ Deposit(Contribution, today)
    BY DEF Revalue, TopUp
  <1>3. UNCHANGED <<today, pending, session>>
    BY <1>2 DEF broker
  <1>4. today \in Days /\ today \in Nat /\ Consistent /\ owed = 0
    BY <1>1, <1>2 DEF Types, Days
  <1>5. /\ Consistent' /\ UNCHANGED positions /\ DividendsKept'
        /\ \A d \in Nat : d >= today => 0 <= Settled(d)'
    <2>1. CASE UNCHANGED portfolio
      <3>1. UNCHANGED <<positions, ledger, balance, open>>
        BY <2>1 DEF portfolio
      <3>2. /\ Consistent' /\ \A d : Settled(d)' = Settled(d)
            /\ \A kind, day : Cash(BookedAs(kind, day))' = Cash(BookedAs(kind, day))
        BY <1>4, <3>1, CashSame
      <3>3. DividendsKept'
        BY <1>1, <1>2, <1>3, <3>2, DividendsStay
      <3> QED
        BY <1>1, <1>4, <3>1, <3>2, <3>3 DEF CashOnHand
    <2>2. CASE Deposit(Contribution, today)
      <3>1. Contribution \in Nat \ {0}
        BY EngineConstants
      <3>2. Book("deposit", Contribution, today, today) /\ UNCHANGED positions
        BY <2>2, <3>1 DEF Deposit, BookCash
      <3>3. "deposit" \in Kind \ {"dividend", "tax"} /\ "deposit" # "sell" /\ Contribution \in Int
        BY <3>1 DEF Kind
      <3>4. Consistent'
        BY <1>4, <3>2, <3>3, CashBookingKeeps
      <3>5. DividendsKept'
        BY <1>1, <1>2, <1>3, <1>4, <3>2, <3>3, OtherBookings
      <3>6. ASSUME NEW d \in Nat, d >= today PROVE 0 <= Settled(d)'
        <4>1. Settled(d)' = Contribution + Settled(d)
          BY <1>4, <3>2, <3>3, <3>6, Moves
        <4>2. Settled(d) \in Int /\ 0 <= Settled(d)
          BY <1>1, <1>4, <3>6, CashRead DEF CashOnHand
        <4> QED
          BY <3>1, <4>1, <4>2
      <3> QED
        BY <3>2, <3>4, <3>5, <3>6
    <2> QED
      BY <1>2, <2>1, <2>2
  <1>6. Types'
    <2>1. bar \in [Stock -> Price \union {NoBar}] /\ closes \in [Stock -> Nat \union {NoBar}]
      BY <1>1 DEF Types
    <2>2. closes' = [s \in Stock |-> IF ~Held(s) THEN NoBar ELSE IF bar[s] # NoBar THEN bar[s] ELSE closes[s]]
      BY <1>2 DEF Closes
    <2>3. closes' \in [Stock -> Nat \union {NoBar}]
      BY <2>1, <2>2, MarketConstants
    <2>4. \A s \in Stock : Held(s)' /\ bar'[s] # NoBar => closes'[s] = bar'[s]
      BY <1>2, <1>5, <2>2 DEF Held
    <2> QED
      BY <1>1, <1>2, <1>3, <1>4, <1>5, <2>3, <2>4 DEF Types, Phase
  <1>7. CashOnHand'
    BY <1>2, <1>3, <1>4, <1>5 DEF CashOnHand
  <1>8. OrdersKept'
    BY <1>1, <1>2, <1>3, <1>5 DEF OrdersKept, SoldOnce, SalesAreCovered
  <1> QED
    BY <1>5, <1>6, <1>7, <1>8 DEF DayInv

-----------------------------------------------------------------------------
(* The decision keeps it: what is ordered can be carried out.              *)

\* What is ordered is counted at closes that are prices.
LEMMA ClosesArePrices ==
    ASSUME Types, phase = "deciding"
    PROVE  /\ Value(closes) \in Int
           /\ \A s \in Stock : Worth(s, closes) \in Int /\ positions[s].quantity \in Nat
           /\ \A s \in Tradable : LastClose(s) \in Nat \ {0}
  <1>1. /\ positions \in [Stock -> Position] /\ closes \in [Stock -> Nat \union {NoBar}]
        /\ bar \in [Stock -> Price \union {NoBar}] /\ balance \in Int
    BY DEF Types, Consistent, PortfolioTypeOK
  <1>2. \A s \in Stock : closes[s] \in Int /\ positions[s].quantity \in Nat
    BY <1>1 DEF NoBar, Position
  <1>3. \A s \in Stock : Worth(s, closes) \in Int
    BY <1>2 DEF Worth
  <1>4. Value(closes) \in Int
    <2> DEFINE f == [s \in Stock |-> Worth(s, closes)]
    <2>1. \A s \in Stock : f[s] \in Int
      BY <1>3
    <2> HIDE DEF f
    <2>2. SumFunctionOnSet(f, Stock) \in Int
      BY <2>1, StocksFinite, SumInt
    <2> QED
      BY <1>1, <2>2 DEF Value, HoldingsValue, f
  <1>5. ASSUME NEW s \in Tradable PROVE LastClose(s) \in Nat \ {0}
    <2>1. s \in Stock /\ bar[s] # NoBar /\ bar[s] \in Price
      BY <1>1 DEF Tradable
    <2>2. LastClose(s) = bar[s]
      BY <2>1 DEF LastClose, Types
    <2> QED
      BY <2>1, <2>2, MarketConstants
  <1> QED
    BY <1>2, <1>3, <1>4, <1>5

\* What the sizer wants is a number of shares, and of those sold no more than are held.
LEMMA WantedIsHeld ==
    ASSUME Types, phase = "deciding", NEW weights \in [Stock -> Weights], NEW s \in Tradable
    PROVE  /\ Wanted(weights, s) \in Int
           /\ Wanted(weights, s) < 0 => -Wanted(weights, s) <= positions[s].quantity
  <1> DEFINE price == LastClose(s)
             gap == Target(weights, s) - Worth(s, closes)
             held == positions[s].quantity
  <1>1. /\ s \in Stock /\ price \in Nat \ {0} /\ held \in Nat
        /\ Worth(s, closes) \in Int /\ Value(closes) \in Int
    BY ClosesArePrices DEF Tradable
  <1>2. Target(weights, s) \in Int
    <2>1. weights[s] \in Int
      <3>1. weights[s] \in Weights
        BY <1>1
      <3>2. Weights \subseteq Int
        BY EngineConstants
      <3> QED
        BY <3>1, <3>2
    <2>2. Value(closes) * weights[s] \in Int
      BY <1>1, <2>1
    <2> QED
      BY <2>2 DEF Target
  <1>3. gap \in Int
    BY <1>1, <1>2
  <1>4. Wanted(weights, s) = IF gap < 0 THEN -Min({(-gap) \div price, held}) ELSE gap \div price
    BY DEF Wanted
  <1> HIDE DEF gap, price, held
  <1>5. gap \div price \in Int /\ (-gap) \div price \in Int /\ held \in Int
    BY <1>1, <1>3
  <1>6. /\ Min({(-gap) \div price, held}) \in {(-gap) \div price, held}
        /\ Min({(-gap) \div price, held}) <= held
    BY <1>5, LessOf
  <1>7. ASSUME gap < 0 PROVE Wanted(weights, s) \in Int /\ -Wanted(weights, s) <= held
    <2>1. Min({(-gap) \div price, held}) \in Int
      BY <1>1, <1>5, <1>6
    <2> QED
      BY <1>4, <1>6, <1>7, <2>1
  <1>8. ASSUME ~ (gap < 0) PROVE Wanted(weights, s) \in Nat
    <2>1. gap \in Nat
      BY <1>3, <1>8
    <2>2. gap \div price \in Nat
      BY <1>1, <2>1, DivisionBound
    <2> QED
      BY <1>4, <1>8, <2>2
  <1> QED
    BY <1>7, <1>8 DEF held

\* A buy is for some lots within the stock's room, or none, and its cost within the budget.
LEMMA BoughtFits ==
    ASSUME Types, phase = "deciding", NEW weights \in [Stock -> Weights],
           NEW buyable \in SUBSET Tradable, NEW s \in Stock, NEW budget \in Nat
    PROVE  LET bought == Bought(weights, buyable, s, budget)
           IN /\ bought \in Nat
              /\ Left(bought, LastClose(s), budget) \in Nat
              /\ bought > 0 =>
                   /\ s \in Tradable /\ bought <= Room(s)
                   /\ Cost(bought, LastClose(s)) \in Nat
                   /\ Left(bought, LastClose(s), budget) = budget - Cost(bought, LastClose(s))
  <1> DEFINE bought == Bought(weights, buyable, s, budget)
             quantity == Min({Wanted(weights, s), Room(s)})
  <1>1. CASE ~ (s \in buyable /\ Wanted(weights, s) > 0)
    BY <1>1 DEF Bought, Left
  <1>2. CASE s \in buyable /\ Wanted(weights, s) > 0
    <2>1. s \in Tradable /\ LastClose(s) \in Nat \ {0} /\ Wanted(weights, s) \in Int
      BY <1>2, ClosesArePrices, WantedIsHeld
    <2>2. Room(s) \in Int
      <3>1. Value(closes) \in Int /\ Worth(s, closes) \in Int /\ MaxWeight \in Int
        BY ClosesArePrices, EngineConstants
      <3>2. (Value(closes) * MaxWeight) \div 100 \in Int
        <4>1. Value(closes) * MaxWeight \in Int
          BY <3>1
        <4> QED
          BY <4>1
      <3>3. ((Value(closes) * MaxWeight) \div 100 - Worth(s, closes)) \div LastClose(s) \in Int
        BY <2>1, <3>1, <3>2
      <3> QED
        BY <3>3, AtLeastNothing DEF Room
    <2>3. quantity \in Int /\ quantity <= Room(s)
      <3>1. quantity \in {Wanted(weights, s), Room(s)} /\ quantity <= Room(s)
        BY <2>1, <2>2, LessOf
      <3> QED
        BY <2>1, <2>2, <3>1
    <2>4. bought = Affordable(quantity, LastClose(s), budget)
      BY <1>2 DEF Bought
    <2> HIDE DEF quantity, bought
    <2>5. /\ bought \in Nat
          /\ bought > 0 => bought <= quantity /\ Cost(bought, LastClose(s)) <= budget
          /\ bought > 0 => Cost(bought, LastClose(s)) \in Nat
      <3>1. budget \in Int /\ quantity \in Int /\ LastClose(s) \in Nat \ {0}
        BY <2>1, <2>3
      <3> QED
        BY <2>4, <3>1, AffordableFits
    <2>6. CASE bought = 0
      BY <2>6 DEF Left, bought
    <2>7. CASE bought > 0
      <3>1. Left(bought, LastClose(s), budget) = budget - Cost(bought, LastClose(s))
        BY <2>7 DEF Left
      <3>2. bought <= Room(s)
        BY <2>2, <2>3, <2>5, <2>7
      <3> QED
        BY <2>1, <2>5, <2>7, <3>1, <3>2 DEF bought
    <2> QED
      BY <2>5, <2>6, <2>7
  <1> QED
    BY <1>1, <1>2

\* What is bought within a stock's room leaves it within its limit.
LEMMA RoomIsLimit ==
    ASSUME Types, phase = "deciding", NEW s \in Tradable, NEW q \in Nat \ {0}, q <= Room(s)
    PROVE  (Worth(s, closes) + q * LastClose(s)) * 100 <= Value(closes) * MaxWeight
  <1> DEFINE value == Value(closes) * MaxWeight
             cap == value \div 100
             worth0 == Worth(s, closes)
             price == LastClose(s)
             lots == (cap - worth0) \div price
  <1>1. s \in Stock /\ value \in Int /\ worth0 \in Int /\ price \in Nat \ {0}
    BY ClosesArePrices, EngineConstants DEF Tradable
  <1>2. Room(s) = Max({lots, 0})
    BY DEF Room
  <1> HIDE DEF value, worth0, price
  <1>3. cap \in Int /\ cap * 100 <= value
    BY <1>1
  <1> HIDE DEF cap
  <1>4. lots \in Int /\ price * lots <= cap - worth0
    BY <1>1, <1>3
  <1> HIDE DEF lots
  <1>5. q <= lots
    BY <1>2, <1>4, AtLeastNothing
  <1>6. price * q <= price * lots
    <2>1. PICK d \in Nat : lots = q + d
      <3>1. lots - q \in Nat
        BY <1>4, <1>5
      <3> QED
        BY <1>4, <3>1
    <2>2. price * lots = price * q + price * d /\ price * d \in Nat /\ price * q \in Nat
      BY <1>1, <2>1
    <2> QED
      BY <2>2
  <1>7. q * price = price * q /\ price * q \in Int /\ price * lots \in Int
    BY <1>1, <1>4
  <1>8. worth0 + q * price <= cap
    BY <1>1, <1>3, <1>4, <1>6, <1>7
  <1>9. (worth0 + q * price) * 100 <= cap * 100
    BY <1>1, <1>3, <1>7, <1>8
  <1> QED
    BY <1>1, <1>3, <1>7, <1>9 DEF value, worth0, price

\* The buys of a decision: one of some lots for each stock at most, all within their limits
\* and together within what can be spent.
LEMMA CheckedFits ==
    ASSUME Types, phase = "deciding", NEW weights \in [Stock -> Weights],
           NEW buyable \in SUBSET Tradable
    PROVE  LET buys == Checked(weights, buyable)
           IN /\ buys \in SUBSET Orders
              /\ \A o \in buys : o.side = "buy"
              /\ \A o \in buys : (Worth(o.stock, closes) + o.quantity * LastClose(o.stock)) * 100
                                     <= Value(closes) * MaxWeight
              /\ SumFunctionOnSet([o \in buys |-> Cost(o.quantity, LastClose(o.stock))], buys)
                     <= Spendable
  <1> DEFINE n == Len(BySymbol)
             Next(i, b) == Left(Bought(weights, buyable, BySymbol[i], b), LastClose(BySymbol[i]), b)
             Is(g) == g = [i \in 0..n |-> IF i = 0 THEN Spendable ELSE Next(i, g[i - 1])]
             budget == CHOOSE g : Is(g)
             quantity(i) == Bought(weights, buyable, BySymbol[i], budget[i - 1])
             order(i) == [stock |-> BySymbol[i], side |-> "buy", quantity |-> quantity(i)]
             buys == Checked(weights, buyable)
             cost == [o \in buys |-> Cost(o.quantity, LastClose(o.stock))]
             UpTo(k) == {order(i) : i \in {i \in 1..k : quantity(i) > 0}}
  <1>1. /\ n \in Nat /\ DOMAIN BySymbol = 1..n /\ \A i \in 1..n : BySymbol[i] \in Stock
        /\ \A i, j \in 1..n : BySymbol[i] = BySymbol[j] => i = j
    BY EngineConstants
  <1>2. Spendable \in Nat
    <2>1. SpendableCash(today) \in Int
      <3>1. Consistent /\ today \in Int
        BY DEF Types, Days
      <3> QED
        BY <3>1, CashRead
    <2> QED
      BY <2>1, AtLeastNothing DEF Spendable
  <1>3. \E g : Is(g)
    <2> DEFINE F == [p \in (1..n) \X Nat |-> Next(p[1], p[2])]
    <2>1. ASSUME NEW i \in 1..n, NEW b \in Nat PROVE Next(i, b) \in Nat
      BY <1>1, BoughtFits
    <2> HIDE DEF Next
    <2>2. F \in [(1..n) \X Nat -> Nat]
      BY <2>1
    <2>3. \A i \in 1..n, b \in Nat : F[<<i, b>>] = Next(i, b)
      OBVIOUS
    <2> HIDE DEF F, n
    <2>4. PICK g : Steps(g, n, Nat, Spendable, F)
      BY <1>1, <1>2, <2>2, StepByStep
    <2>5. \A i \in 0..n : i # 0 => i \in 1..n /\ g[i - 1] \in Nat
      BY <1>1, <2>4 DEF Steps
    <2>6. \A i \in 0..n : g[i] = IF i = 0 THEN Spendable ELSE Next(i, g[i - 1])
      BY <2>3, <2>4, <2>5 DEF Steps
    <2>7. g = [i \in 0..n |-> IF i = 0 THEN Spendable ELSE Next(i, g[i - 1])]
      BY <2>4, <2>6 DEF Steps
    <2> QED
      BY <2>7
  <1>4. Is(budget)
    <2> HIDE DEF Is
    <2> QED
      BY <1>3
  <1>5. buys = {order(i) : i \in {i \in DOMAIN BySymbol : quantity(i) > 0}}
    BY DEF Checked
  <1> HIDE DEF budget, buys
  <1>6. budget[0] = Spendable /\ \A i \in 1..n : budget[i] = Next(i, budget[i - 1])
    <2> HIDE DEF Next, n
    <2>1. 0 \in 0..n /\ \A i \in 1..n : i \in 0..n /\ i # 0
      BY <1>1
    <2>2. \A i \in 0..n : budget[i] = IF i = 0 THEN Spendable ELSE Next(i, budget[i - 1])
      BY <1>4
    <2> QED
      BY <2>1, <2>2
  <1>7. \A i \in 0..n : budget[i] \in Nat
    <2> DEFINE Good == {k \in Nat : k <= n => budget[k] \in Nat}
    <2>1. 0 \in Good
      BY <1>2, <1>6
    <2>2. ASSUME NEW k \in Nat, k \in Good PROVE k + 1 \in Good
      <3>1. SUFFICES ASSUME k + 1 <= n PROVE budget[k + 1] \in Nat
        OBVIOUS
      <3>2. k + 1 \in 1..n /\ budget[k] \in Nat /\ (k + 1) - 1 = k
        BY <1>1, <2>2, <3>1
      <3>3. budget[k + 1] = Next(k + 1, budget[k])
        <4> HIDE DEF Next
        <4> QED
          BY <1>6, <3>2
      <3> QED
        BY <1>1, <3>2, <3>3, BoughtFits
    <2> HIDE DEF Good
    <2>3. Nat \subseteq Good
      BY <2>1, <2>2, Naturals
    <2> QED
      BY <1>1, <2>3 DEF Good
  <1>8. ASSUME NEW i \in 1..n, quantity(i) > 0
        PROVE  /\ quantity(i) \in Nat \ {0} /\ BySymbol[i] \in Tradable
               /\ quantity(i) <= Room(BySymbol[i])
               /\ Cost(quantity(i), LastClose(BySymbol[i])) \in Nat
               /\ budget[i] = budget[i - 1] - Cost(quantity(i), LastClose(BySymbol[i]))
    <2>1. budget[i - 1] \in Nat /\ BySymbol[i] \in Stock
      <3>1. i - 1 \in 0..n
        BY <1>1
      <3> QED
        BY <1>1, <1>7, <3>1
    <2>2. /\ quantity(i) \in Nat
          /\ quantity(i) > 0 =>
               /\ BySymbol[i] \in Tradable /\ quantity(i) <= Room(BySymbol[i])
               /\ Cost(quantity(i), LastClose(BySymbol[i])) \in Nat
               /\ Left(quantity(i), LastClose(BySymbol[i]), budget[i - 1])
                    = budget[i - 1] - Cost(quantity(i), LastClose(BySymbol[i]))
      BY <2>1, BoughtFits
    <2> QED
      BY <1>6, <1>8, <2>2
  <1>9. ASSUME NEW i \in 1..n, ~ (quantity(i) > 0) PROVE budget[i] = budget[i - 1]
    <2>1. budget[i - 1] \in Nat /\ BySymbol[i] \in Stock
      <3>1. i - 1 \in 0..n
        BY <1>1
      <3> QED
        BY <1>1, <1>7, <3>1
    <2>2. quantity(i) \in Nat
      BY <2>1, BoughtFits
    <2>3. quantity(i) = 0
      BY <1>9, <2>2
    <2> QED
      BY <1>6, <2>3 DEF Left
  <1> HIDE DEF quantity, Next, n
  <1>10. \A o \in buys : \E i \in 1..n : quantity(i) > 0 /\ o = order(i)
    BY <1>1, <1>5
  <1>11. \A o \in buys : o \in Orders /\ o.side = "buy" /\ cost[o] \in Nat
    <2>1. SUFFICES ASSUME NEW o \in buys PROVE o \in Orders /\ o.side = "buy" /\ cost[o] \in Nat
      OBVIOUS
    <2>2. PICK i \in 1..n : quantity(i) > 0 /\ o = order(i)
      BY <1>10
    <2>3. o.stock = BySymbol[i] /\ o.quantity = quantity(i) /\ o.side = "buy"
      BY <2>2
    <2>4. cost[o] \in Nat
      BY <1>8, <2>2, <2>3
    <2>5. o \in Orders
      BY <1>1, <1>8, <2>2 DEF Orders
    <2> QED
      BY <2>3, <2>4, <2>5
  <1>12. \A o \in buys : (Worth(o.stock, closes) + o.quantity * LastClose(o.stock)) * 100
                             <= Value(closes) * MaxWeight
    <2>1. SUFFICES ASSUME NEW o \in buys
                   PROVE  (Worth(o.stock, closes) + o.quantity * LastClose(o.stock)) * 100
                             <= Value(closes) * MaxWeight
      OBVIOUS
    <2>2. PICK i \in 1..n : quantity(i) > 0 /\ o = order(i)
      BY <1>10
    <2>3. o.stock \in Tradable /\ o.quantity \in Nat \ {0} /\ o.quantity <= Room(o.stock)
      BY <1>8, <2>2
    <2> QED
      BY <2>3, RoomIsLimit
  <1> DEFINE Good == {k \in Nat : k <= n =>
                        /\ IsFiniteSet(UpTo(k)) /\ UpTo(k) \in SUBSET buys
                        /\ SumFunctionOnSet(cost, UpTo(k)) + budget[k] = Spendable}
  <1>13. 0 \in Good
    <2>1. UpTo(0) = {}
      OBVIOUS
    <2> HIDE DEF UpTo, cost
    <2> QED
      BY <1>2, <1>6, <2>1, SumEmpty, FS_EmptySet
  <1>14. ASSUME NEW k \in Nat, k \in Good PROVE k + 1 \in Good
    <2>1. SUFFICES ASSUME k + 1 <= n
                   PROVE  /\ IsFiniteSet(UpTo(k + 1)) /\ UpTo(k + 1) \in SUBSET buys
                          /\ SumFunctionOnSet(cost, UpTo(k + 1)) + budget[k + 1] = Spendable
      OBVIOUS
    <2>2. /\ IsFiniteSet(UpTo(k)) /\ UpTo(k) \in SUBSET buys
          /\ SumFunctionOnSet(cost, UpTo(k)) + budget[k] = Spendable
      <3> HIDE DEF UpTo, cost
      <3>1. k <= n
        BY <1>1, <2>1
      <3> QED
        BY <1>14, <3>1
    <2>3. k + 1 \in 1..n /\ (k + 1) - 1 = k /\ k \in 0..n
      BY <1>1, <2>1
    <2>4. \A i : i \in 1..k + 1 <=> i \in 1..k \/ i = k + 1
      OBVIOUS
    <2>5. CASE quantity(k + 1) > 0
      <3> DEFINE o == order(k + 1)
      <3>1. UpTo(k + 1) = UpTo(k) \union {o}
        BY <2>4, <2>5
      <3>2. o \in buys
        BY <1>1, <1>5, <2>3, <2>5
      <3>3. o \notin UpTo(k)
        <4>1. SUFFICES ASSUME NEW i \in 1..k, o = order(i) PROVE FALSE
          OBVIOUS
        <4>2. i \in 1..n /\ i # k + 1
          BY <1>1, <2>1
        <4> QED
          BY <1>1, <2>3, <4>1, <4>2
      <3>4. cost[o] = Cost(quantity(k + 1), LastClose(BySymbol[k + 1]))
        BY <3>2
      <3>5. budget[k + 1] = budget[k] - cost[o] /\ cost[o] \in Nat /\ budget[k] \in Nat
        BY <1>7, <1>8, <2>3, <2>5, <3>4
      <3> HIDE DEF o, UpTo, cost
      <3>6. \A p \in UpTo(k) \union {o} : cost[p] \in Int
        BY <1>11, <2>2, <3>2
      <3>7. SumFunctionOnSet(cost, UpTo(k) \union {o}) = cost[o] + SumFunctionOnSet(cost, UpTo(k))
        BY <2>2, <3>3, <3>6, SumAdd
      <3>8. IsFiniteSet(UpTo(k) \union {o})
        BY <2>2, FS_AddElement
      <3>9. SumFunctionOnSet(cost, UpTo(k)) \in Int
        BY <2>2, <3>6, SumInt
      <3>10. SumFunctionOnSet(cost, UpTo(k + 1)) + budget[k + 1] = Spendable
        <4> DEFINE paid == SumFunctionOnSet(cost, UpTo(k))
                   price == cost[o]
                   before == budget[k]
        <4>1. paid \in Int /\ price \in Int /\ before \in Int /\ paid + before = Spendable
          BY <2>2, <3>5, <3>9
        <4>2. SumFunctionOnSet(cost, UpTo(k + 1)) = price + paid /\ budget[k + 1] = before - price
          BY <3>1, <3>5, <3>7
        <4> HIDE DEF paid, price, before
        <4>3. (price + paid) + (before - price) = paid + before
          BY <4>1
        <4> QED
          BY <4>1, <4>2, <4>3
      <3>11. UpTo(k + 1) \in SUBSET buys
        BY <2>2, <3>1, <3>2
      <3> QED
        BY <3>1, <3>8, <3>10, <3>11
    <2>6. CASE ~ (quantity(k + 1) > 0)
      <3>1. UpTo(k + 1) = UpTo(k)
        BY <2>4, <2>6
      <3>2. budget[k + 1] = budget[k]
        BY <1>9, <2>3, <2>6
      <3> HIDE DEF UpTo, cost
      <3> QED
        BY <2>2, <3>1, <3>2
    <2> QED
      BY <2>5, <2>6
  <1>15. n \in Good
    <2> HIDE DEF Good
    <2> QED
      BY <1>1, <1>13, <1>14, Naturals
  <1>16. UpTo(n) = buys
    BY <1>1, <1>5
  <1>17. SumFunctionOnSet(cost, buys) <= Spendable
    <2>1. IsFiniteSet(buys) /\ SumFunctionOnSet(cost, buys) + budget[n] = Spendable
      <3> HIDE DEF UpTo, cost
      <3> QED
        BY <1>1, <1>15, <1>16
    <2>2. SumFunctionOnSet(cost, buys) \in Int
      <3> HIDE DEF cost
      <3> QED
        BY <1>11, <2>1, SumInt
    <2>3. budget[n] \in Nat
      BY <1>1, <1>7
    <2> HIDE DEF cost
    <2> QED
      BY <1>2, <2>1, <2>2, <2>3
  <1> QED
    BY <1>11, <1>12, <1>17 DEF buys

\* What is sold of a stock is one order, for no more than is held of it.
LEMMA SalesFit ==
    ASSUME Types, phase = "deciding", NEW weights \in [Stock -> Weights], NEW sellable \in SUBSET Tradable
    PROVE  \A o \in Sales(weights, sellable) :
              /\ o \in Orders /\ o.side = "sell" /\ o.quantity <= positions[o.stock].quantity
              /\ \A p \in Sales(weights, sellable) : o.stock = p.stock => o = p
  <1>1. SUFFICES ASSUME NEW o \in Sales(weights, sellable)
                 PROVE  /\ o \in Orders /\ o.side = "sell" /\ o.quantity <= positions[o.stock].quantity
                        /\ \A p \in Sales(weights, sellable) : o.stock = p.stock => o = p
    OBVIOUS
  <1>2. PICK s \in sellable : /\ Wanted(weights, s) < 0
                              /\ o = [stock |-> s, side |-> "sell", quantity |-> -Wanted(weights, s)]
    BY DEF Sales
  <1>3. /\ Wanted(weights, s) \in Int /\ -Wanted(weights, s) <= positions[s].quantity
        /\ s \in Stock
    BY <1>2, WantedIsHeld DEF Tradable
  <1>4. -Wanted(weights, s) \in Nat \ {0}
    BY <1>2, <1>3
  <1>5. o \in Orders
    BY <1>2, <1>3, <1>4 DEF Orders
  <1>6. \A p \in Sales(weights, sellable) :
           p = [stock |-> p.stock, side |-> "sell", quantity |-> -Wanted(weights, p.stock)]
    BY DEF Sales
  <1> QED
    BY <1>2, <1>3, <1>5, <1>6

\* What is ordered can be carried out: no more is sold than is held, and what is bought
\* is within its limit and what can be spent.
LEMMA DecideKeeps ==
    ASSUME DayInv, Decide
    PROVE  DayInv'
  <1>1. Types /\ CashOnHand /\ DividendsKept
    BY DEF DayInv
  <1>2. /\ phase = "deciding" /\ phase' = "closed" /\ today' = today /\ today \in Days
        /\ UNCHANGED <<positions, ledger, balance, open, session, entitlements, owed, bar, closes, earned>>
    BY <1>1 DEF Decide, portfolio, Types
  <1>3. Spendable' = Spendable /\ Value(closes)' = Value(closes)
    <2>1. SpendableCash(today)' = SpendableCash(today)
      BY <1>2 DEF SpendableCash, Pool, Cash, Amounts, Credit, LastDay
    <2>2. Value(closes)' = Value(closes)
      BY <1>2 DEF Value, HoldingsValue, Worth, Held
    <2> QED
      BY <2>1, <2>2 DEF Spendable
  <1>4. \A s : LastClose(s)' = LastClose(s) /\ Worth(s, closes)' = Worth(s, closes)
    BY <1>2 DEF LastClose, Worth, Held
  <1> DEFINE Buys(B) == {o \in B : o.side = "buy"}
             CostsOf(B) == [o \in Buys(B) |-> Cost(o.quantity, LastClose(o.stock))]
             Within(B) == /\ SumFunctionOnSet(CostsOf(B), Buys(B)) <= Spendable
                          /\ \A o \in Buys(B) :
                                (Worth(o.stock, closes) + o.quantity * LastClose(o.stock)) * 100
                                   <= Value(closes) * MaxWeight
             Covered(B) == \A o \in B : o.side = "sell" => o.quantity <= positions[o.stock].quantity
             Once(B) == \A o, p \in B :
                           o.side = "sell" /\ p.side = "sell" /\ o.stock = p.stock => o = p
  <1>5. pending' \in SUBSET Orders /\ Within(pending') /\ Covered(pending') /\ Once(pending')
    <2>1. CASE pending' = {}
      <3>1. Buys(pending') = {} /\ CostsOf(pending') = [o \in {} |-> 0]
        BY <2>1
      <3>2. SumFunctionOnSet(CostsOf(pending'), Buys(pending')) = 0
        BY <3>1, SumEmpty
      <3>3. 0 <= Spendable
        <4>1. Consistent /\ today \in Int
          BY <1>1, <1>2 DEF Types, Days
        <4>2. SpendableCash(today) \in Int
          BY <4>1, CashRead
        <4>3. Spendable \in Nat
          BY <4>2, AtLeastNothing DEF Spendable
        <4> QED
          BY <4>3
      <3> QED
        BY <2>1, <3>1, <3>2, <3>3
    <2>2. CASE \E weights \in [Stock -> Weights], buyable \in SUBSET Tradable :
                  pending' = Sales(weights, {s \in Tradable : Held(s)}) \union Checked(weights, buyable)
      <3>1. PICK weights \in [Stock -> Weights], buyable \in SUBSET Tradable :
                  pending' = Sales(weights, {s \in Tradable : Held(s)}) \union Checked(weights, buyable)
        BY <2>2
      <3> DEFINE sales == Sales(weights, {s \in Tradable : Held(s)})
                 buys == Checked(weights, buyable)
      <3>2. {s \in Tradable : Held(s)} \in SUBSET Tradable
        OBVIOUS
      <3>3. \A o \in sales : /\ o \in Orders /\ o.side = "sell" /\ o.quantity <= positions[o.stock].quantity
                             /\ \A p \in sales : o.stock = p.stock => o = p
        BY <1>1, <1>2, <3>2, SalesFit
      <3>4. /\ buys \in SUBSET Orders /\ \A o \in buys : o.side = "buy"
            /\ \A o \in buys : (Worth(o.stock, closes) + o.quantity * LastClose(o.stock)) * 100
                                  <= Value(closes) * MaxWeight
            /\ SumFunctionOnSet([o \in buys |-> Cost(o.quantity, LastClose(o.stock))], buys) <= Spendable
        BY <1>1, <1>2, CheckedFits
      <3> HIDE DEF sales, buys
      <3>5. pending' = sales \union buys
        BY <3>1 DEF sales, buys
      <3>6. "buy" # "sell"
        OBVIOUS
      <3>7. Buys(pending') = buys
        BY <3>3, <3>4, <3>5, <3>6
      <3>8. CostsOf(pending') = [o \in buys |-> Cost(o.quantity, LastClose(o.stock))]
        BY <3>7
      <3>9. Within(pending')
        BY <3>4, <3>7, <3>8
      <3>10. Covered(pending') /\ Once(pending') /\ pending' \in SUBSET Orders
        BY <3>3, <3>4, <3>5, <3>6
      <3> QED
        BY <3>9, <3>10
    <2> QED
      BY <2>1, <2>2 DEF Decide
  <1>6. OrdersKept'
    <2>1. BuysFit'
      BY <1>3, <1>4, <1>5 DEF BuysFit
    <2>2. SalesAreCovered' /\ SoldOnce'
      BY <1>2, <1>5 DEF SalesAreCovered, SoldOnce
    <2> QED
      BY <2>1, <2>2 DEF OrdersKept
  <1>7. Types'
    <2>1. Consistent'
      BY <1>1, <1>2, CashSame DEF Types
    <2> QED
      BY <1>1, <1>2, <1>5, <2>1 DEF Types, Phase
  <1>8. CashOnHand'
    BY <1>1, <1>2, CashSame DEF CashOnHand
  <1>9. DividendsKept'
    BY <1>1, <1>2, CashSame, DividendsStay
  <1> QED
    BY <1>6, <1>7, <1>8, <1>9 DEF DayInv

\* An account opens with its deposit, and nothing owed, ordered or earned.
LEMMA InitKeeps == EngineInit => DayInv
  <1> SUFFICES ASSUME EngineInit PROVE DayInv
    OBVIOUS
  <1> DEFINE first == [day |-> 1, kind |-> "deposit", amount |-> Capital, settles |-> 1]
  <1>1. /\ ledger = <<first>> /\ balance = Capital /\ open = {} /\ today = 0 /\ pending = {}
        /\ positions = [s \in Stock |-> NoPosition] /\ session = Closed /\ phase = "closed"
        /\ entitlements = <<>> /\ owed = 0 /\ earned = {}
        /\ bar = [s \in Stock |-> NoBar] /\ closes = [s \in Stock |-> NoBar]
    BY DEF EngineInit
  <1>2. Capital \in Nat \ {0} /\ MaxDay \in Nat \ {0} /\ Lag \in Nat /\ PayLag \in Nat
    BY EngineConstants, PortfolioConstants
  <1>3. /\ DOMAIN ledger = {1} /\ Len(ledger) = 1 /\ ledger[1] = first
        /\ Amounts[1] = Capital
    BY <1>1 DEF Amounts
  <1>4. first \in CashMovement
    BY <1>2 DEF CashMovement, Days, Kind
  <1>5. PortfolioTypeOK
    <2>1. ledger \in Seq(CashMovement)
      BY <1>1, <1>4
    <2> QED
      BY <1>1, <1>2, <2>1 DEF PortfolioTypeOK, NoPosition, Position
  <1>6. Cash({}) = 0 /\ Cash({1}) = Capital
    <2>1. Cash({}) = 0
      BY SumEmpty DEF Cash
    <2>2. Amounts[1] \in Int /\ IsFiniteSet({}) /\ 1 \notin {} /\ {} \union {1} = {1}
      BY <1>2, <1>3, FS_EmptySet
    <2>3. SumFunctionOnSet(Amounts, {} \union {1}) = Amounts[1] + SumFunctionOnSet(Amounts, {})
      <3> HIDE DEF Amounts
      <3> QED
        BY <2>2, SumAdd
    <2> QED
      BY <1>2, <1>3, <2>1, <2>2, <2>3 DEF Cash
  <1>7. Consistent
    <2>1. LastDay = 1
      BY <1>1, <1>3 DEF LastDay
    <2>2. OpenSettlesLater
      BY <1>1, <1>3, <2>1 DEF OpenSettlesLater
    <2>3. BalanceIsSum
      BY <1>1, <1>3, <1>6 DEF BalanceIsSum
    <2> QED
      BY <1>5, <2>2, <2>3 DEF Consistent
  <1>8. \A d \in Nat : 0 <= Settled(d)
    <2>1. SUFFICES ASSUME NEW d \in Nat PROVE 0 <= Settled(d)
      OBVIOUS
    <2> DEFINE places == {i \in DOMAIN ledger : ledger[i].settles <= d}
    <2>2. places = {} \/ places = {1}
      BY <1>3
    <2> QED
      BY <1>2, <1>6, <2>2 DEF Settled
  <1>9. Types
    <2>1. session \in Sessions /\ ~session.running
      BY <1>1 DEF Closed, Sessions
    <2> QED
      BY <1>1, <1>2, <1>7, <2>1 DEF Types, Phase
  <1>10. CashOnHand
    BY <1>1, <1>8 DEF CashOnHand
  <1>11. OrdersKept
    <2>1. Spendable \in Nat
      <3>1. today \in Int
        BY <1>1
      <3>2. SpendableCash(today) \in Int
        BY <1>7, <3>1, CashRead
      <3> QED
        BY <3>2, AtLeastNothing DEF Spendable
    <2>2. {o \in pending : o.side = "buy"} = {}
      BY <1>1
    <2>3. BuysFit
      BY <2>1, <2>2, SumEmpty DEF BuysFit
    <2> QED
      BY <1>1, <2>3 DEF OrdersKept, SoldOnce, SalesAreCovered
  <1>12. DividendsKept
    <2>1. \A kind, day : kind # "deposit" => BookedAs(kind, day) = {}
      BY <1>3 DEF BookedAs
    <2>2. \A day : Paid(day) = {}
      BY <1>1 DEF Paid
    <2>3. \A day : Cash(BookedAs("dividend", day)) = 0 /\ Cash(BookedAs("tax", day)) = 0
      BY <1>6, <2>1
    <2>4. \A day : /\ SumFunctionOnSet([e \in earned |-> e.gross], Paid(day)) = 0
                   /\ SumFunctionOnSet([e \in earned |-> DividendTax(e.gross)], Paid(day)) = 0
      BY <2>2, SumEmpty
    <2>5. ToSet(entitlements) = {} /\ InTurn(entitlements)
      BY <1>1 DEF ToSet, InTurn
    <2>6. IsFiniteSet(earned) /\ earned \in SUBSET Earnings
      BY <1>1, FS_EmptySet
    <2> QED
      BY <1>1, <2>3, <2>4, <2>5, <2>6 DEF DividendsKept
  <1> QED
    BY <1>9, <1>10, <1>11, <1>12 DEF DayInv

\* Each step of a day keeps what the days rest on.
LEMMA DayStep ==
    ASSUME DayInv, [EngineNext]_all
    PROVE  DayInv'
  <1>1. CASE UNCHANGED all
    <2>1. UNCHANGED <<positions, ledger, balance, open, today, pending, session, phase, entitlements,
                      owed, frozen, bar, closes, earned>>
      BY <1>1 DEF all, vars, portfolio, broker, engine
    <2>2. Consistent' /\ Types
      BY <2>1, CashSame DEF DayInv, Types
    <2>3. Types'
      BY <2>1, <2>2 DEF Types, Held
    <2>4. CashOnHand'
      BY <2>1, CashSame DEF DayInv, CashOnHand, ChargeHeldBack
    <2>5. OrdersKept'
      <3>1. SpendableCash(today)' = SpendableCash(today)
        BY <2>1 DEF SpendableCash, Pool, Cash, Amounts, Credit, LastDay
      <3>2. Value(closes)' = Value(closes)
        BY <2>1 DEF Value, HoldingsValue, Worth, Held
      <3>3. \A s : LastClose(s)' = LastClose(s) /\ Worth(s, closes)' = Worth(s, closes)
        BY <2>1 DEF LastClose, Worth, Held
      <3>4. BuysFit' <=> BuysFit
        BY <2>1, <3>1, <3>2, <3>3 DEF BuysFit, Spendable
      <3> QED
        BY <2>1, <3>4 DEF DayInv, OrdersKept, SoldOnce, SalesAreCovered
    <2>6. DividendsKept'
      BY <2>1, CashSame, DividendsStay DEF DayInv
    <2> QED
      BY <2>3, <2>4, <2>5, <2>6 DEF DayInv
  <1>2. CASE EngineNext
    BY <1>2, StartDayKeeps, PayKeeps, PayTaxKeeps, OpenMarketKeeps, FillKeeps, CloseSessionKeeps,
       RevalueKeeps, DecideKeeps DEF EngineNext
  <1> QED
    BY <1>1, <1>2

-----------------------------------------------------------------------------
(* What holds on every day.                                                *)

\* The day's invariant: types, cash on hand, orders and dividends, which need each other.
THEOREM DayIsSound == EngineSpec => []DayInv
  BY InitKeeps, DayStep, PTL DEF EngineSpec

\* "Every fill is checked so cash never runs short": whatever is bought, sold, charged and
\* taxed, and however late proceeds settle, no day to come is left with less than nothing.
THEOREM CashNeverRunsShort == EngineSpec => []NeverOverdrawn
  <1>1. DayInv => NeverOverdrawn
    <2>1. SUFFICES ASSUME DayInv, NEW on \in today..MaxDay + Lag PROVE SettledCash(on) >= 0
      BY DEF NeverOverdrawn
    <2>2. Consistent /\ today \in Nat /\ owed \in Nat /\ MaxDay + Lag \in Int
      BY <2>1, PortfolioConstants DEF DayInv, Types
    <2>3. on \in Nat /\ on >= today
      BY <2>2
    <2>4. SettledCash(on) = Settled(on) /\ Settled(on) \in Int
      BY <2>2, <2>3, CashRead
    <2>5. owed <= Settled(on)
      BY <2>1, <2>3 DEF DayInv, CashOnHand
    <2> QED
      BY <2>2, <2>4, <2>5
  <1> QED
    BY <1>1, DayIsSound, PTL

\* A buy is for the most lots the cash pays for with the day's charge: the search down from
\* what the cash would buy without costs misses none.
THEOREM NoLotIsMissed == EngineSpec => []MostLotsBought
  <1>1. DayInv => MostLotsBought
    <2>1. SUFFICES ASSUME DayInv PROVE MostLotsBought
      OBVIOUS
    <2>2. Consistent /\ today \in Int /\ session.traded \in Nat
      BY <2>1 DEF DayInv, Types, Sessions
    <2>3. SpendableCash(today) \in Int
      BY <2>2, CashRead
    <2>4. \A price \in Price, wanted \in Quantity : price \in Nat \ {0} /\ wanted \in Nat
      BY MarketConstants, PortfolioConstants
    <2> QED
      BY <2>2, <2>3, <2>4, LotsArePaid DEF MostLotsBought
  <1> QED
    BY <1>1, DayIsSound, PTL

\* What is queued can be carried out: no sale is for more than is held when it fills, through
\* splits and the fills before it, and the buys together fit the cash and each its limit.
THEOREM OrdersCanBeCarriedOut == EngineSpec => []OrdersFit
  <1>1. DayInv => OrdersFit
    BY DEF DayInv, OrdersKept, OrdersFit
  <1> QED
    BY <1>1, DayIsSound, PTL

\* Every dividend earned is paid once, on its day, and its tax charged, whatever became of
\* the shares.
THEOREM DividendsArePaidOnce == EngineSpec => []DividendsPaidOnce
  <1>1. DayInv => DividendsPaidOnce
    <2>1. SUFFICES ASSUME DayInv, phase \in {"filling", "closed"}, NEW day \in 1..today
                   PROVE
            LET paid == {e \in earned : e.payDate <= today}
                of(kind, on) == {i \in DOMAIN ledger : ledger[i].kind = kind /\ ledger[i].day = on}
            IN /\ Cash(of("dividend", day)) =
                    SumFunctionOnSet([e \in earned |-> e.gross], {e \in paid : e.payDate = day})
               /\ -Cash(of("tax", day)) =
                    SumFunctionOnSet([e \in earned |-> DividendTax(e.gross)],
                                     {e \in paid : e.payDate = day})
      BY DEF DividendsPaidOnce
    <2>2. Types /\ DividendsKept /\ phase # "paying"
      BY <2>1 DEF DayInv
    <2>3. today \in 0..MaxDay /\ owed = 0 /\ day \in Days /\ MaxDay \in Nat /\ Consistent
      BY <2>1, <2>2, PortfolioConstants DEF Types, Days
    <2>4. {e \in {e \in earned : e.payDate <= today} : e.payDate = day} = Paid(day)
      <3>1. \A e \in ToSet(entitlements) : e.payDate > today
        BY <2>2 DEF DividendsKept
      <3>2. \A e \in earned : e.payDate \in Nat
        BY <2>2 DEF DividendsKept, Earnings
      <3>3. ToSet(entitlements) \subseteq earned
        BY <2>2 DEF DividendsKept
      <3> QED
        BY <2>3, <3>1, <3>2, <3>3 DEF Paid
    <2>5. /\ Cash(BookedAs("dividend", day)) = SumFunctionOnSet([e \in earned |-> e.gross], Paid(day))
          /\ 0 - Cash(BookedAs("tax", day))
               = SumFunctionOnSet([e \in earned |-> DividendTax(e.gross)], Paid(day))
      BY <2>2, <2>3 DEF DividendsKept
    <2>6. Cash(BookedAs("tax", day)) \in Int
      <3>1. PortfolioTypeOK /\ BookedAs("tax", day) \in SUBSET DOMAIN ledger
        BY <2>3 DEF Consistent, BookedAs
      <3> QED
        BY <3>1, CashInt
    <2>7. -Cash(BookedAs("tax", day))
               = SumFunctionOnSet([e \in earned |-> DividendTax(e.gross)], Paid(day))
      BY <2>5, <2>6
    <2> QED
      BY <2>4, <2>5, <2>7 DEF BookedAs
  <1> QED
    BY <1>1, DayIsSound, PTL

-----------------------------------------------------------------------------
(* What a day leaves to the next.                                          *)

\* The ledger is in the order of its days.
DaysInOrder == \A i \in DOMAIN ledger : i > 1 => ledger[i - 1].day <= ledger[i].day

\* What is held has a last close, or was bought at a bar of today that becomes its last close.
HasCloses ==
    \A s \in Stock : Held(s) => closes[s] # NoBar \/ (phase \in {"filling", "valuing"} /\ bar[s] # NoBar)

\* There are units, and each has its part of what they are worth. It is rounded down, and
\* after a deposit the units it bought were, too: `bought` of them.
Funds == [units : Nat \ {0}, price : Nat, high : Nat]
TopOf(fund, value, bought) ==
    LET whole == value * Scale * Scale
    IN  \/ whole < (fund.price + 1) * fund.units
        \/ /\ bought <= fund.units
           /\ Contribution * Scale * Scale < fund.price * (bought + 1)
           /\ whole < (fund.price + 1) * (fund.units - bought) + fund.price * (bought + 1)
Priced(fund, value) ==
    /\ fund.price * fund.units <= value * Scale * Scale
    /\ \E bought \in Nat : TopOf(fund, value, bought)

UnitsKept ==
    /\ units \in Funds /\ worth \in Nat /\ Priced(units, worth)
    /\ phase = "deciding" => worth = Value(closes)

LeftInv == DaysInOrder /\ HasCloses /\ UnitsKept

-----------------------------------------------------------------------------
(* The order of the ledger.                                                *)

\* A step books nothing, or one movement that is not before the last.
Grows ==
    \/ ledger' = ledger
    \/ \E m : ledger' = Append(ledger, m) /\ m.day >= LastDay

\* Every operation of the portfolio does.
LEMMA OperationsGrow ==
    ASSUME NEW kind, NEW amount, NEW on, NEW settles, NEW stock, NEW ratio, NEW quantity, NEW side,
           NEW costs,
           \/ UNCHANGED portfolio \/ Deposit(amount, on) \/ CreditDividend(amount, on)
           \/ Charge(kind, amount, on, settles) \/ ApplySplit(stock, ratio, on)
           \/ ApplyFill(side, stock, quantity, amount, costs, on, settles)
    PROVE  Grows
  <1>1. ASSUME NEW of, NEW sum, NEW day, NEW at, Book(of, sum, day, at) PROVE Grows
    <2> DEFINE m == [day |-> day, kind |-> of, amount |-> sum, settles |-> at]
    <2>1. ledger' = Append(ledger, m) /\ m.day = day /\ day >= LastDay
      BY <1>1 DEF Book, NotBeforeLast
    <2> HIDE DEF m
    <2> QED
      BY <2>1 DEF Grows
  <1>2. CASE UNCHANGED portfolio \/ ApplySplit(stock, ratio, on)
    BY <1>2 DEF portfolio, ApplySplit, Grows
  <1>3. CASE Deposit(amount, on) \/ CreditDividend(amount, on) \/ Charge(kind, amount, on, settles)
    BY <1>1, <1>3 DEF Deposit, CreditDividend, Charge, BookCash
  <1>4. CASE ApplyFill(side, stock, quantity, amount, costs, on, settles)
    BY <1>1, <1>4 DEF ApplyFill, Buy, Sell
  <1> QED
    BY <1>2, <1>3, <1>4

\* And so does every step of a day.
LEMMA LedgerGrows ==
    ASSUME [EngineNext]_all
    PROVE  Grows
  <1>1. CASE StartDay
    <2>1. UNCHANGED portfolio \/ \E stock, ratio, on : ApplySplit(stock, ratio, on)
      BY <1>1 DEF StartDay, Split
    <2> QED
      BY <2>1, OperationsGrow
  <1>2. CASE Pay
    BY <1>2, OperationsGrow DEF Pay
  <1>3. CASE PayTax
    BY <1>3, OperationsGrow DEF PayTax
  <1>4. CASE OpenMarket
    BY <1>4, OperationsGrow DEF OpenMarket
  <1>5. ASSUME NEW o \in pending, Fill(o) PROVE Grows
    <2>1. UNCHANGED portfolio \/ \E quantity, price : BookFill(o, quantity, price)
      BY <1>5 DEF Fill, Refuse, BuyOrder, SellOrder
    <2> QED
      BY <2>1, OperationsGrow DEF BookFill
  <1>6. CASE CloseSession
    <2>1. UNCHANGED portfolio \/ \E kind, amount, on, settles : Charge(kind, amount, on, settles)
      BY <1>6 DEF CloseSession, CloseDay
    <2> QED
      BY <2>1, OperationsGrow
  <1>7. CASE Revalue
    <2>1. UNCHANGED portfolio \/ Deposit(Contribution, today)
      BY <1>7 DEF Revalue, TopUp
    <2> QED
      BY <2>1, OperationsGrow
  <1>8. CASE Decide
    BY <1>8, OperationsGrow DEF Decide
  <1>9. CASE UNCHANGED all
    BY <1>9 DEF all, vars, portfolio, Grows
  <1> QED
    BY <1>1, <1>2, <1>3, <1>4, <1>5, <1>6, <1>7, <1>8, <1>9 DEF EngineNext

\* Growing so, the ledger stays in order.
LEMMA OrderStays ==
    ASSUME ledger \in Seq(CashMovement), DaysInOrder, Grows
    PROVE  DaysInOrder'
  <1>1. CASE ledger' = ledger
    BY <1>1 DEF DaysInOrder
  <1>2. ASSUME NEW m, ledger' = Append(ledger, m), m.day >= LastDay PROVE DaysInOrder'
    <2> DEFINE n == Len(ledger)
    <2>1. /\ n \in Nat /\ DOMAIN ledger = 1..n /\ DOMAIN ledger' = 1..n + 1
          /\ ledger'[n + 1] = m /\ \A i \in 1..n : ledger'[i] = ledger[i]
      BY <1>2
    <2> SUFFICES ASSUME NEW i \in 1..n + 1, i > 1 PROVE ledger'[i - 1].day <= ledger'[i].day
      BY <2>1 DEF DaysInOrder
    <2>2. CASE i <= n
      <3>1. i \in 1..n /\ i - 1 \in 1..n
        BY <2>1, <2>2
      <3>2. ledger[i - 1].day <= ledger[i].day
        BY <2>1, <3>1 DEF DaysInOrder
      <3> QED
        BY <2>1, <3>1, <3>2
    <2>3. CASE i = n + 1
      <3>1. n \in 1..n /\ ledger # <<>> /\ i - 1 = n
        BY <2>1, <2>3
      <3>2. m.day >= ledger[n].day
        BY <1>2, <3>1 DEF LastDay
      <3>3. ledger[n].day \in Int
        <4>1. ledger[n] \in CashMovement
          BY <3>1
        <4> QED
          BY <4>1, PortfolioConstants DEF CashMovement, Days
      <3> QED
        BY <2>1, <2>3, <3>1, <3>2, <3>3
    <2> QED
      BY <2>1, <2>2, <2>3
  <1> QED
    BY <1>1, <1>2 DEF Grows

-----------------------------------------------------------------------------
(* The closes of what is held.                                             *)

\* A day's start splits at most one stock, with its last close.
LEMMA StartKeepsCloses ==
    ASSUME DayInv, HasCloses, StartDay
    PROVE  HasCloses'
  <1>1. /\ closes \in [Stock -> Nat \union {NoBar}] /\ phase = "closed" /\ phase' = "paying"
        /\ positions \in [Stock -> Position]
    BY DEF DayInv, Types, StartDay, Consistent, PortfolioTypeOK
  <1>2. \A s \in Stock : Held(s) => closes[s] \in Nat
    BY <1>1 DEF HasCloses
  <1>3. CASE UNCHANGED <<positions, closes>>
    BY <1>1, <1>2, <1>3 DEF HasCloses, Held, NoBar
  <1>4. ASSUME NEW split \in Stock \X Ratio, Split(split[1], split[2], today + 1)
        PROVE  HasCloses'
    <2>1. PICK stock \in Stock, ratio \in Ratio : split[1] = stock /\ split[2] = ratio
      BY <1>4
    <2>2. /\ closes' = [closes EXCEPT ![stock] = Scaled(@, ratio)]
          /\ \/ UNCHANGED positions
             \/ Held(stock) /\ \E held : positions' = [positions EXCEPT ![stock] = held]
      BY <1>4, <2>1 DEF Split, ApplySplit, portfolio
    <2>3. ASSUME NEW s \in Stock, Held(s)' PROVE Held(s)
      BY <1>1, <2>2, <2>3 DEF Held
    <2>4. ASSUME NEW s \in Stock, Held(s) PROVE closes'[s] # NoBar
      <3>1. CASE s = stock
        <4>1. closes[stock] \in Nat /\ closes'[stock] = Scaled(closes[stock], ratio)
          BY <1>1, <1>2, <2>2, <2>4, <3>1
        <4>2. ratio[1] \in Nat \ {0} /\ ratio[2] \in Nat
          BY PortfolioConstants
        <4>3. closes[stock] * ratio[2] \in Nat
          BY <4>1, <4>2
        <4>4. Scaled(closes[stock], ratio) \in Nat
          BY <4>1, <4>2, <4>3, DivisionBound DEF Scaled, NoBar
        <4> QED
          BY <3>1, <4>1, <4>4 DEF NoBar
      <3>2. CASE s # stock
        BY <1>1, <1>2, <2>2, <2>4, <3>2 DEF NoBar
      <3> QED
        BY <3>1, <3>2
    <2> QED
      BY <2>3, <2>4 DEF HasCloses
  <1>5. UNCHANGED <<positions, closes>>
        \/ \E split \in Stock \X Ratio : Split(split[1], split[2], today + 1)
    BY DEF StartDay, portfolio
  <1> QED
    BY <1>3, <1>4, <1>5

\* Whatever is held has a close, all day.
LEMMA ClosesStay ==
    ASSUME DayInv, FreezeInv, HasCloses, [EngineNext]_all
    PROVE  HasCloses'
  <1>1. CASE Pay \/ PayTax \/ OpenMarket
    <2>1. UNCHANGED <<positions, closes>> /\ phase = "paying"
      BY <1>1, CashLeavesPositions DEF Pay, PayTax, OpenMarket
    <2> QED
      BY <2>1 DEF HasCloses, Held
  <1>2. ASSUME NEW o \in pending, Fill(o) PROVE HasCloses'
    <2>1. UNCHANGED <<closes, bar, phase>> /\ phase = "filling"
      BY <1>2 DEF Fill, engine
    <2>2. CASE UNCHANGED positions
      BY <2>1, <2>2 DEF HasCloses, Held
    <2>3. CASE Fillable(o)
      <3>1. bar[o.stock] # NoBar
        BY <2>3 DEF Fillable
      <3>2. \A s \in Stock : positions'[s] # positions[s] => s = o.stock
        BY <1>2, FillTouchesItsStock
      <3> QED
        BY <2>1, <3>1, <3>2 DEF HasCloses, Held
    <2>4. UNCHANGED positions \/ Fillable(o)
      BY <1>2 DEF Fill, Refuse, portfolio
    <2> QED
      BY <2>2, <2>3, <2>4
  <1>3. CASE CloseSession
    <2>1. UNCHANGED <<positions, closes, bar>> /\ phase' = "valuing"
      BY <1>3, CashLeavesPositions DEF CloseSession, CloseDay
    <2> QED
      BY <2>1 DEF HasCloses, Held
  <1>4. CASE Revalue
    <2>1. UNCHANGED positions /\ closes' = Closes
      BY <1>4, CashLeavesPositions DEF Revalue, TopUp
    <2> QED
      BY <2>1 DEF HasCloses, Held, Closes
  <1>5. CASE Decide \/ UNCHANGED all
    <2>1. UNCHANGED <<positions, closes, bar>> /\ (phase' = phase \/ phase = "deciding")
      BY <1>5 DEF Decide, all, vars, engine, portfolio
    <2> QED
      BY <2>1 DEF HasCloses, Held
  <1> QED
    BY <1>1, <1>2, <1>3, <1>4, <1>5, StartKeepsCloses DEF EngineNext

-----------------------------------------------------------------------------
(* The price of a unit.                                                    *)

\* What an amount comes to in units' parts.
LEMMA Parts ==
    ASSUME NEW value \in Nat
    PROVE  Scale \in Nat \ {0} /\ value * Scale * Scale \in Nat
  <1>1. Scale \in Nat \ {0}
    BY EngineConstants
  <1> QED
    BY <1>1

\* Division rounds down by less than the divisor.
LEMMA DivisionRest ==
    ASSUME NEW a \in Nat, NEW b \in Nat \ {0}
    PROVE  a < (a \div b + 1) * b
  <1>1. a \div b \in Nat /\ a < b * (a \div b + 1)
    OBVIOUS
  <1>2. b * (a \div b + 1) = (a \div b + 1) * b
    BY <1>1
  <1> QED
    BY <1>1, <1>2

\* Revalued, each unit has its part of the value, rounded down.
LEMMA RevaluedIsPriced ==
    ASSUME NEW fund \in Funds, NEW value \in Nat
    PROVE  LET after == Revalued(fund, value)
               whole == value * Scale * Scale
           IN /\ after \in Funds /\ after.units = fund.units /\ after.price = PriceOf(value, fund)
              /\ after.price * after.units <= whole /\ whole < (after.price + 1) * after.units
  <1> DEFINE after == Revalued(fund, value)
             whole == value * Scale * Scale
             price == PriceOf(value, fund)
             high == IF price > fund.high THEN price ELSE fund.high
  <1>1. whole \in Nat /\ fund.units \in Nat \ {0} /\ fund.high \in Nat
        /\ fund = [units |-> fund.units, price |-> fund.price, high |-> fund.high]
    BY Parts DEF Funds
  <1>2. price = whole \div fund.units
    BY DEF PriceOf
  <1>3. after = [units |-> fund.units, price |-> price, high |-> high]
    <2>1. after = [fund EXCEPT !.price = price, !.high = high]
      BY <1>1 DEF Revalued
    <2> QED
      BY <1>1, <2>1
  <1> HIDE DEF after, whole, price
  <1>4. price \in Nat /\ fund.units * price <= whole /\ whole < (price + 1) * fund.units
    BY <1>1, <1>2, DivisionBound, DivisionRest
  <1>5. fund.units * price = price * fund.units
    BY <1>1, <1>4
  <1>6. after \in Funds
    BY <1>1, <1>3, <1>4 DEF Funds
  <1> QED
    BY <1>3, <1>4, <1>5, <1>6 DEF after, whole, price

\* A deposit buys units at the price, which stays theirs of all there is then, rounded down.
LEMMA DepositIsPriced ==
    ASSUME NEW fund \in Funds, NEW value \in Nat, fund.price > 0,
           fund.price * fund.units <= value * Scale * Scale,
           value * Scale * Scale < (fund.price + 1) * fund.units
    PROVE  /\ Deposited(fund, Contribution) \in Funds
           /\ Priced(Deposited(fund, Contribution), value + Contribution)
  <1> DEFINE p == fund.price
             u == fund.units
             v == value * Scale * Scale
             a == Contribution * Scale * Scale
             k == a \div p
             after == Deposited(fund, Contribution)
  <1>1. /\ Contribution \in Nat /\ Scale \in Nat /\ v \in Nat /\ a \in Nat
        /\ u \in Nat \ {0} /\ p \in Nat \ {0} /\ fund.high \in Nat
        /\ fund = [units |-> u, price |-> p, high |-> fund.high]
    <2>1. Contribution \in Nat
      BY EngineConstants
    <2>2. Scale \in Nat
      BY Parts
    <2>3. v \in Nat /\ a \in Nat
      <3>1. \A x \in Nat : x * Scale * Scale \in Nat
        BY <2>2
      <3> QED
        BY <2>1, <3>1
    <2>4. u \in Nat \ {0} /\ p \in Nat \ {0} /\ fund.high \in Nat
      BY DEF Funds
    <2>5. fund = [units |-> u, price |-> p, high |-> fund.high]
      BY DEF Funds
    <2> QED
      BY <2>1, <2>2, <2>3, <2>4, <2>5
  <1>2. after = [units |-> u + k, price |-> p, high |-> fund.high]
    <2>1. after = [fund EXCEPT !.units = u + k]
      BY DEF Deposited
    <2> HIDE DEF k
    <2> QED
      BY <1>1, <2>1
  <1>3. (value + Contribution) * Scale * Scale = v + a
    BY <1>1
  <1>4. k \in Nat /\ p * k <= a /\ a < (k + 1) * p
    BY <1>1, DivisionBound, DivisionRest
  <1>5. p * u <= v /\ v < (p + 1) * u
    OBVIOUS
  <1> HIDE DEF p, u, v, a, k
  <1>6. /\ p * (u + k) = p * u + p * k /\ p * u \in Nat /\ p * k \in Nat
        /\ (k + 1) * p = p * (k + 1) /\ p * (k + 1) \in Nat /\ (p + 1) * u \in Nat
    BY <1>1, <1>4
  <1>7. p * (u + k) <= v + a
    BY <1>1, <1>4, <1>5, <1>6
  <1>8. k <= u + k /\ a < p * (k + 1) /\ (u + k) - k = u
    BY <1>1, <1>4, <1>6
  <1>9. v + a < (p + 1) * u + p * (k + 1)
    BY <1>1, <1>5, <1>6, <1>8
  <1> HIDE DEF after
  <1>10. after.units = u + k /\ after.price = p /\ after \in Funds
    BY <1>1, <1>2, <1>4 DEF Funds
  <1>11. TopOf(after, value + Contribution, k)
    BY <1>3, <1>8, <1>9, <1>10 DEF TopOf, a
  <1>12. after.price * after.units <= (value + Contribution) * Scale * Scale
    BY <1>3, <1>7, <1>10
  <1> QED
    BY <1>4, <1>10, <1>11, <1>12 DEF Priced, after

\* What is not settled yet settles in the end, so the balance is never negative.
LEMMA BalanceIsNat ==
    ASSUME DayInv
    PROVE  balance \in Nat
  <1> DEFINE end == MaxDay + Lag
  <1>1. /\ Consistent /\ today \in 0..MaxDay /\ owed \in Nat
        /\ \A d \in Nat : d >= today => owed <= Settled(d)
    BY DEF DayInv, Types, CashOnHand
  <1>2. end \in Nat /\ end >= today
    BY <1>1, PortfolioConstants
  <1>3. \A i \in DOMAIN ledger : ledger[i].settles <= end
    <2>1. SUFFICES ASSUME NEW i \in DOMAIN ledger PROVE ledger[i].settles <= end
      OBVIOUS
    <2>2. ledger[i] \in CashMovement
      BY <1>1 DEF Consistent, PortfolioTypeOK
    <2> QED
      BY <2>2, PortfolioConstants DEF CashMovement, Days
  <1> HIDE DEF end
  <1>4. {i \in DOMAIN ledger : ledger[i].settles <= end} = DOMAIN ledger
    BY <1>3
  <1>5. Settled(end) = balance
    BY <1>1, <1>4 DEF Settled, Consistent, BalanceIsSum
  <1>6. owed <= balance /\ balance \in Int
    BY <1>1, <1>2, <1>5 DEF Consistent, PortfolioTypeOK
  <1> QED
    BY <1>1, <1>6

\* Every account has a value.
LEMMA AccountHasValue ==
    ASSUME DayInv, HasCloses, phase = "valuing"
    PROVE  HoldingsValue(Closes) \in Nat /\ Value(Closes) \in Nat
  <1> DEFINE f == [s \in Stock |-> Worth(s, Closes)]
  <1>1. /\ closes \in [Stock -> Nat \union {NoBar}] /\ bar \in [Stock -> Price \union {NoBar}]
        /\ positions \in [Stock -> Position]
    BY DEF DayInv, Types, Consistent, PortfolioTypeOK
  <1>2. ASSUME NEW s \in Stock PROVE f[s] \in Nat
    <2>1. CASE Held(s)
      <3>1. Closes[s] = IF bar[s] # NoBar THEN bar[s] ELSE closes[s]
        BY <2>1 DEF Closes
      <3>2. Closes[s] \in Nat
        <4>1. CASE bar[s] # NoBar
          BY <1>1, <3>1, <4>1, MarketConstants
        <4>2. CASE bar[s] = NoBar
          BY <1>1, <2>1, <3>1, <4>2 DEF HasCloses
        <4> QED
          BY <4>1, <4>2
      <3>3. positions[s].quantity \in Nat
        BY <1>1 DEF Position
      <3>4. f[s] = Closes[s] * positions[s].quantity
        BY <2>1 DEF Worth
      <3> QED
        BY <3>2, <3>3, <3>4
    <2>2. CASE ~Held(s)
      BY <2>2 DEF Worth
    <2> QED
      BY <2>1, <2>2
  <1> HIDE DEF f
  <1>3. SumFunctionOnSet(f, Stock) \in Nat
    BY <1>2, StocksFinite, SumNat
  <1> QED
    BY <1>3, BalanceIsNat DEF Value, HoldingsValue, f

\* The close of a day prices the units; nothing else does.
LEMMA UnitsStay ==
    ASSUME DayInv, HasCloses, UnitsKept, [EngineNext]_all
    PROVE  UnitsKept'
  <1>1. CASE ~Revalue
    <2>1. UNCHANGED <<units, worth>>
      BY <1>1 DEF EngineNext, StartDay, Pay, PayTax, OpenMarket, Fill, CloseSession, Decide, all, engine
    <2>2. phase' = "deciding" => phase = "deciding" /\ UNCHANGED all
      BY <1>1 DEF EngineNext, StartDay, Pay, PayTax, OpenMarket, Fill, CloseSession, Decide, all, engine
    <2>3. UNCHANGED all => Value(closes)' = Value(closes)
      BY DEF all, vars, portfolio, engine, Value, HoldingsValue, Worth, Held
    <2>4. units' \in Funds /\ worth' \in Nat /\ Priced(units', worth')
      BY <2>1 DEF UnitsKept
    <2> QED
      BY <2>1, <2>2, <2>3, <2>4 DEF UnitsKept
  <1>2. CASE Revalue
    <2> DEFINE value == Value(Closes)
               after == Revalued(units, value)
    <2>1. /\ phase = "valuing" /\ closes' = Closes /\ TopUp(after)
          /\ worth' = balance' + HoldingsValue(Closes) /\ UNCHANGED positions
      BY <1>2, CashLeavesPositions DEF Revalue, TopUp
    <2>2. HoldingsValue(Closes) \in Nat /\ value \in Nat /\ balance \in Nat
      BY <2>1, AccountHasValue, BalanceIsNat
    <2>3. /\ after \in Funds /\ after.price * after.units <= value * Scale * Scale
          /\ value * Scale * Scale < (after.price + 1) * after.units
      BY <2>2, RevaluedIsPriced DEF UnitsKept
    <2>4. Value(closes)' = worth'
      BY <2>1 DEF Value, HoldingsValue, Worth, Held
    <2> HIDE DEF after
    <2>5. CASE UNCHANGED portfolio /\ units' = after
      <3>1. worth' = value
        BY <2>1, <2>5 DEF portfolio, Value
      <3> HIDE DEF value
      <3>2. TopOf(units', worth', 0) /\ 0 \in Nat
        BY <2>3, <2>5, <3>1 DEF TopOf
      <3>3. Priced(units', worth')
        BY <2>3, <2>5, <3>1, <3>2 DEF Priced
      <3> QED
        BY <2>2, <2>3, <2>4, <2>5, <3>1, <3>3 DEF UnitsKept
    <2>6. CASE after.price > 0 /\ Deposit(Contribution, today) /\ units' = Deposited(after, Contribution)
      <3>1. Contribution \in Nat /\ balance' = balance + Contribution
        <4>1. Contribution \in Nat
          BY EngineConstants
        <4>2. balance' = balance + 1 * Contribution
          BY <2>6 DEF Deposit, BookCash, Book, Balance
        <4> QED
          BY <2>2, <4>1, <4>2
      <3>2. worth' = value + Contribution
        BY <2>1, <2>2, <3>1 DEF Value
      <3> HIDE DEF value
      <3>3. units' \in Funds /\ Priced(units', worth')
        BY <2>2, <2>3, <2>6, <3>2, DepositIsPriced
      <3> QED
        BY <2>2, <2>4, <3>1, <3>2, <3>3 DEF UnitsKept
    <2> QED
      BY <2>1, <2>5, <2>6 DEF TopUp
  <1> QED
    BY <1>1, <1>2

-----------------------------------------------------------------------------
(* What every day leaves.                                                  *)

\* The account begins with one movement, nothing held, and units at par.
LEMMA LeftInit == EngineInit => LeftInv
  <1> SUFFICES ASSUME EngineInit PROVE LeftInv
    OBVIOUS
  <1>1. DaysInOrder
    <2>1. Len(ledger) = 1 /\ DOMAIN ledger = 1..1
      BY DEF EngineInit
    <2> QED
      BY <2>1 DEF DaysInOrder
  <1>2. HasCloses
    BY DEF EngineInit, HasCloses, Held, NoPosition
  <1>3. UnitsKept
    <2>1. Capital \in Nat \ {0} /\ Scale \in Nat \ {0}
      BY EngineConstants
    <2>2. (Capital * Scale * Scale) \div Scale = Capital * Scale /\ Capital * Scale \in Nat \ {0}
      <3> DEFINE c == Capital * Scale
      <3>1. c \in Nat \ {0}
        BY <2>1
      <3> HIDE DEF c
      <3>2. (c * Scale) \div Scale = c
        <4> DEFINE q == (c * Scale) \div Scale
        <4>1. c * Scale \in Nat /\ Scale * c <= c * Scale
          BY <2>1, <3>1
        <4>2. q \in Nat /\ Scale * q <= c * Scale
          BY <2>1, <4>1, DivisionBound
        <4>3. c <= q
          BY <2>1, <3>1, <4>1, DivisionIsLargest
        <4> HIDE DEF q
        <4>4. ASSUME q > c PROVE FALSE
          <5>1. PICK d \in Nat \ {0} : q = c + d
            <6>1. q - c \in Nat \ {0} /\ q = c + (q - c)
              BY <3>1, <4>2, <4>4
            <6> QED
              BY <6>1
          <5>2. Scale * q = c * Scale + Scale * d /\ Scale * d \in Nat \ {0}
            BY <2>1, <3>1, <5>1
          <5> QED
            BY <4>1, <4>2, <5>2
        <4>5. q = c
          BY <3>1, <4>2, <4>3, <4>4
        <4> QED
          BY <4>5 DEF q
      <3> QED
        BY <3>1, <3>2 DEF c
    <2>3. units = [units |-> Capital * Scale, price |-> Scale, high |-> Scale] /\ worth = Capital
      BY <2>1, <2>2 DEF EngineInit, Deposited, NoUnits
    <2>4. units \in Funds
      BY <2>1, <2>2, <2>3 DEF Funds
    <2>5. units.price * units.units = worth * Scale * Scale
      BY <2>1, <2>3
    <2>6. worth * Scale * Scale < (units.price + 1) * units.units
      <3>1. (units.price + 1) * units.units = units.price * units.units + units.units
        BY <2>4 DEF Funds
      <3>2. units.units \in Nat \ {0} /\ units.price * units.units \in Nat
        BY <2>4 DEF Funds
      <3> QED
        BY <2>5, <3>1, <3>2
    <2>7. TopOf(units, worth, 0) /\ 0 \in Nat
      BY <2>6 DEF TopOf
    <2>8. units.price * units.units <= worth * Scale * Scale
      <3>1. units.price * units.units \in Nat
        BY <2>4 DEF Funds
      <3> QED
        BY <2>5, <3>1
    <2>9. phase # "deciding"
      BY DEF EngineInit
    <2> QED
      BY <2>1, <2>3, <2>4, <2>7, <2>8, <2>9 DEF UnitsKept, Priced
  <1> QED
    BY <1>1, <1>2, <1>3 DEF LeftInv

\* What a day leaves stays in order through every step.
LEMMA LeftStep ==
    ASSUME DayInv /\ FreezeInv /\ LeftInv, [EngineNext]_all
    PROVE  (DayInv /\ FreezeInv /\ LeftInv)'
  <1>1. DaysInOrder'
    <2>1. ledger \in Seq(CashMovement)
      BY DEF DayInv, Types, Consistent, PortfolioTypeOK
    <2> QED
      BY <2>1, LedgerGrows, OrderStays DEF LeftInv
  <1>2. HasCloses' /\ UnitsKept'
    BY ClosesStay, UnitsStay DEF LeftInv
  <1> QED
    BY <1>1, <1>2, DayStep, NextFreezes DEF LeftInv

\* What a day leaves is in order, has closes for all it holds, and units that are priced.
THEOREM DaysLeaveOrder == EngineSpec => [](DayInv /\ FreezeInv /\ LeftInv)
  <1>1. EngineInit => DayInv /\ FreezeInv /\ LeftInv
    BY InitKeeps, LeftInit DEF EngineInit, FreezeInv
  <1> QED
    BY <1>1, LeftStep, PTL DEF EngineSpec

-----------------------------------------------------------------------------
(* How far a price can be relied on.                                       *)

\* A unit is worth no more rupiah than there are units.
PriceIsSmall == units.price <= units.units

\* A contribution buys more units than one unit is worth rupiah.
ContributionCounts ==
    units.price > 0 /\ units.price * units.price <= Contribution * Scale * Scale

\* A quotient that is no less than a number and less than the one after the next.
LEMMA NextPrice ==
    ASSUME NEW p \in Nat, NEW u \in Nat \ {0}, NEW w \in Nat, p * u <= w, w < (p + 2) * u
    PROVE  w \div u \in p..p + 1
  <1> DEFINE q == w \div u
  <1>1. u * p <= w /\ u * p = p * u
    OBVIOUS
  <1>2. q \in Nat /\ u * q <= w /\ p <= q
    BY <1>1, DivisionBound, DivisionIsLargest
  <1> HIDE DEF q
  <1>3. ASSUME q > p + 1 PROVE FALSE
    <2>1. PICK d \in Nat : q = (p + 2) + d
      <3>1. q - (p + 2) \in Nat /\ q = (p + 2) + (q - (p + 2))
        BY <1>2, <1>3
      <3> QED
        BY <3>1
    <2>2. u * q = (p + 2) * u + u * d /\ u * d \in Nat /\ (p + 2) * u \in Nat
      BY <2>1
    <2> QED
      BY <1>2, <2>2
  <1> QED
    BY <1>2, <1>3 DEF q

\* "A top-up never looks like a gain and never hides a loss": valued again right after the
\* day's close and its deposit, a unit has its price, or the next if a deposit's units were
\* rounded down.
THEOREM DepositsMoveNoPrice == EngineSpec => [](PriceIsSmall => DepositsAreNeutral)
  <1>1. LeftInv => (PriceIsSmall => DepositsAreNeutral)
    <2> SUFFICES ASSUME LeftInv, PriceIsSmall, phase = "deciding"
                 PROVE  LET again == Revalued(units, Value(closes)).price
                        IN units.price <= again /\ again <= units.price + 1
      BY DEF DepositsAreNeutral
    <2> DEFINE p == units.price
               u == units.units
               w == worth * Scale * Scale
    <2>1. /\ units \in Funds /\ worth \in Nat /\ Priced(units, worth) /\ worth = Value(closes)
      BY DEF LeftInv, UnitsKept
    <2>2. p \in Nat /\ u \in Nat \ {0} /\ w \in Nat /\ p * u <= w /\ p <= u
      BY <2>1, Parts DEF Funds, Priced, PriceIsSmall
    <2>3. Revalued(units, Value(closes)).price = w \div u
      <3>1. Revalued(units, worth).price = PriceOf(worth, units)
        BY <2>1, RevaluedIsPriced
      <3> QED
        BY <2>1, <3>1 DEF PriceOf
    <2>4. PICK k \in Nat : TopOf(units, worth, k)
      BY <2>1 DEF Priced
    <2>5. w < (p + 1) * u \/ (k <= u /\ w < (p + 1) * (u - k) + p * (k + 1))
      BY <2>4 DEF TopOf
    <2> HIDE DEF p, u, w
    <2>6. (p + 2) * u = (p + 1) * u + u /\ (p + 1) * u \in Nat
      BY <2>2
    <2>7. ASSUME k <= u, w < (p + 1) * (u - k) + p * (k + 1) PROVE w < (p + 2) * u
      <3>1. (p + 1) * (u - k) + p * (k + 1) = (p + 1) * u - k + p
        BY <2>2, <2>7
      <3> QED
        BY <2>2, <2>6, <2>7, <3>1
    <2>8. w < (p + 2) * u
      BY <2>2, <2>5, <2>6, <2>7
    <2>9. w \div u \in p..p + 1
      BY <2>2, <2>8, NextPrice
    <2> QED
      BY <2>2, <2>3, <2>9 DEF p
  <1> QED
    BY <1>1, DaysLeaveOrder, PTL

\* What units are worth is at most their price for each, but for what was rounded.
LEMMA WorthOfUnits ==
    ASSUME NEW fund \in Funds, NEW value \in Nat, Priced(fund, value), fund.price > 0,
           fund.price * fund.price <= Contribution * Scale * Scale
    PROVE  (fund.price - 1) * (value * Scale * Scale) <= fund.price * fund.price * fund.units
  <1> DEFINE p == fund.price
             u == fund.units
             w == value * Scale * Scale
             a == Contribution * Scale * Scale
  <1>1. /\ p \in Nat \ {0} /\ u \in Nat \ {0} /\ w \in Nat /\ a \in Nat /\ p * p <= a
    BY Parts, EngineConstants DEF Funds
  <1>2. PICK k \in Nat : TopOf(fund, value, k)
    BY DEF Priced
  <1>3. \/ w < (p + 1) * u
        \/ k <= u /\ a < p * (k + 1) /\ w < (p + 1) * (u - k) + p * (k + 1)
    BY <1>2 DEF TopOf
  <1> HIDE DEF p, u, w, a
  <1>4. ASSUME NEW top \in Nat, w <= top PROVE (p - 1) * w <= (p - 1) * top
    <2>1. PICK d \in Nat : top = w + d
      <3>1. top - w \in Nat /\ top = w + (top - w)
        BY <1>1, <1>4
      <3> QED
        BY <3>1
    <2>2. p - 1 \in Nat
      BY <1>1
    <2>3. (p - 1) * top = (p - 1) * w + (p - 1) * d /\ (p - 1) * d \in Nat /\ (p - 1) * w \in Nat
      BY <1>1, <2>1, <2>2
    <2> QED
      BY <2>3
  <1>5. CASE w < (p + 1) * u
    <2>1. (p + 1) * u \in Nat /\ (p - 1) * ((p + 1) * u) = p * p * u - u /\ p * p * u \in Nat
      BY <1>1
    <2>2. (p - 1) * w <= (p - 1) * ((p + 1) * u)
      BY <1>1, <1>4, <1>5, <2>1
    <2>3. (p - 1) * w \in Int
      BY <1>1
    <2> QED
      BY <1>1, <2>1, <2>2, <2>3 DEF p, u, w
  <1>6. CASE k <= u /\ a < p * (k + 1) /\ w < (p + 1) * (u - k) + p * (k + 1)
    <2> DEFINE r == u - k
               top == p * u + r + p
    <2>1. r \in Nat /\ u = r + k
      BY <1>1, <1>6
    <2> HIDE DEF r
    <2>2. (p + 1) * r + p * (k + 1) = p * (r + k) + r + p
      BY <1>1, <2>1
    <2>3. top \in Nat /\ w <= top
      BY <1>1, <1>6, <2>1, <2>2 DEF r
    <2>4. (p - 1) * top = p * p * u + ((p * p - r) - p * k - p)
      <3>1. top = p * (r + k) + r + p
        BY <2>1
      <3>2. (p - 1) * (p * (r + k) + r + p) = p * p * (r + k) + ((p * p - r) - p * k - p)
        BY <1>1, <2>1
      <3> QED
        BY <2>1, <3>1, <3>2
    <2>5. p * (k + 1) = p * k + p /\ p * k \in Nat /\ p * p \in Nat /\ p * p * u \in Nat
      BY <1>1
    <2>6. (p * p - r) - p * k - p <= 0
      BY <1>1, <1>6, <2>1, <2>5
    <2> HIDE DEF top
    <2>7. (p - 1) * w <= (p - 1) * top
      BY <1>4, <2>3
    <2>8. (p - 1) * w \in Int
      BY <1>1
    <2> QED
      BY <1>1, <2>1, <2>4, <2>5, <2>6, <2>7, <2>8 DEF p, u, w
  <1> QED
    BY <1>3, <1>5, <1>6

\* A day's loss in what the account is worth is one in the price of its units.
LEMMA LossShows ==
    ASSUME NEW fund \in Funds, NEW before \in Nat, NEW value \in Nat, Priced(fund, before), fund.price > 0,
           fund.price * fund.price <= Contribution * Scale * Scale,
           100 * fund.price * value <= (fund.price - 1) * (100 - DailyLoss) * before
    PROVE  FallsBy(DailyLoss, fund.price, PriceOf(value, fund))
  <1> DEFINE p == fund.price
             u == fund.units
             s == Scale * Scale
             w == before * Scale * Scale
             v == value * Scale * Scale
             q == v \div u
             f == 100 - DailyLoss
  <1>1. /\ p \in Nat \ {0} /\ u \in Nat \ {0} /\ w \in Nat /\ v \in Nat /\ s \in Nat /\ f \in Nat
        /\ w = before * s /\ v = value * s
    <2>1. Scale \in Nat /\ DailyLoss \in 1..99
      BY EngineConstants
    <2>2. s \in Nat /\ w = before * s /\ v = value * s
      BY <2>1
    <2> QED
      BY <2>1, <2>2, Parts DEF Funds
  <1>2. (p - 1) * w <= p * p * u
    BY WorthOfUnits
  <1>3. 100 * p * value <= (p - 1) * f * before
    OBVIOUS
  <1>4. PriceOf(value, fund) = q
    BY DEF PriceOf
  <1> HIDE DEF p, u, s, w, v, f
  <1>5. q \in Nat /\ u * q <= v
    BY <1>1, DivisionBound
  <1> HIDE DEF q
  <1> DEFINE gap == (p - 1) * f * before - 100 * p * value
             room == p * p * u - (p - 1) * w
             rest == v - u * q
  <1>6. gap \in Nat /\ room \in Nat /\ rest \in Nat
    BY <1>1, <1>2, <1>3, <1>5
  <1>7. 100 * p * (u * q) + (100 * p * rest + gap * s + f * room) = f * (p * p * u)
    <2>1. 100 * p * (u * q) + 100 * p * rest = 100 * p * value * s
      <3>1. u * q + rest = value * s
        BY <1>1, <1>5
      <3> QED
        BY <1>1, <1>5, <1>6, <3>1
    <2>2. 100 * p * value * s + gap * s = (p - 1) * f * before * s
      BY <1>1
    <2>3. f * room + (p - 1) * f * before * s = f * (p * p * u)
      <3>1. (p - 1) * w + room = p * p * u
        BY <1>1
      <3>2. (p - 1) * f * before * s = f * ((p - 1) * w)
        BY <1>1
      <3>3. (p - 1) * w \in Int
        BY <1>1
      <3> HIDE DEF room
      <3> QED
        BY <1>1, <1>6, <3>1, <3>2, <3>3
    <2> HIDE DEF room, gap, rest
    <2>4. /\ 100 * p * (u * q) \in Int /\ 100 * p * rest \in Int /\ gap * s \in Int /\ f * room \in Int
          /\ 100 * p * value * s \in Int
      BY <1>1, <1>5, <1>6
    <2> QED
      BY <2>1, <2>2, <2>3, <2>4
  <1>8. 100 * p * rest \in Nat /\ gap * s \in Nat /\ f * room \in Nat
    <2> HIDE DEF room, gap, rest
    <2> QED
      BY <1>1, <1>6
  <1> HIDE DEF room, gap, rest
  <1>9. 100 * p * (u * q) <= f * (p * p * u)
    BY <1>1, <1>5, <1>7, <1>8
  <1>10. q * 100 <= p * f
    <2> DEFINE c == p * u
               x == q * 100
               y == p * f
    <2>1. c \in Nat \ {0} /\ x \in Nat /\ y \in Nat
      BY <1>1, <1>5
    <2>2. c * x <= c * y
      <3>1. c * x = 100 * p * (u * q) /\ c * y = f * (p * p * u)
        BY <1>1, <1>5
      <3> QED
        BY <1>9, <3>1
    <2> HIDE DEF c, x, y
    <2>3. ASSUME x > y PROVE FALSE
      <3>1. PICK d \in Nat \ {0} : x = y + d
        <4>1. x - y \in Nat \ {0} /\ x = y + (x - y)
          BY <2>1, <2>3
        <4> QED
          BY <4>1
      <3>2. c * x = c * y + c * d /\ c * d \in Nat \ {0} /\ c * y \in Nat
        BY <2>1, <3>1
      <3> QED
        BY <2>2, <3>2
    <2> QED
      BY <2>1, <2>3 DEF x, y
  <1> QED
    BY <1>4, <1>10 DEF FallsBy, p, f

\* What LossesHalt says of a step.
LossHalts ==
    phase = "valuing"
      /\ 100 * units.price * Value(Closes) <= (units.price - 1) * (100 - DailyLoss) * worth
      => halt' # NoDay

\* A fall of a day's limit in what the account is worth, deposits left out, halts it at once,
\* through splits and days without a bar: on any day whose price leaves the room to tell, and
\* on all of them in an account whose price always does.
THEOREM LossesAlwaysHalt ==
    EngineSpec => [][ContributionCounts => LossHalts]_all /\ ([]ContributionCounts => LossesHalt)
  <1>1. ASSUME DayInv /\ FreezeInv /\ LeftInv, EngineNext, ContributionCounts, phase = "valuing",
               100 * units.price * Value(Closes) <= (units.price - 1) * (100 - DailyLoss) * worth
        PROVE  halt' # NoDay
    <2> DEFINE after == Revalued(units, Value(Closes))
    <2>1. Revalue
      BY <1>1 DEF EngineNext, StartDay, Pay, PayTax, OpenMarket, Fill, CloseSession, Decide
    <2>2. halt' = Halted(after)
      BY <2>1 DEF Revalue
    <2>3. Value(Closes) \in Nat
      BY <1>1, AccountHasValue DEF LeftInv
    <2>4. units \in Funds /\ worth \in Nat /\ Priced(units, worth) /\ units.units > 0
      BY <1>1 DEF LeftInv, UnitsKept, Funds
    <2>5. after.price = PriceOf(Value(Closes), units)
      BY <2>3, <2>4, RevaluedIsPriced
    <2>6. FallsBy(DailyLoss, units.price, after.price)
      BY <1>1, <2>3, <2>4, <2>5, LossShows DEF ContributionCounts
    <2> HIDE DEF after
    <2>7. Breached(units, after)
      BY <2>4, <2>6 DEF Breached
    <2>8. today # NoDay
      BY <1>1 DEF DayInv, Types, Days, NoDay
    <2> QED
      BY <2>2, <2>7, <2>8 DEF Halted
  <1> DEFINE Counted == ContributionCounts => LossHalts
  <1>2. (DayInv /\ FreezeInv /\ LeftInv) /\ [EngineNext]_all => [Counted]_all
    BY <1>1 DEF LossHalts
  <1>3. EngineSpec => [][Counted]_all
    <2> HIDE DEF Counted
    <2> QED
      BY <1>2, DaysLeaveOrder, PTL DEF EngineSpec
  <1>4. ContributionCounts /\ [Counted]_all => [LossHalts]_all
    OBVIOUS
  <1>5. []ContributionCounts /\ [][Counted]_all => [][LossHalts]_all
    <2> HIDE DEF Counted
    <2> QED
      BY <1>4, PTL
  <1>6. [][LossHalts]_all => LossesHalt
    BY PTL DEF LossHalts, LossesHalt
  <1> QED
    BY <1>3, <1>5, <1>6, PTL

-----------------------------------------------------------------------------
(* The state saved and read back.                                          *)

\* The stocks of a set by symbol are a sequence of all of them.
LEMMA ListedIsAll ==
    ASSUME NEW stocks \in SUBSET Stock
    PROVE  Listed(stocks) \in Seq(Stock) /\ ToSet(Listed(stocks)) = stocks
  <1> DEFINE n == Len(BySymbol)
             Next(i, q) == IF BySymbol[i] \in stocks THEN Append(q, BySymbol[i]) ELSE q
             Is(g) == g = [i \in 0..n |-> IF i = 0 THEN <<>> ELSE Next(i, g[i - 1])]
             upTo == CHOOSE g : Is(g)
             V == Seq(Stock)
             none == <<>>
  <1>1. /\ n \in Nat /\ \A i \in 1..n : BySymbol[i] \in Stock
        /\ \A s \in Stock : \E i \in 1..n : BySymbol[i] = s
    BY EngineConstants
  <1>2. ASSUME NEW i \in 1..n, NEW q \in V
        PROVE  /\ Next(i, q) \in V
               /\ ToSet(Next(i, q)) = ToSet(q) \union {s \in stocks : s = BySymbol[i]}
    <2>1. CASE BySymbol[i] \in stocks
      <3> DEFINE s == BySymbol[i]
                 r == Append(q, s)
      <3>1. s \in Stock /\ Next(i, q) = r /\ {t \in stocks : t = s} = {s}
        BY <1>1, <2>1
      <3>2. /\ r \in V /\ Len(q) \in Nat /\ DOMAIN q = 1..Len(q) /\ DOMAIN r = 1..Len(q) + 1
            /\ r[Len(q) + 1] = s /\ \A j \in 1..Len(q) : r[j] = q[j]
        BY <3>1
      <3> HIDE DEF r, s
      <3>3. ToSet(r) = ToSet(q) \union {s}
        <4>1. Len(q) + 1 \in DOMAIN r /\ \A j \in 1..Len(q) : j \in DOMAIN r
          BY <3>2
        <4>2. \A j \in DOMAIN r : j \in 1..Len(q) \/ j = Len(q) + 1
          BY <3>2
        <4> QED
          BY <3>2, <4>1, <4>2 DEF ToSet
      <3> QED
        BY <3>1, <3>2, <3>3 DEF s
    <2>2. CASE BySymbol[i] \notin stocks
      <3>1. Next(i, q) = q /\ {s \in stocks : s = BySymbol[i]} = {}
        BY <2>2
      <3> QED
        BY <3>1
    <2> QED
      BY <2>1, <2>2
  <1> HIDE DEF Next, V
  <1>3. \E g : Is(g)
    <2> DEFINE F == [p \in (1..n) \X V |-> Next(p[1], p[2])]
    <2>1. F \in [(1..n) \X V -> V] /\ none \in V
      BY <1>2 DEF V
    <2>2. \A i \in 1..n, q \in V : F[<<i, q>>] = Next(i, q)
      OBVIOUS
    <2> HIDE DEF F, n, none
    <2>3. PICK g : Steps(g, n, V, none, F)
      BY <1>1, <2>1, StepByStep
    <2>4. \A i \in 0..n : i # 0 => i \in 1..n /\ g[i - 1] \in V
      BY <1>1, <2>3 DEF Steps
    <2>5. \A i \in 0..n : g[i] = IF i = 0 THEN none ELSE Next(i, g[i - 1])
      BY <2>2, <2>3, <2>4 DEF Steps
    <2>6. g = [i \in 0..n |-> IF i = 0 THEN none ELSE Next(i, g[i - 1])]
      BY <2>3, <2>5 DEF Steps
    <2> QED
      BY <2>6 DEF none
  <1>4. Is(upTo)
    <2> HIDE DEF Is
    <2> QED
      BY <1>3
  <1>5. Listed(stocks) = upTo[n]
    BY DEF Listed, Next
  <1> HIDE DEF upTo
  <1>6. upTo[0] = none /\ \A i \in 1..n : upTo[i] = Next(i, upTo[i - 1])
    <2> HIDE DEF n
    <2>1. 0 \in 0..n /\ \A i \in 1..n : i \in 0..n /\ i # 0
      BY <1>1
    <2>2. \A i \in 0..n : upTo[i] = IF i = 0 THEN none ELSE Next(i, upTo[i - 1])
      BY <1>4
    <2> QED
      BY <2>1, <2>2
  <1> HIDE DEF Is, n
  <1> DEFINE Seen(i) == {s \in stocks : \E j \in 1..i : s = BySymbol[j]}
             Good == {i \in Nat : i <= n => upTo[i] \in V /\ ToSet(upTo[i]) = Seen(i)}
  <1>7. 0 \in Good
    <2>1. none \in V /\ ToSet(none) = {} /\ Seen(0) = {}
      BY DEF V, ToSet
    <2> HIDE DEF none, Seen
    <2> QED
      BY <1>6, <2>1
  <1>8. ASSUME NEW k \in Nat, k \in Good PROVE k + 1 \in Good
    <2>1. SUFFICES ASSUME k + 1 <= n PROVE upTo[k + 1] \in V /\ ToSet(upTo[k + 1]) = Seen(k + 1)
      OBVIOUS
    <2>2. k + 1 \in 1..n /\ upTo[k] \in V /\ ToSet(upTo[k]) = Seen(k) /\ (k + 1) - 1 = k
      BY <1>1, <1>8, <2>1
    <2>3. upTo[k + 1] = Next(k + 1, upTo[k])
      BY <1>6, <2>2
    <2>4. /\ upTo[k + 1] \in V
          /\ ToSet(upTo[k + 1]) = Seen(k) \union {s \in stocks : s = BySymbol[k + 1]}
      BY <1>2, <2>2, <2>3
    <2>5. \A j \in 1..k + 1 : j \in 1..k \/ j = k + 1
      OBVIOUS
    <2>6. Seen(k + 1) = Seen(k) \union {s \in stocks : s = BySymbol[k + 1]}
      BY <2>5
    <2> QED
      BY <2>4, <2>6
  <1>9. n \in Good
    <2> HIDE DEF Good
    <2> QED
      BY <1>1, <1>7, <1>8, Naturals
  <1>10. Seen(n) = stocks
    BY <1>1
  <1> HIDE DEF Seen
  <1>11. upTo[n] \in V /\ ToSet(upTo[n]) = Seen(n)
    BY <1>1, <1>9
  <1> QED
    BY <1>5, <1>10, <1>11 DEF V

\* Pairs name the stocks they are of, and read back each has its value.
LEMMA PairsReadBack ==
    ASSUME NEW stocks \in SUBSET Stock, NEW of
    PROVE  LET pairs == Pairs(stocks, of)
           IN /\ Keys(pairs) = stocks
              /\ ReadPairs(pairs) = [s \in stocks |-> of[s]]
              /\ \A i \in DOMAIN pairs : pairs[i][1] \in stocks /\ pairs[i][2] = of[pairs[i][1]]
              /\ [i \in DOMAIN pairs |-> pairs[i][1]] = Listed(stocks)
  <1> DEFINE pairs == Pairs(stocks, of)
             listed == Listed(stocks)
  <1>1. listed \in Seq(Stock) /\ ToSet(listed) = stocks
    BY ListedIsAll
  <1>2. pairs = [i \in DOMAIN listed |-> <<listed[i], of[listed[i]]>>]
    BY DEF Pairs
  <1> HIDE DEF pairs, listed
  <1>3. /\ DOMAIN pairs = DOMAIN listed
        /\ \A i \in DOMAIN pairs : pairs[i][1] = listed[i] /\ pairs[i][2] = of[pairs[i][1]]
    BY <1>2
  <1>4. Keys(pairs) = stocks
    BY <1>1, <1>3 DEF Keys, ToSet
  <1>5. ASSUME NEW s \in stocks
        PROVE  pairs[CHOOSE i \in DOMAIN pairs : pairs[i][1] = s][2] = of[s]
    <2> DEFINE j == CHOOSE i \in DOMAIN pairs : pairs[i][1] = s
    <2>1. \E i \in DOMAIN pairs : pairs[i][1] = s
      BY <1>4 DEF Keys
    <2>2. j \in DOMAIN pairs /\ pairs[j][1] = s
      BY <2>1
    <2> QED
      BY <1>3, <2>2
  <1>6. ReadPairs(pairs) = [s \in stocks |-> of[s]]
    BY <1>4, <1>5 DEF ReadPairs
  <1>7. \A i \in DOMAIN pairs : pairs[i][1] \in stocks
    BY <1>4 DEF Keys
  <1>8. [i \in DOMAIN pairs |-> pairs[i][1]] = listed
    <2>1. listed = [i \in DOMAIN listed |-> listed[i]]
      BY <1>1
    <2> QED
      BY <1>3, <2>1
  <1> QED
    BY <1>3, <1>4, <1>6, <1>7, <1>8 DEF pairs, listed

\* What a day leaves is what the constructors that read it accept.
LEMMA StateIsReadable ==
    ASSUME DayInv, FreezeInv, LeftInv
    PROVE  Readable(EncodeState)
  <1> DEFINE held == {s \in Stock : Held(s)}
             listed == Pairs(held, positions)
  <1>1. /\ positions \in [Stock -> Position] /\ ledger \in Seq(CashMovement)
        /\ pending \in SUBSET Orders
    BY DEF DayInv, Types, Consistent, PortfolioTypeOK
  <1>2. CheckPositions(listed)
    <2>1. /\ Keys(listed) = held
          /\ \A i \in DOMAIN listed : listed[i][1] \in held /\ listed[i][2] = positions[listed[i][1]]
          /\ [i \in DOMAIN listed |-> listed[i][1]] = Listed(held)
      <3>1. held \in SUBSET Stock
        OBVIOUS
      <3> HIDE DEF held
      <3> QED
        BY <3>1, PairsReadBack
    <2>2. ASSUME NEW s \in held PROVE IsPosition(positions[s])
      <3>1. positions[s] \in Position /\ positions[s].quantity > 0
        BY <1>1, <2>2 DEF Held
      <3> QED
        BY <3>1 DEF Position, IsPosition
    <2> HIDE DEF listed, held
    <2> QED
      BY <2>1, <2>2 DEF CheckPositions
  <1>3. ASSUME NEW i \in DOMAIN ledger
        PROVE  IsMovement(ledger[i]) /\ (i > 1 => ledger[i - 1].day <= ledger[i].day)
    <2>1. ledger[i] \in CashMovement
      BY <1>1
    <2> QED
      BY <2>1 DEF CashMovement, IsMovement, LeftInv, DaysInOrder
  <1>4. IsPortfolio(EncodePortfolio)
    <2>1. EncodePortfolio.positions = listed /\ EncodePortfolio.ledger = ledger
      BY DEF EncodePortfolio
    <2> HIDE DEF listed, held
    <2> QED
      BY <1>2, <1>3, <2>1 DEF IsPortfolio
  <1>5. \A o \in pending : IsOrder(o)
    BY <1>1 DEF Orders, IsOrder
  <1>6. ASSUME NEW i \in DOMAIN entitlements PROVE IsEntitlement(entitlements[i])
    <2> DEFINE e == entitlements[i]
    <2>1. /\ earned \in SUBSET Earnings /\ ToSet(entitlements) \subseteq earned
          /\ \A x \in earned : x.payDate = x.exDate + PayLag
      BY DEF DayInv, DividendsKept
    <2>2. e \in earned
      BY <1>6, <2>1 DEF ToSet
    <2>3. e.exDate \in Nat /\ e.gross \in Nat \ {0} /\ e.payDate = e.exDate + PayLag
      BY <2>1, <2>2 DEF Earnings
    <2>4. PayLag \in Nat \ {0}
      BY EngineConstants
    <2> QED
      BY <2>3, <2>4 DEF IsEntitlement
  <1>7. IsUnitValue(units)
    BY DEF LeftInv, UnitsKept, Funds, IsUnitValue
  <1>8. /\ EncodeState.portfolio = EncodePortfolio /\ EncodeState.pending = pending
        /\ EncodeState.entitlements = entitlements /\ EncodeState.units = units
    BY DEF EncodeState
  <1> QED
    BY <1>4, <1>5, <1>6, <1>7, <1>8 DEF Readable

\* Read back, it is what it was: the positions, what is worked out again, and the mappings.
LEMMA StateReadsBack ==
    ASSUME DayInv, FreezeInv
    PROVE  DecodeState(EncodeState) = State
  <1> DEFINE held == {s \in Stock : Held(s)}
             priced == {s \in Stock : closes[s] # NoBar}
             icy == [s \in frozen |-> "frozen"]
             heldBack == ReadPairs(Pairs(held, positions))
             pricedBack == ReadPairs(Pairs(priced, closes))
             positionsBack == [s \in Stock |-> IF s \in DOMAIN heldBack THEN heldBack[s] ELSE NoPosition]
             closesBack == [s \in Stock |-> IF s \in DOMAIN pricedBack THEN pricedBack[s] ELSE NoBar]
  <1>1. /\ positions \in [Stock -> Position] /\ closes \in [Stock -> Nat \union {NoBar}]
        /\ ledger \in Seq(CashMovement) /\ OpenSettlesLater /\ BalanceIsSum /\ frozen \in SUBSET Stock
    BY DEF DayInv, Types, Consistent, PortfolioTypeOK, FreezeInv
  <1>2. positionsBack = positions
    <2>1. heldBack = [s \in held |-> positions[s]]
      BY PairsReadBack
    <2> HIDE DEF heldBack
    <2>2. ASSUME NEW s \in Stock PROVE positionsBack[s] = positions[s]
      <3>1. CASE s \in held
        BY <2>1, <3>1
      <3>2. CASE s \notin held
        <4>1. positions[s] \in Position /\ ~(positions[s].quantity > 0)
          BY <1>1, <3>2 DEF Held
        <4>2. positions[s] = NoPosition
          BY <4>1 DEF Position, NoPosition
        <4> QED
          BY <2>1, <3>2, <4>2
      <3> QED
        BY <3>1, <3>2
    <2>3. positions = [s \in Stock |-> positions[s]]
      BY DEF FreezeInv
    <2> QED
      BY <2>2, <2>3
  <1>3. closesBack = closes
    <2>1. pricedBack = [s \in priced |-> closes[s]]
      <3>1. priced \in SUBSET Stock
        OBVIOUS
      <3> HIDE DEF priced
      <3> QED
        BY <3>1, PairsReadBack
    <2> HIDE DEF pricedBack
    <2>2. \A s \in Stock : closesBack[s] = closes[s]
      BY <2>1
    <2> QED
      BY <1>1, <2>2
  <1>4. BalanceOf(ledger) = balance
    BY <1>1 DEF BalanceOf, BalanceIsSum, Cash, Amounts
  <1>5. OpenIn(ledger) = open
    <2>1. CASE ledger = <<>>
      BY <1>1, <2>1 DEF OpenIn, OpenSettlesLater
    <2>2. CASE ledger # <<>>
      BY <1>1, <2>2 DEF OpenIn, OpenSettlesLater, LastDay
    <2> QED
      BY <2>1, <2>2
  <1>6. Keys(Pairs(frozen, icy)) = frozen
    BY <1>1, PairsReadBack
  <1>7. /\ EncodeState.portfolio.positions = Pairs(held, positions)
        /\ EncodeState.portfolio.ledger = ledger /\ EncodeState.lastCloses = Pairs(priced, closes)
        /\ EncodeState.frozen = Pairs(frozen, icy) /\ EncodeState.pending = pending
        /\ EncodeState.entitlements = entitlements /\ EncodeState.units = units
        /\ EncodeState.halt = halt /\ EncodeState.lastDay = today
    BY DEF EncodeState, EncodePortfolio
  <1> HIDE DEF held, priced, icy
  <1>8. DecodeState(EncodeState) =
          [positions |-> positionsBack, ledger |-> ledger, balance |-> BalanceOf(ledger),
           open |-> OpenIn(ledger), pending |-> pending, entitlements |-> entitlements,
           frozen |-> Keys(Pairs(frozen, icy)), closes |-> closesBack, units |-> units,
           halt |-> halt, lastDay |-> today]
    BY <1>7, Zenon DEF DecodeState
  <1> HIDE DEF positionsBack, closesBack
  <1> QED
    BY <1>2, <1>3, <1>4, <1>5, <1>6, <1>8 DEF State

\* A paper account goes on as a backtest does: whatever a day leaves is accepted when the next
\* process reads it, is what it was, caches included, and has a close for all that is held.
THEOREM PaperGoesOn == EngineSpec => []SavedStateCarriesOn
  <1>1. DayInv /\ FreezeInv /\ LeftInv => SavedStateCarriesOn
    <2> SUFFICES ASSUME DayInv /\ FreezeInv /\ LeftInv, phase = "closed"
                 PROVE  /\ Readable(EncodeState) /\ DecodeState(EncodeState) = State
                        /\ EveryHoldingHasAClose
      BY DEF SavedStateCarriesOn
    <2>1. EveryHoldingHasAClose
      BY DEF LeftInv, HasCloses, EveryHoldingHasAClose
    <2> QED
      BY <2>1, StateIsReadable, StateReadsBack
  <1> QED
    BY <1>1, DaysLeaveOrder, PTL

-----------------------------------------------------------------------------
(* The reports and the ledger, day by day.                                 *)

Trades == [bought : Nat, sold : Nat, fee : Nat, daily : Nat, paid : Seq(Nat \ {0}), tax : Nat]
DayReports ==
    [day : Nat, value : Int, unitPrice : Nat, bought : Nat, sold : Nat, fee : Nat, daily : Nat,
     paid : Seq(Nat \ {0}), tax : Nat]

\* One report for each day decided; what the day under way did is noted apart, its charge
\* after the last fill.
ReportTypes ==
    /\ soFar \in Trades /\ reports \in Seq(DayReports)
    /\ Len(reports) = IF phase = "closed" THEN today ELSE today - 1
    /\ \A d \in DOMAIN reports : reports[d].day = d
    /\ phase = "closed" => soFar = NothingYet
    /\ phase \in {"paying", "filling"} => soFar.daily = 0

\* What is known of a day: its report, what is noted so far, or nothing.
OfDay(d) == IF d \in DOMAIN reports THEN reports[d] ELSE IF d = today THEN soFar ELSE NothingYet

\* What the ledger booked on a day is what was done on it.
BookedFor(d, done) ==
    /\ Cash(BookedAs("buy", d)) + Cash(BookedAs("sell", d)) = done.sold - done.bought - done.fee
    /\ Cash(BookedAs("daily cost", d)) = -done.daily
    /\ Cash(BookedAs("dividend", d)) = Gross(done)
    /\ Cash(BookedAs("tax", d)) = -done.tax
AllBooked == \A d \in Days : BookedFor(d, OfDay(d))

\* Nothing is booked ahead, but for the opening deposit.
DaysPast == \A i \in DOMAIN ledger : ledger[i].day <= today \/ ledger[i].day = 1

\* Each dividend is taxed by itself, one of them a step after it is paid.
Taxes(done) == SumFunction([k \in DOMAIN done.paid |-> DividendTax(done.paid[k])])
FullyTaxed ==
    /\ soFar.tax + owed = Taxes(soFar)
    /\ \A d \in DOMAIN reports : reports[d].tax = Taxes(reports[d])

\* The high-water mark is a price that was reported, or is about to be.
PriceAt(d) == IF d = 0 THEN Scale ELSE reports[d].unitPrice
PricesKept ==
    /\ units.price <= units.high
    /\ \A d \in 0..Len(reports) : PriceAt(d) <= units.high
    /\ \/ \E d \in 0..Len(reports) : PriceAt(d) = units.high
       \/ phase = "deciding" /\ units.price = units.high
    /\ phase # "deciding" => units.price = PriceAt(Len(reports))
    /\ phase = "closed" /\ reports # <<>> => reports[Len(reports)].value = Value(closes)

ReportsInv == ReportTypes /\ AllBooked /\ DaysPast /\ FullyTaxed /\ PricesKept

-----------------------------------------------------------------------------
(* What is paid on a day.                                                  *)

\* The sum of a list of numbers with one more at its end.
LEMMA ListMore ==
    ASSUME NEW n \in Nat, NEW f, DOMAIN f = 1..n, \A k \in 1..n : f[k] \in Int,
           NEW g, DOMAIN g = 1..n + 1, g[n + 1] \in Int, \A k \in 1..n : g[k] = f[k]
    PROVE  SumFunction(g) = g[n + 1] + SumFunction(f)
  <1>1. IsFiniteSet(1..n) /\ 1..n + 1 = (1..n) \union {n + 1}
    <2>1. IsFiniteSet(1..n)
      BY FS_Interval
    <2>2. 1..n + 1 = (1..n) \union {n + 1}
      OBVIOUS
    <2> QED
      BY <2>1, <2>2
  <1>2. SumFunction(g) = SumFunctionOnSet(g, (1..n) \union {n + 1})
    BY <1>1 DEF SumFunction
  <1>3. n + 1 \notin 1..n /\ \A k \in (1..n) \union {n + 1} : g[k] \in Int
    OBVIOUS
  <1>4. SumFunctionOnSet(g, (1..n) \union {n + 1}) = g[n + 1] + SumFunctionOnSet(g, 1..n)
    BY <1>1, <1>3, SumAdd
  <1>5. SumFunctionOnSet(f, 1..n) = SumFunctionOnSet(g, 1..n)
    BY <1>1, SumSame
  <1> QED
    BY <1>2, <1>4, <1>5 DEF SumFunction

\* One dividend more, with its tax.
LEMMA PaidMore ==
    ASSUME NEW paid \in Seq(Nat \ {0}), NEW gross \in Nat \ {0}
    PROVE  /\ SumFunction(paid) \in Nat
           /\ SumFunction([k \in DOMAIN paid |-> DividendTax(paid[k])]) \in Nat
           /\ LET more == Append(paid, gross)
              IN /\ more \in Seq(Nat \ {0})
                 /\ SumFunction(more) = gross + SumFunction(paid)
                 /\ SumFunction([k \in DOMAIN more |-> DividendTax(more[k])])
                      = DividendTax(gross) + SumFunction([k \in DOMAIN paid |-> DividendTax(paid[k])])
  <1> DEFINE n == Len(paid)
             more == Append(paid, gross)
             taxes == [k \in DOMAIN paid |-> DividendTax(paid[k])]
             moreTaxes == [k \in DOMAIN more |-> DividendTax(more[k])]
  <1>1. /\ n \in Nat /\ DOMAIN paid = 1..n /\ \A k \in 1..n : paid[k] \in Nat \ {0}
        /\ more \in Seq(Nat \ {0}) /\ DOMAIN more = 1..n + 1 /\ more[n + 1] = gross
        /\ \A k \in 1..n : more[k] = paid[k]
    OBVIOUS
  <1>2. \A a \in Nat \ {0} : DividendTax(a) \in Nat
    BY TaxNat
  <1> HIDE DEF more, n
  <1>3. /\ DOMAIN taxes = 1..n /\ \A k \in 1..n : taxes[k] \in Nat
        /\ DOMAIN moreTaxes = 1..n + 1 /\ moreTaxes[n + 1] = DividendTax(gross)
        /\ \A k \in 1..n : moreTaxes[k] = taxes[k]
    BY <1>1, <1>2
  <1> HIDE DEF taxes, moreTaxes
  <1>4. SumFunction(paid) \in Nat /\ SumFunction(taxes) \in Nat
    <2>1. IsFiniteSet(1..n)
      BY <1>1, FS_Interval
    <2>2. SumFunctionOnSet(paid, 1..n) \in Nat /\ SumFunctionOnSet(taxes, 1..n) \in Nat
      BY <1>1, <1>3, <2>1, SumNat
    <2> QED
      BY <1>1, <1>3, <2>2 DEF SumFunction
  <1>5. SumFunction(more) = gross + SumFunction(paid)
    BY <1>1, ListMore
  <1>6. SumFunction(moreTaxes) = DividendTax(gross) + SumFunction(taxes)
    <2>1. /\ \A k \in 1..n : taxes[k] \in Int /\ moreTaxes[k] = taxes[k]
          /\ moreTaxes[n + 1] \in Int /\ DOMAIN taxes = 1..n /\ DOMAIN moreTaxes = 1..n + 1
      BY <1>1, <1>2, <1>3
    <2>2. SumFunction(moreTaxes) = moreTaxes[n + 1] + SumFunction(taxes)
      BY <1>1, <2>1, ListMore
    <2> QED
      BY <1>3, <2>2
  <1> QED
    BY <1>1, <1>4, <1>5, <1>6 DEF more, taxes, moreTaxes

-----------------------------------------------------------------------------
(* What a step books and notes.                                            *)

\* What a movement of a kind adds to what is noted of its day.
Noted(kind, amount, done, after) ==
    /\ after.sold - after.bought - after.fee
         = (done.sold - done.bought - done.fee) + (IF kind \in {"buy", "sell"} THEN amount ELSE 0)
    /\ after.daily = done.daily - (IF kind = "daily cost" THEN amount ELSE 0)
    /\ Gross(after) = Gross(done) + (IF kind = "dividend" THEN amount ELSE 0)
    /\ after.tax = done.tax - (IF kind = "tax" THEN amount ELSE 0)

\* What a day comes to are numbers.
LEMMA TradesAreNumbers ==
    ASSUME NEW done \in Trades
    PROVE  /\ {done.bought, done.sold, done.fee, done.daily, done.tax} \subseteq Nat
           /\ done.paid \in Seq(Nat \ {0}) /\ Gross(done) \in Nat /\ Taxes(done) \in Nat
  <1>1. /\ {done.bought, done.sold, done.fee, done.daily, done.tax} \subseteq Nat
        /\ done.paid \in Seq(Nat \ {0})
    BY DEF Trades
  <1>2. 1 \in Nat \ {0}
    OBVIOUS
  <1> QED
    BY <1>1, <1>2, PaidMore DEF Gross, Taxes

\* While a day is under way it has no report.
LEMMA DayUnderWay ==
    ASSUME Types, ReportTypes, phase # "closed"
    PROVE  today \in Days /\ today \in Nat \ {0} /\ today \notin DOMAIN reports /\ OfDay(today) = soFar
  <1>1. today \in Days /\ today \in Nat \ {0}
    BY DEF Types, Days
  <1>2. today \notin DOMAIN reports
    BY <1>1 DEF ReportTypes
  <1> QED
    BY <1>1, <1>2 DEF OfDay

\* What a booking moves under its kind, on its day.
PartOf(kind, amount, as) == IF kind = as THEN amount ELSE 0
Moved(kind, amount, as, old) == IF kind = as THEN amount + old ELSE old

LEMMA MovedOnce ==
    ASSUME Consistent, today \in Days, NEW kind \in Kind, NEW amount \in Int,
           NEW settles \in Days \union 1..MaxDay + Lag, Book(kind, amount, today, settles),
           NEW as \in Kind, NEW d \in Days
    PROVE  /\ Cash(BookedAs(as, d)) \in Int
           /\ d = today => Cash(BookedAs(as, d))' = Moved(kind, amount, as, Cash(BookedAs(as, d)))
           /\ d # today => Cash(BookedAs(as, d))' = Cash(BookedAs(as, d))
  <1>1. /\ Cash(BookedAs(as, d))' = IF as = kind /\ d = today
                                       THEN amount + Cash(BookedAs(as, d))
                                       ELSE Cash(BookedAs(as, d))
        /\ Cash(BookedAs(as, d)) \in Int
    BY BookedMore
  <1> QED
    BY <1>1 DEF Moved

\* A movement adds its amount to its own kind.
LEMMA MovedBy ==
    ASSUME NEW kind, NEW as, NEW amount \in Int, NEW old \in Int
    PROVE  Moved(kind, amount, as, old) = old + PartOf(kind, amount, as) /\ PartOf(kind, amount, as) \in Int
  <1>1. CASE kind = as
    BY <1>1 DEF Moved, PartOf
  <1>2. CASE ~(kind = as)
    <2>1. Moved(kind, amount, as, old) = old /\ PartOf(kind, amount, as) = 0
      BY <1>2, Zenon DEF Moved, PartOf
    <2> QED
      BY <2>1
  <1> QED
    BY <1>1, <1>2

\* One of two kinds at most.
LEMMA EitherKind ==
    ASSUME NEW kind, NEW one, NEW other, one # other, NEW amount \in Int
    PROVE  (IF kind \in {one, other} THEN amount ELSE 0)
             = (IF kind = one THEN amount ELSE 0) + (IF kind = other THEN amount ELSE 0)
  OBVIOUS

\* A movement booked today and noted leaves ledger and reports side by side.
LEMMA BookedAndNoted ==
    ASSUME DayInv, ReportsInv, phase # "closed", today' = today, reports' = reports,
           soFar' \in Trades, NEW kind \in Kind, NEW amount \in Int,
           NEW settles \in Days \union 1..MaxDay + Lag, Book(kind, amount, today, settles),
           Noted(kind, amount, soFar, soFar')
    PROVE  AllBooked' /\ DaysPast'
  <1>1. Types /\ Consistent /\ ReportTypes /\ soFar \in Trades
    BY DEF DayInv, Types, ReportsInv, ReportTypes
  <1>2. today \in Days /\ today \in Nat \ {0} /\ today \notin DOMAIN reports /\ OfDay(today) = soFar
    BY <1>1, DayUnderWay
  <1>3. /\ OfDay(today)' = soFar'
        /\ \A d : d # today => OfDay(d)' = OfDay(d)
    BY <1>2 DEF OfDay
  <1>4. ASSUME NEW d \in Days
        PROVE  BookedFor(d, OfDay(d))'
    <2>1. "buy" \in Kind /\ "sell" \in Kind /\ "daily cost" \in Kind /\ "dividend" \in Kind /\ "tax" \in Kind
      BY DEF Kind
    <2>2. /\ Cash(BookedAs("buy", d)) \in Int /\ Cash(BookedAs("sell", d)) \in Int
          /\ Cash(BookedAs("daily cost", d)) \in Int /\ Cash(BookedAs("dividend", d)) \in Int
          /\ Cash(BookedAs("tax", d)) \in Int
      BY <1>1, <1>2, <2>1, MovedOnce
    <2>3. BookedFor(d, OfDay(d))
      BY DEF ReportsInv, AllBooked
    <2>4. CASE d # today
      <3>1. OfDay(d)' = OfDay(d)
        BY <1>3, <2>4
      <3>2. /\ Cash(BookedAs("buy", d))' = Cash(BookedAs("buy", d))
            /\ Cash(BookedAs("sell", d))' = Cash(BookedAs("sell", d))
            /\ Cash(BookedAs("daily cost", d))' = Cash(BookedAs("daily cost", d))
            /\ Cash(BookedAs("dividend", d))' = Cash(BookedAs("dividend", d))
            /\ Cash(BookedAs("tax", d))' = Cash(BookedAs("tax", d))
        BY <1>1, <1>2, <2>1, <2>4, MovedOnce
      <3> QED
        BY <2>3, <3>1, <3>2 DEF BookedFor, Gross
    <2>5. CASE d = today
      <3>1. BookedFor(d, soFar) /\ OfDay(d)' = soFar'
        BY <1>2, <1>3, <2>3, <2>5
      <3>2. /\ soFar.bought \in Nat /\ soFar.sold \in Nat /\ soFar.fee \in Nat /\ soFar.daily \in Nat
            /\ soFar.tax \in Nat /\ Gross(soFar) \in Nat
            /\ soFar'.bought \in Nat /\ soFar'.sold \in Nat /\ soFar'.fee \in Nat /\ soFar'.daily \in Nat
            /\ soFar'.tax \in Nat /\ Gross(soFar') \in Nat
        BY <1>1, TradesAreNumbers
      <3> DEFINE buy == Cash(BookedAs("buy", d))
                 sell == Cash(BookedAs("sell", d))
                 charge == Cash(BookedAs("daily cost", d))
                 dividend == Cash(BookedAs("dividend", d))
                 tax == Cash(BookedAs("tax", d))
      <3>3. /\ buy' = Moved(kind, amount, "buy", buy) /\ sell' = Moved(kind, amount, "sell", sell)
            /\ charge' = Moved(kind, amount, "daily cost", charge)
            /\ dividend' = Moved(kind, amount, "dividend", dividend)
            /\ tax' = Moved(kind, amount, "tax", tax)
        <4> DEFINE moved(as) == Cash(BookedAs(as, d))' = Moved(kind, amount, as, Cash(BookedAs(as, d)))
        <4>1. ASSUME NEW as \in Kind PROVE moved(as)
          BY <1>1, <1>2, <2>5, MovedOnce
        <4> HIDE DEF moved
        <4>2. moved("buy") /\ moved("sell") /\ moved("daily cost") /\ moved("dividend") /\ moved("tax")
          BY <2>1, <4>1, Zenon
        <4> QED
          BY <4>2, Zenon DEF moved
      <3>4. /\ buy + sell = soFar.sold - soFar.bought - soFar.fee
            /\ charge = -soFar.daily /\ dividend = Gross(soFar) /\ tax = -soFar.tax
        BY <3>1 DEF BookedFor
      <3>5. /\ buy \in Int /\ sell \in Int /\ charge \in Int /\ dividend \in Int /\ tax \in Int
        BY <2>2
      <3> HIDE DEF buy, sell, charge, dividend, tax
      <3> DEFINE bought == PartOf(kind, amount, "buy")
                 sold == PartOf(kind, amount, "sell")
                 traded == IF kind \in {"buy", "sell"} THEN amount ELSE 0
                 charged == PartOf(kind, amount, "daily cost")
                 paid == PartOf(kind, amount, "dividend")
                 taxed == PartOf(kind, amount, "tax")
      <3>6. bought \in Int /\ sold \in Int /\ charged \in Int /\ paid \in Int /\ taxed \in Int
        BY <3>5, MovedBy, Zenon
      <3>7. /\ buy' = buy + bought /\ sell' = sell + sold /\ charge' = charge + charged
            /\ dividend' = dividend + paid /\ tax' = tax + taxed
        <4>1. buy' = buy + bought
          BY <3>3, <3>5, MovedBy, Zenon
        <4>2. sell' = sell + sold
          BY <3>3, <3>5, MovedBy, Zenon
        <4>3. charge' = charge + charged
          BY <3>3, <3>5, MovedBy, Zenon
        <4>4. dividend' = dividend + paid
          BY <3>3, <3>5, MovedBy, Zenon
        <4>5. tax' = tax + taxed
          BY <3>3, <3>5, MovedBy, Zenon
        <4> QED
          BY <4>1, <4>2, <4>3, <4>4, <4>5
      <3>8. traded = bought + sold
        <4>1. "buy" # "sell"
          OBVIOUS
        <4> QED
          BY <4>1, EitherKind DEF PartOf
      <3>9. /\ soFar'.sold - soFar'.bought - soFar'.fee = (soFar.sold - soFar.bought - soFar.fee) + traded
            /\ soFar'.daily = soFar.daily - charged
            /\ Gross(soFar') = Gross(soFar) + paid
            /\ soFar'.tax = soFar.tax - taxed
        BY Zenon DEF Noted, PartOf
      <3> HIDE DEF bought, sold, traded, charged, paid, taxed
      <3>10. buy' + sell' = soFar'.sold - soFar'.bought - soFar'.fee
        BY <3>2, <3>4, <3>5, <3>6, <3>7, <3>8, <3>9
      <3>11. charge' = -soFar'.daily
        BY <3>2, <3>4, <3>6, <3>7, <3>9
      <3>12. dividend' = Gross(soFar')
        BY <3>4, <3>7, <3>9
      <3>13. tax' = -soFar'.tax
        BY <3>2, <3>4, <3>6, <3>7, <3>9
      <3> QED
        BY <3>1, <3>10, <3>11, <3>12, <3>13, Zenon DEF BookedFor, Gross, buy, sell, charge, dividend, tax
    <2> QED
      BY <2>4, <2>5
  <1>5. DaysPast'
    <2> DEFINE m == [day |-> today, kind |-> kind, amount |-> amount, settles |-> settles]
               n == Len(ledger)
    <2>1. ledger' = Append(ledger, m) /\ m.day = today
      BY DEF Book
    <2>2. ledger \in Seq(CashMovement) /\ n \in Nat /\ DOMAIN ledger = 1..n
      BY <1>1 DEF Consistent, PortfolioTypeOK
    <2> HIDE DEF m
    <2>3. DOMAIN ledger' = 1..n + 1 /\ (\A i \in 1..n : ledger'[i] = ledger[i]) /\ ledger'[n + 1] = m
      BY <2>1, <2>2
    <2>4. \A i \in 1..n : ledger[i].day <= today \/ ledger[i].day = 1
      BY <2>2 DEF ReportsInv, DaysPast
    <2> QED
      BY <1>2, <2>1, <2>2, <2>3, <2>4 DEF DaysPast
  <1> QED
    BY <1>4, <1>5 DEF AllBooked

\* What is booked for a day's trades is booked for the same trades under another name.
SameTrades(done, after) ==
    /\ after.bought = done.bought /\ after.sold = done.sold /\ after.fee = done.fee
    /\ after.daily = done.daily /\ after.paid = done.paid /\ after.tax = done.tax

LEMMA BookedStays ==
    ASSUME NEW d, UNCHANGED <<ledger, balance, open>>, BookedFor(d, OfDay(d)), SameTrades(OfDay(d), OfDay(d)')
    PROVE  BookedFor(d, OfDay(d))'
  <1>1. /\ Cash(BookedAs("buy", d))' = Cash(BookedAs("buy", d))
        /\ Cash(BookedAs("sell", d))' = Cash(BookedAs("sell", d))
        /\ Cash(BookedAs("daily cost", d))' = Cash(BookedAs("daily cost", d))
        /\ Cash(BookedAs("dividend", d))' = Cash(BookedAs("dividend", d))
        /\ Cash(BookedAs("tax", d))' = Cash(BookedAs("tax", d))
    BY CashSame
  <1>2. Gross(OfDay(d)') = Gross(OfDay(d))
    BY DEF SameTrades, Gross
  <1> QED
    BY <1>1, <1>2 DEF BookedFor, SameTrades, Gross

\* A step that books nothing changes nothing of a day it says nothing about.
LEMMA NothingBooked ==
    ASSUME ReportsInv, UNCHANGED <<ledger, balance, open>>,
           \A d \in Days : OfDay(d)' = OfDay(d)
    PROVE  AllBooked'
  <1>1. ASSUME NEW d \in Days PROVE BookedFor(d, OfDay(d))'
    <2>1. BookedFor(d, OfDay(d)) /\ SameTrades(OfDay(d), OfDay(d)')
      BY DEF ReportsInv, AllBooked, SameTrades
    <2> QED
      BY <2>1, BookedStays
  <1> QED
    BY <1>1 DEF AllBooked

\* Prices are reported, and a day decided, only at its end.
LEMMA PricesStay ==
    ASSUME PricesKept, UNCHANGED <<units, reports>>, phase # "deciding", phase' \notin {"deciding", "closed"}
    PROVE  PricesKept'
  <1>1. \A d : PriceAt(d)' = PriceAt(d)
    BY DEF PriceAt
  <1> QED
    BY <1>1 DEF PricesKept

\* Nothing noted, nothing taxed.
LEMMA NothingNoted == NothingYet \in Trades /\ Gross(NothingYet) = 0 /\ Taxes(NothingYet) = 0
  <1>1. NothingYet \in Trades /\ NothingYet.paid = <<>> /\ DOMAIN <<>> = {}
    BY DEF NothingYet, Trades
  <1>2. \A f : DOMAIN f = {} => SumFunction(f) = 0
    BY SumEmpty DEF SumFunction
  <1> QED
    BY <1>1, <1>2 DEF Gross, Taxes

\* A day begins with nothing noted.
LEMMA StartIsReported ==
    ASSUME DayInv, ReportsInv, StartDay, UNCHANGED results
    PROVE  ReportsInv'
  <1>1. Types /\ ReportTypes /\ DaysPast /\ FullyTaxed /\ PricesKept
    BY DEF DayInv, ReportsInv
  <1>2. /\ phase = "closed" /\ phase' = "paying" /\ today \in Nat /\ today' = today + 1 /\ today' \in Days
        /\ UNCHANGED <<ledger, balance, open, owed>>
    BY <1>1, StartDayDoes
  <1>3. UNCHANGED <<soFar, reports, units>> /\ soFar = NothingYet /\ Len(reports) = today
    BY <1>1, <1>2 DEF StartDay, results, ReportTypes
  <1>4. ReportTypes'
    <2>1. soFar.daily = 0
      BY <1>3 DEF NothingYet
    <2> QED
      BY <1>1, <1>2, <1>3, <2>1 DEF ReportTypes
  <1>5. AllBooked'
    <2>1. \A d \in Days : OfDay(d)' = OfDay(d)
      BY <1>2, <1>3 DEF OfDay
    <2> QED
      BY <1>2, <2>1, NothingBooked
  <1>6. DaysPast'
    <2>1. \A i \in DOMAIN ledger : ledger[i].day \in Nat
      BY <1>1 DEF Types, Consistent, PortfolioTypeOK, CashMovement, Days
    <2> QED
      BY <1>1, <1>2, <2>1 DEF DaysPast
  <1>7. FullyTaxed'
    BY <1>1, <1>2, <1>3 DEF FullyTaxed, Taxes
  <1>8. PricesKept'
    BY <1>1, <1>2, <1>3, PricesStay
  <1> QED
    BY <1>4, <1>5, <1>6, <1>7, <1>8 DEF ReportsInv

\* The market opens: nothing is booked.
LEMMA OpeningIsReported ==
    ASSUME DayInv, ReportsInv, OpenMarket, UNCHANGED results
    PROVE  ReportsInv'
  <1>1. Types /\ ReportTypes /\ DaysPast /\ FullyTaxed /\ PricesKept
    BY DEF DayInv, ReportsInv
  <1>2. /\ phase = "paying" /\ phase' = "filling"
        /\ UNCHANGED <<ledger, balance, open, owed, today, soFar, reports, units>>
    BY DEF OpenMarket, portfolio, results
  <1>3. ReportTypes'
    BY <1>1, <1>2 DEF ReportTypes
  <1>4. AllBooked'
    <2>1. \A d \in Days : OfDay(d)' = OfDay(d)
      BY <1>2 DEF OfDay
    <2> QED
      BY <1>2, <2>1, NothingBooked
  <1>5. DaysPast' /\ FullyTaxed'
    BY <1>1, <1>2 DEF DaysPast, FullyTaxed, Taxes
  <1>6. PricesKept'
    BY <1>1, <1>2, PricesStay
  <1> QED
    BY <1>3, <1>4, <1>5, <1>6 DEF ReportsInv

\* A step inside the day that notes what it books.
LEMMA BookingIsReported ==
    ASSUME DayInv, ReportsInv, UNCHANGED <<today, reports, units>>,
           phase \notin {"closed", "deciding"}, phase' \notin {"closed", "deciding"},
           soFar' \in Trades, NEW kind \in Kind, NEW amount \in Int,
           NEW settles \in Days \union 1..MaxDay + Lag, Book(kind, amount, today, settles),
           Noted(kind, amount, soFar, soFar'), soFar'.tax + owed' = Taxes(soFar'),
           phase' = "valuing" \/ soFar'.daily = 0
    PROVE  ReportsInv'
  <1>1. ReportTypes /\ FullyTaxed /\ PricesKept
    BY DEF ReportsInv
  <1>2. ReportTypes'
    BY <1>1 DEF ReportTypes
  <1>3. AllBooked' /\ DaysPast'
    BY BookedAndNoted
  <1>4. FullyTaxed'
    BY <1>1 DEF FullyTaxed, Taxes
  <1>5. PricesKept'
    BY <1>1, PricesStay
  <1> QED
    BY <1>2, <1>3, <1>4, <1>5 DEF ReportsInv

\* A dividend is noted when it is paid, its tax owed.
LEMMA PayIsReported ==
    ASSUME DayInv, ReportsInv, ReportedPay, UNCHANGED reports
    PROVE  ReportsInv'
  <1> DEFINE gross == Head(entitlements).gross
  <1>1. Types /\ ReportTypes /\ FullyTaxed /\ soFar \in Trades
    BY DEF DayInv, ReportsInv, ReportTypes
  <1>2. /\ phase = "paying" /\ phase' = "paying" /\ owed = 0 /\ owed' = DividendTax(gross)
        /\ entitlements # <<>> /\ CreditDividend(gross, today)
        /\ UNCHANGED <<today, units>> /\ soFar' = [soFar EXCEPT !.paid = Append(soFar.paid, gross)]
    BY DEF ReportedPay, Pay, Due, broker
  <1>3. gross \in Nat \ {0}
    <2>1. Head(entitlements) \in Earnings
      BY <1>1, <1>2 DEF Types
    <2> QED
      BY <2>1 DEF Earnings
  <1>4. today \in Days
    BY <1>1, <1>2 DEF Types
  <1> HIDE DEF gross
  <1>5. Book("dividend", gross, today, today)
    <2>1. 1 * gross = gross
      BY <1>3
    <2> QED
      BY <1>2, <2>1 DEF CreditDividend, BookCash
  <1> DEFINE paid == soFar.paid
             more == Append(paid, gross)
  <1>6. /\ more \in Seq(Nat \ {0}) /\ SumFunction(more) = gross + SumFunction(paid)
        /\ SumFunction([k \in DOMAIN more |-> DividendTax(more[k])]) = DividendTax(gross) + Taxes(soFar)
        /\ SumFunction(paid) \in Nat /\ Taxes(soFar) \in Nat
    <2>1. paid \in Seq(Nat \ {0})
      BY <1>1, TradesAreNumbers
    <2> QED
      BY <1>3, <2>1, PaidMore DEF Taxes
  <1>7. soFar' = [bought |-> soFar.bought, sold |-> soFar.sold, fee |-> soFar.fee, daily |-> soFar.daily,
                  paid |-> more, tax |-> soFar.tax]
    BY <1>1, <1>2 DEF Trades
  <1> HIDE DEF more, paid
  <1>8. soFar' \in Trades
    BY <1>1, <1>6, <1>7 DEF Trades
  <1>9. /\ soFar'.bought = soFar.bought /\ soFar'.sold = soFar.sold /\ soFar'.fee = soFar.fee
        /\ soFar'.daily = soFar.daily /\ soFar'.tax = soFar.tax /\ soFar'.paid = more
    BY <1>7
  <1>10. Gross(soFar') = Gross(soFar) + gross
    BY <1>3, <1>6, <1>9 DEF Gross, paid
  <1>11. Noted("dividend", gross, soFar, soFar')
    <2>1. {soFar.bought, soFar.sold, soFar.fee, soFar.daily, soFar.tax} \subseteq Nat
      BY <1>1, TradesAreNumbers
    <2> QED
      BY <1>9, <1>10, <2>1 DEF Noted
  <1>12. soFar'.tax + owed' = Taxes(soFar')
    <2>1. soFar.tax + 0 = Taxes(soFar) /\ soFar.tax \in Nat
      BY <1>1, <1>2, TradesAreNumbers DEF FullyTaxed
    <2>2. Taxes(soFar') = DividendTax(gross) + Taxes(soFar) /\ DividendTax(gross) \in Nat
      BY <1>3, <1>6, <1>9, TaxNat DEF Taxes
    <2> QED
      BY <1>2, <1>9, <2>1, <2>2
  <1>13. "dividend" \in Kind /\ gross \in Int /\ phase \notin {"closed", "deciding"}
         /\ phase' \notin {"closed", "deciding"}
    BY <1>2, <1>3 DEF Kind
  <1>14. soFar'.daily = 0
    BY <1>1, <1>2, <1>9 DEF ReportTypes
  <1> QED
    BY <1>2, <1>4, <1>5, <1>8, <1>11, <1>12, <1>13, <1>14, BookingIsReported

\* Its tax is noted when it is charged.
LEMMA TaxIsReported ==
    ASSUME DayInv, ReportsInv, ReportedTax, UNCHANGED reports
    PROVE  ReportsInv'
  <1>1. Types /\ ReportTypes /\ FullyTaxed /\ soFar \in Trades
    BY DEF DayInv, ReportsInv, ReportTypes
  <1>2. /\ phase = "paying" /\ phase' = "paying" /\ owed \in Nat \ {0} /\ owed' = 0
        /\ Charge("tax", owed, today, today)
        /\ UNCHANGED <<today, units>> /\ soFar' = [soFar EXCEPT !.tax = soFar.tax + owed]
    BY <1>1 DEF ReportedTax, PayTax, broker, Types
  <1>3. Book("tax", -owed, today, today) /\ -owed \in Int /\ today \in Days /\ "tax" \in Kind
        /\ phase \notin {"closed", "deciding"} /\ phase' \notin {"closed", "deciding"}
    BY <1>1, <1>2 DEF Charge, BookCash, Types, Kind
  <1>4. soFar' = [bought |-> soFar.bought, sold |-> soFar.sold, fee |-> soFar.fee, daily |-> soFar.daily,
                  paid |-> soFar.paid, tax |-> soFar.tax + owed]
    BY <1>1, <1>2 DEF Trades
  <1>5. {soFar.bought, soFar.sold, soFar.fee, soFar.daily, soFar.tax} \subseteq Nat /\ Gross(soFar) \in Nat
    BY <1>1, TradesAreNumbers
  <1>6. soFar' \in Trades
    <2>1. soFar.tax + owed \in Nat
      BY <1>2, <1>5
    <2> QED
      BY <1>1, <1>4, <2>1 DEF Trades
  <1>7. /\ soFar'.bought = soFar.bought /\ soFar'.sold = soFar.sold /\ soFar'.fee = soFar.fee
        /\ soFar'.daily = soFar.daily /\ soFar'.tax = soFar.tax + owed /\ soFar'.paid = soFar.paid
    BY <1>4
  <1>8. Gross(soFar') = Gross(soFar) /\ Taxes(soFar') = Taxes(soFar)
    BY <1>7 DEF Gross, Taxes
  <1>9. Noted("tax", -owed, soFar, soFar')
    BY <1>2, <1>5, <1>7, <1>8 DEF Noted
  <1>10. soFar'.tax + owed' = Taxes(soFar')
    BY <1>1, <1>2, <1>5, <1>7, <1>8 DEF FullyTaxed
  <1>11. soFar'.daily = 0
    BY <1>1, <1>2, <1>7 DEF ReportTypes
  <1> QED
    BY <1>2, <1>3, <1>6, <1>9, <1>10, <1>11, BookingIsReported
\* A fill is noted with its gross value and its fee, whichever side it is on; an order that is
\* refused has neither.
LEMMA FillIsReported ==
    ASSUME DayInv, ReportsInv, NEW o \in pending, ReportedFill(o), UNCHANGED reports
    PROVE  ReportsInv'
  <1> DEFINE gross == session'.traded - session.traded
             fee == Fee(gross)
             bought == IF o.side = "buy" THEN gross ELSE 0
             sold == IF o.side = "sell" THEN gross ELSE 0
  <1>1. Types /\ ReportTypes /\ FullyTaxed /\ PricesKept /\ DaysPast /\ soFar \in Trades
    BY DEF DayInv, ReportsInv, ReportTypes
  <1>2. /\ Fill(o)
        /\ soFar' = [soFar EXCEPT !.bought = soFar.bought + bought, !.sold = soFar.sold + sold,
                                  !.fee = soFar.fee + fee]
    BY DEF ReportedFill
  <1>3. /\ o \in Orders /\ phase = "filling" /\ today \in Days /\ session \in Sessions
        /\ today' = today /\ UNCHANGED engine
        /\ \/ UNCHANGED <<portfolio, session>>
           \/ o.side = "buy" /\ Purchase(o)
           \/ o.side = "sell" /\ Sale(o)
    BY <1>1, <1>2, FillTrades
  <1>4. UNCHANGED <<phase, owed, units, closes>>
    BY <1>3 DEF engine
  <1>5. session.traded \in Nat
    BY <1>3 DEF Sessions
  <1>6. soFar' = [bought |-> soFar.bought + bought, sold |-> soFar.sold + sold, fee |-> soFar.fee + fee,
                  daily |-> soFar.daily, paid |-> soFar.paid, tax |-> soFar.tax]
    BY <1>1, <1>2 DEF Trades
  <1> HIDE DEF gross, fee, bought, sold
  <1>7. {soFar.bought, soFar.sold, soFar.fee, soFar.daily, soFar.tax} \subseteq Nat /\ Gross(soFar) \in Nat
    BY <1>1, TradesAreNumbers
  <1>8. /\ soFar'.bought = soFar.bought + bought /\ soFar'.sold = soFar.sold + sold
        /\ soFar'.fee = soFar.fee + fee
        /\ soFar'.daily = soFar.daily /\ soFar'.tax = soFar.tax /\ soFar'.paid = soFar.paid
        /\ Gross(soFar') = Gross(soFar) /\ Taxes(soFar') = Taxes(soFar)
    <2>1. /\ soFar'.bought = soFar.bought + bought /\ soFar'.sold = soFar.sold + sold
          /\ soFar'.fee = soFar.fee + fee
          /\ soFar'.daily = soFar.daily /\ soFar'.tax = soFar.tax /\ soFar'.paid = soFar.paid
      BY <1>6
    <2> QED
      BY <2>1 DEF Gross, Taxes
  <1>9. soFar'.tax + owed' = Taxes(soFar')
    BY <1>1, <1>4, <1>8 DEF FullyTaxed
  <1>10. /\ phase \notin {"closed", "deciding"} /\ phase' \notin {"closed", "deciding"}
         /\ soFar'.daily = 0
    BY <1>1, <1>3, <1>4, <1>8 DEF ReportTypes
  <1>11. ASSUME bought \in Nat, sold \in Nat, fee \in Nat
         PROVE  soFar' \in Trades
    <2>1. /\ soFar.bought + bought \in Nat /\ soFar.sold + sold \in Nat /\ soFar.fee + fee \in Nat
          /\ soFar.daily \in Nat /\ soFar.tax \in Nat
      BY <1>7, <1>11
    <2>2. soFar.paid \in Seq(Nat \ {0})
      BY <1>1, TradesAreNumbers
    <2> QED
      BY <1>6, <2>1, <2>2 DEF Trades
  <1>12. CASE UNCHANGED <<portfolio, session>>
    <2>1. gross = 0 /\ bought = 0 /\ sold = 0
      BY <1>5, <1>12 DEF gross, bought, sold
    <2>2. fee = 0
      <3>1. FeeDivisor \in Nat \ {0}
        BY MarketConstants
      <3>2. (0 + FeeDivisor - 1) \div FeeDivisor = 0
        BY <3>1
      <3> QED
        BY <2>1, <3>2 DEF fee, Fee
    <2>3. soFar' = soFar
      <3>1. soFar.bought + 0 = soFar.bought /\ soFar.sold + 0 = soFar.sold /\ soFar.fee + 0 = soFar.fee
        BY <1>7
      <3> QED
        BY <1>1, <1>6, <2>1, <2>2, <3>1 DEF Trades
    <2>4. UNCHANGED <<ledger, balance, open, today, reports, soFar, owed>>
      BY <1>3, <1>4, <1>12, <2>3 DEF portfolio
    <2>5. AllBooked'
      <3>1. \A d \in Days : OfDay(d)' = OfDay(d)
        BY <2>4 DEF OfDay
      <3> QED
        BY <2>4, <3>1, NothingBooked
    <2>6. ReportTypes' /\ DaysPast' /\ FullyTaxed'
      BY <1>1, <1>4, <2>4 DEF ReportTypes, DaysPast, FullyTaxed, Taxes
    <2>7. PricesKept'
      BY <1>1, <1>4, <1>10, PricesStay
    <2> QED
      BY <2>5, <2>6, <2>7 DEF ReportsInv
  <1>13. CASE o.side = "buy" /\ Purchase(o)
    <2>1. PICK lots, of \in Nat \ {0} :
              /\ Buy(o.stock, lots, of + Fee(of), today)
              /\ session' = [session EXCEPT !.traded = @ + of, !.bought = TRUE]
      BY <1>13 DEF Purchase
    <2>2. gross = of
      <3>1. session'.traded = session.traded + of
        BY <1>3, <2>1 DEF Sessions
      <3> QED
        BY <1>5, <3>1 DEF gross
    <2>3. gross \in Nat /\ fee \in Nat /\ bought = gross /\ sold = 0
      BY <1>13, <2>2, FeeNat DEF fee, bought, sold
    <2>4. Book("buy", -(gross + fee), today, today)
      BY <2>1, <2>2 DEF Buy, fee
    <2>5. Noted("buy", -(gross + fee), soFar, soFar')
      BY <1>7, <1>8, <2>3 DEF Noted
    <2>6. -(gross + fee) \in Int /\ "buy" \in Kind /\ soFar' \in Trades
      BY <1>11, <2>3 DEF Kind
    <2> QED
      BY <1>3, <1>4, <1>9, <1>10, <2>4, <2>5, <2>6, BookingIsReported
  <1>14. CASE o.side = "sell" /\ Sale(o)
    <2>1. PICK quantity \in 1..o.quantity, of \in Nat \ {0} :
              /\ Sell(o.stock, quantity, Net(of), today, today + Lag)
              /\ session' = [session EXCEPT !.traded = @ + of, !.proceeds = @ + Net(of)]
      BY <1>14 DEF Sale
    <2>2. gross = of
      <3>1. session'.traded = session.traded + of
        BY <1>3, <2>1 DEF Sessions
      <3> QED
        BY <1>5, <3>1 DEF gross
    <2>3. gross \in Nat /\ fee \in Nat /\ bought = 0 /\ sold = gross
      BY <1>14, <2>2, FeeNat DEF fee, bought, sold
    <2>4. Book("sell", gross - fee, today, today + Lag)
      BY <2>1, <2>2 DEF Sell, Net, fee
    <2>5. Noted("sell", gross - fee, soFar, soFar')
      BY <1>7, <1>8, <2>3 DEF Noted
    <2>6. gross - fee \in Int /\ "sell" \in Kind /\ soFar' \in Trades /\ today + Lag \in 1..MaxDay + Lag
      BY <1>3, <1>11, <2>3, PortfolioConstants DEF Kind, Days
    <2> QED
      BY <1>3, <1>4, <1>9, <1>10, <2>4, <2>5, <2>6, BookingIsReported
  <1> QED
    BY <1>3, <1>12, <1>13, <1>14

\* So is the day's charge, which is nothing on a day that traded little.
LEMMA CloseIsReported ==
    ASSUME DayInv, ReportsInv, ReportedClose, UNCHANGED reports
    PROVE  ReportsInv'
  <1> DEFINE daily == DailyCost(session.traded)
  <1>1. Types /\ ReportTypes /\ FullyTaxed /\ PricesKept /\ DaysPast /\ soFar \in Trades
    BY DEF DayInv, ReportsInv, ReportTypes
  <1>2. /\ phase = "filling" /\ phase' = "valuing" /\ UNCHANGED <<today, units, owed, closes>>
        /\ IF daily > 0 THEN Charge("daily cost", daily, today, ChargeSettles(session.bought))
           ELSE UNCHANGED portfolio
        /\ soFar' = [soFar EXCEPT !.daily = daily]
    BY DEF ReportedClose, CloseSession, CloseDay
  <1>3. daily \in Nat /\ today \in Days
    BY <1>1, <1>2, MarketConstants DEF DailyCost, Types
  <1>4. soFar' = [bought |-> soFar.bought, sold |-> soFar.sold, fee |-> soFar.fee, daily |-> daily,
                  paid |-> soFar.paid, tax |-> soFar.tax]
    BY <1>1, <1>2 DEF Trades
  <1> HIDE DEF daily
  <1>5. soFar.daily = 0 /\ phase \notin {"closed", "deciding"} /\ phase' \notin {"closed", "deciding"}
    BY <1>1, <1>2 DEF ReportTypes
  <1>6. {soFar.bought, soFar.sold, soFar.fee, soFar.daily, soFar.tax} \subseteq Nat /\ Gross(soFar) \in Nat
    BY <1>1, TradesAreNumbers
  <1>7. /\ soFar'.bought = soFar.bought /\ soFar'.sold = soFar.sold /\ soFar'.fee = soFar.fee
        /\ soFar'.daily = daily /\ soFar'.tax = soFar.tax /\ soFar'.paid = soFar.paid
    BY <1>4
  <1>8. Gross(soFar') = Gross(soFar) /\ Taxes(soFar') = Taxes(soFar)
    BY <1>7 DEF Gross, Taxes
  <1>9. soFar'.tax + owed' = Taxes(soFar')
    BY <1>1, <1>2, <1>7, <1>8 DEF FullyTaxed
  <1>10. soFar' \in Trades
    <2>1. soFar.paid \in Seq(Nat \ {0})
      BY <1>1, TradesAreNumbers
    <2> QED
      BY <1>3, <1>4, <1>6, <2>1 DEF Trades
  <1>11. CASE daily > 0
    <2>1. Charge("daily cost", daily, today, ChargeSettles(session.bought))
      BY <1>2, <1>11
    <2>2. Book("daily cost", -daily, today, ChargeSettles(session.bought)) /\ -daily \in Int
      <3>1. (-1) * daily = -daily /\ -daily \in Int
        BY <1>3
      <3> QED
        BY <2>1, <3>1 DEF Charge, BookCash
    <2>3. ChargeSettles(session.bought) \in Days \union 1..MaxDay + Lag /\ "daily cost" \in Kind
      BY <1>3, PortfolioConstants DEF ChargeSettles, Days, Kind
    <2>4. Noted("daily cost", -daily, soFar, soFar')
      BY <1>3, <1>5, <1>6, <1>7, <1>8 DEF Noted
    <2> QED
      BY <1>2, <1>5, <1>9, <1>10, <2>2, <2>3, <2>4, BookingIsReported
  <1>12. CASE ~ (daily > 0)
    <2>1. soFar' = soFar
      <3>1. daily = soFar.daily
        BY <1>3, <1>5, <1>12
      <3> QED
        BY <1>1, <1>4, <3>1 DEF Trades
    <2>2. UNCHANGED <<ledger, balance, open, today, reports, soFar, owed>>
      BY <1>2, <1>12, <2>1 DEF portfolio
    <2>3. AllBooked'
      <3>1. \A d \in Days : OfDay(d)' = OfDay(d)
        BY <2>2 DEF OfDay
      <3> QED
        BY <2>2, <3>1, NothingBooked
    <2>4. ReportTypes' /\ DaysPast' /\ FullyTaxed'
      BY <1>1, <1>2, <2>2 DEF ReportTypes, DaysPast, FullyTaxed, Taxes
    <2>5. PricesKept'
      BY <1>1, <1>2, <1>5, PricesStay
    <2> QED
      BY <2>3, <2>4, <2>5 DEF ReportsInv
  <1> QED
    BY <1>11, <1>12

\* The close prices the units, and the mark follows. A deposit is no figure of the report.
LEMMA ValueIsReported ==
    ASSUME DayInv, LeftInv, ReportsInv, Revalue, UNCHANGED results
    PROVE  ReportsInv'
  <1> DEFINE after == Revalued(units, Value(Closes))
  <1>1. Types /\ ReportTypes /\ FullyTaxed /\ PricesKept /\ DaysPast /\ soFar \in Trades
    BY DEF DayInv, ReportsInv, ReportTypes
  <1>2. /\ phase = "valuing" /\ phase' = "deciding" /\ TopUp(after)
        /\ UNCHANGED <<today, owed, soFar, reports>>
    BY DEF Revalue, broker, results
  <1>3. today \in Days
    BY <1>1, <1>2 DEF Types
  <1>4. ReportTypes' /\ FullyTaxed'
    BY <1>1, <1>2 DEF ReportTypes, FullyTaxed, Taxes
  <1>5. AllBooked' /\ DaysPast'
    <2>1. CASE UNCHANGED portfolio
      <3>1. \A d \in Days : OfDay(d)' = OfDay(d)
        BY <1>2 DEF OfDay
      <3>2. UNCHANGED <<ledger, balance, open>>
        BY <2>1 DEF portfolio
      <3> QED
        BY <1>1, <1>2, <3>1, <3>2, NothingBooked DEF DaysPast
    <2>2. CASE Deposit(Contribution, today)
      <3>1. Book("deposit", Contribution, today, today) /\ Contribution \in Int
        <4>1. Contribution \in Nat \ {0} /\ 1 * Contribution = Contribution
          BY EngineConstants
        <4> QED
          BY <2>2, <4>1 DEF Deposit, BookCash
      <3>2. Noted("deposit", Contribution, soFar, soFar') /\ soFar' \in Trades
        <4>1. {soFar.bought, soFar.sold, soFar.fee, soFar.daily, soFar.tax} \subseteq Nat /\ Gross(soFar) \in Nat
          BY <1>1, TradesAreNumbers
        <4> QED
          BY <1>1, <1>2, <4>1 DEF Noted
      <3>3. "deposit" \in Kind
        BY DEF Kind
      <3> QED
        BY <1>2, <1>3, <3>1, <3>2, <3>3, BookedAndNoted
    <2> QED
      BY <1>2, <2>1, <2>2 DEF TopUp
  <1>6. /\ units'.price = after.price /\ units'.high = after.high
        /\ after.price \in Nat /\ after.high = IF after.price > units.high THEN after.price ELSE units.high
    <2>1. after \in Funds /\ after.price = PriceOf(Value(Closes), units)
      <3>1. Value(Closes) \in Nat
        BY <1>2, AccountHasValue DEF LeftInv
      <3> QED
        BY <3>1, RevaluedIsPriced DEF LeftInv, UnitsKept
    <2>2. units = [units |-> units.units, price |-> units.price, high |-> units.high] /\ units.units # 0
      BY DEF LeftInv, UnitsKept, Funds
    <2>3. after.high = IF after.price > units.high THEN after.price ELSE units.high
      <3> DEFINE price == PriceOf(Value(Closes), units)
      <3>1. after = [units EXCEPT !.price = price, !.high = IF price > units.high THEN price ELSE units.high]
        BY <2>2 DEF Revalued
      <3> HIDE DEF price, after
      <3>2. after.high = IF price > units.high THEN price ELSE units.high
        BY <2>2, <3>1
      <3> QED
        BY <2>1, <3>2 DEF price
    <2> HIDE DEF after
    <2>4. \/ units' = after
          \/ units' = [after EXCEPT !.units = after.units + (Contribution * Scale * Scale) \div after.price]
      BY <1>2 DEF TopUp, Deposited
    <2>5. units'.price = after.price /\ units'.high = after.high
      BY <2>1, <2>4 DEF Funds
    <2> QED
      BY <2>1, <2>3, <2>5 DEF Funds
  <1> HIDE DEF after
  <1>7. PricesKept'
    <2>1. Len(reports) \in Nat /\ units.high \in Nat /\ units.price \in Nat
      BY <1>1 DEF ReportTypes, LeftInv, UnitsKept, Funds
    <2>2. \A d : PriceAt(d)' = PriceAt(d)
      BY <1>2 DEF PriceAt
    <2>3. \A d \in 0..Len(reports) : PriceAt(d) \in Nat
      <3>1. Scale \in Nat
        BY EngineConstants
      <3>2. \A d \in DOMAIN reports : reports[d].unitPrice \in Nat
        <4>1. \A d \in DOMAIN reports : reports[d] \in DayReports
          BY <1>1 DEF ReportTypes
        <4> QED
          BY <4>1 DEF DayReports
      <3>3. \A d \in 0..Len(reports) : d = 0 \/ d \in DOMAIN reports
        BY <1>1 DEF ReportTypes
      <3> QED
        BY <3>1, <3>2, <3>3 DEF PriceAt
    <2>4. (\A d \in 0..Len(reports) : PriceAt(d) <= units.high) /\ \E d \in 0..Len(reports) : PriceAt(d) = units.high
      BY <1>1, <1>2 DEF PricesKept
    <2>5. units'.price <= units'.high /\ units.high <= units'.high
      BY <1>6, <2>1
    <2>6. \A d \in 0..Len(reports) : PriceAt(d) <= units'.high
      <3>1. units'.high \in Nat
        BY <1>6, <2>1
      <3> QED
        BY <2>1, <2>3, <2>4, <2>5, <3>1
    <2>7. units'.high = units.high \/ units'.price = units'.high
      BY <1>6
    <2> QED
      BY <1>2, <2>2, <2>4, <2>5, <2>6, <2>7 DEF PricesKept
  <1> QED
    BY <1>4, <1>5, <1>7 DEF ReportsInv

\* The day decided, what was noted becomes its report.
LEMMA DayIsReported ==
    ASSUME DayInv, LeftInv, ReportsInv, Report
    PROVE  ReportsInv'
  <1> DEFINE n == Len(reports)
             report == DayReport
  <1>1. Types /\ ReportTypes /\ FullyTaxed /\ PricesKept /\ DaysPast /\ soFar \in Trades
    BY DEF DayInv, ReportsInv, ReportTypes
  <1>2. /\ phase = "deciding" /\ phase' = "closed" /\ UNCHANGED <<portfolio, today, owed, units, closes>>
        /\ reports' = Append(reports, report) /\ soFar' = NothingYet
    BY DEF Report, Decide
  <1>3. UNCHANGED <<positions, ledger, balance, open>>
    BY <1>2 DEF portfolio
  <1>4. /\ today \in Days /\ today \in Nat \ {0} /\ today \notin DOMAIN reports /\ OfDay(today) = soFar
        /\ n = today - 1 /\ n \in Nat /\ reports \in Seq(DayReports) /\ DOMAIN reports = 1..n
    BY <1>1, <1>2, DayUnderWay DEF ReportTypes
  <1>5. /\ report.day = today /\ report.value = Value(closes) /\ report.unitPrice = units.price
        /\ report.bought = soFar.bought /\ report.sold = soFar.sold /\ report.fee = soFar.fee
        /\ report.daily = soFar.daily /\ report.paid = soFar.paid /\ report.tax = soFar.tax
    BY DEF DayReport
  <1>6. report \in DayReports
    <2>1. /\ {soFar.bought, soFar.sold, soFar.fee, soFar.daily, soFar.tax} \subseteq Nat
          /\ soFar.paid \in Seq(Nat \ {0})
      BY <1>1, TradesAreNumbers
    <2>2. units.price \in Nat
      BY DEF LeftInv, UnitsKept, Funds
    <2>3. Value(closes) \in Int
      BY <1>2 DEF LeftInv, UnitsKept
    <2> QED
      BY <1>4, <2>1, <2>2, <2>3 DEF DayReport, DayReports
  <1> HIDE DEF report
  <1>7. /\ reports' \in Seq(DayReports) /\ DOMAIN reports' = 1..n + 1 /\ Len(reports') = n + 1
        /\ reports'[n + 1] = report /\ \A d \in 1..n : reports'[d] = reports[d]
    BY <1>2, <1>4, <1>6
  <1>8. ReportTypes'
    <2>1. Len(reports') = today
      BY <1>4, <1>7
    <2>2. \A d \in DOMAIN reports' : reports'[d].day = d
      <3>1. \A d \in 1..n : reports[d].day = d
        BY <1>1, <1>4 DEF ReportTypes
      <3> QED
        BY <1>4, <1>5, <1>7, <3>1
    <2>3. soFar' \in Trades
      BY <1>2, NothingNoted
    <2> QED
      BY <1>2, <1>7, <2>1, <2>2, <2>3 DEF ReportTypes
  <1>9. AllBooked'
    <2>1. ASSUME NEW d \in Days PROVE BookedFor(d, OfDay(d))'
      <3>1. BookedFor(d, OfDay(d))
        BY DEF ReportsInv, AllBooked
      <3>2. SameTrades(OfDay(d), OfDay(d)')
        <4>1. CASE d = today
          <5>1. OfDay(d)' = report /\ OfDay(d) = soFar
            BY <1>4, <1>7, <4>1 DEF OfDay
          <5> QED
            BY <1>5, <5>1 DEF SameTrades
        <4>2. CASE d # today
          <5>1. d \in DOMAIN reports' <=> d \in DOMAIN reports
            BY <1>4, <1>7, <4>2
          <5>2. OfDay(d)' = OfDay(d)
            BY <1>2, <1>4, <1>7, <4>2, <5>1 DEF OfDay
          <5> QED
            BY <5>2 DEF SameTrades
        <4> QED
          BY <4>1, <4>2
      <3> QED
        BY <1>3, <3>1, <3>2, BookedStays
    <2> QED
      BY <2>1 DEF AllBooked
  <1>10. DaysPast'
    BY <1>1, <1>2, <1>3 DEF DaysPast
  <1>11. FullyTaxed'
    <2>1. owed = 0 /\ soFar.tax \in Nat
      BY <1>1, <1>2, TradesAreNumbers DEF Types
    <2>2. report.tax = Taxes(report)
      BY <1>1, <1>5, <2>1 DEF FullyTaxed, Taxes
    <2>3. soFar'.tax + owed' = Taxes(soFar')
      BY <1>2, <2>1, NothingNoted DEF NothingYet
    <2>4. \A d \in 1..n : reports[d].tax = Taxes(reports[d])
      BY <1>1, <1>4 DEF FullyTaxed
    <2>5. \A d \in DOMAIN reports' : reports'[d].tax = Taxes(reports'[d])
      BY <1>4, <1>7, <2>2, <2>4
    <2>6. Taxes(soFar)' = Taxes(soFar') /\ \A d : Taxes(reports[d])' = Taxes(reports'[d])
      BY DEF Taxes
    <2> QED
      BY <2>3, <2>5, <2>6 DEF FullyTaxed
  <1>12. PricesKept'
    <2>1. \A d \in 0..n : PriceAt(d)' = PriceAt(d)
      BY <1>4, <1>7 DEF PriceAt
    <2>2. PICK last \in Nat : last = n + 1
      BY <1>4
    <2>3. PriceAt(last)' = units.price
      <3>1. last # 0 /\ reports'[last].unitPrice = units.price
        BY <1>4, <1>5, <1>7, <2>2
      <3> QED
        BY <3>1 DEF PriceAt
    <2>4. /\ units.price <= units.high /\ \A d \in 0..n : PriceAt(d) <= units.high
          /\ (\E d \in 0..n : PriceAt(d) = units.high) \/ units.price = units.high
      BY <1>1 DEF PricesKept
    <2>5. \A d : d \in 0..last <=> d \in 0..n \/ d = last
      BY <1>4, <2>2
    <2>6. \A d \in 0..last : PriceAt(d)' <= units.high
      BY <2>1, <2>3, <2>4, <2>5
    <2>7. \E d \in 0..last : PriceAt(d)' = units.high
      <3>1. CASE units.price = units.high
        BY <2>2, <2>3, <3>1
      <3>2. CASE \E d \in 0..n : PriceAt(d) = units.high
        BY <2>1, <2>5, <3>2
      <3> QED
        BY <2>4, <3>1, <3>2
    <2>8. /\ Len(reports') = last /\ phase' = "closed" /\ units' = units
          /\ reports'[last].value = Value(closes)'
      <3>1. Value(closes)' = Value(closes)
        BY <1>2, <1>3 DEF Value, HoldingsValue, Worth, Held
      <3> QED
        BY <1>2, <1>5, <1>7, <2>2, <3>1
    <2>9. PriceAt(Len(reports))' = units.price
      BY <2>3, <2>8 DEF PriceAt
    <2>10. (\A d \in 0..Len(reports) : PriceAt(d) <= units.high)'
      BY <2>6, <2>8
    <2>11. (\E d \in 0..Len(reports) : PriceAt(d) = units.high)'
      BY <2>7, <2>8
    <2> QED
      BY <2>4, <2>8, <2>9, <2>10, <2>11 DEF PricesKept
  <1> QED
    BY <1>8, <1>9, <1>10, <1>11, <1>12 DEF ReportsInv
\* Before the first day there is one deposit, and nothing is reported.
LEMMA NothingReported == ResultsInit => ReportsInv
  <1> SUFFICES ASSUME ResultsInit PROVE ReportsInv
    OBVIOUS
  <1>1. /\ soFar = NothingYet /\ reports = <<>> /\ today = 0 /\ phase = "closed" /\ owed = 0
        /\ ledger = <<[day |-> 1, kind |-> "deposit", amount |-> Capital, settles |-> 1]>>
        /\ units = Deposited(NoUnits, Capital)
    BY DEF ResultsInit, EngineInit
  <1>2. NothingYet \in Trades /\ Gross(NothingYet) = 0 /\ Taxes(NothingYet) = 0 /\ NothingYet.daily = 0
        /\ NothingYet.tax = 0 /\ NothingYet.bought = 0 /\ NothingYet.sold = 0 /\ NothingYet.fee = 0
    BY NothingNoted DEF NothingYet
  <1>3. Len(reports) = 0 /\ DOMAIN reports = {} /\ reports \in Seq(DayReports)
    BY <1>1
  <1>4. ReportTypes
    BY <1>1, <1>2, <1>3 DEF ReportTypes
  <1>5. DOMAIN ledger = {1} /\ ledger[1].kind = "deposit" /\ ledger[1].day = 1
    BY <1>1
  <1>6. AllBooked
    <2>1. ASSUME NEW d \in Days, NEW kind \in {"buy", "sell", "daily cost", "dividend", "tax"}
          PROVE  Cash(BookedAs(kind, d)) = 0
      <3>1. BookedAs(kind, d) = {}
        BY <1>5 DEF BookedAs
      <3> QED
        BY <3>1, SumEmpty DEF Cash
    <2>2. \A d \in Days : OfDay(d) = NothingYet
      BY <1>1, <1>3 DEF OfDay
    <2>3. ASSUME NEW d \in Days PROVE BookedFor(d, OfDay(d))
      <3>1. /\ Cash(BookedAs("buy", d)) = 0 /\ Cash(BookedAs("sell", d)) = 0
            /\ Cash(BookedAs("daily cost", d)) = 0 /\ Cash(BookedAs("dividend", d)) = 0
            /\ Cash(BookedAs("tax", d)) = 0 /\ OfDay(d) = NothingYet
        BY <2>1, <2>2
      <3>2. 0 - 0 - 0 = 0 /\ -0 = 0 /\ 0 + 0 = 0
        <4>1. \A x \in Int : -x = 0 - x
          OBVIOUS
        <4>2. -0 = 0 - 0 /\ 0 - 0 - 0 = 0 /\ 0 - 0 = 0 /\ 0 + 0 = 0
          <5>1. 0 \in Int /\ 0 - 0 - 0 = 0 /\ 0 - 0 = 0 /\ 0 + 0 = 0
            OBVIOUS
          <5> QED
            BY <4>1, <5>1, Zenon
        <4> QED
          BY <4>2, Zenon
      <3>3. BookedFor(d, NothingYet)
        BY <1>2, <3>1, <3>2, Zenon DEF BookedFor
      <3> QED
        BY <3>1, <3>3
    <2> QED
      BY <2>3 DEF AllBooked
  <1>7. DaysPast
    BY <1>5 DEF DaysPast
  <1>8. FullyTaxed
    BY <1>1, <1>2, <1>3 DEF FullyTaxed
  <1>9. PricesKept
    <2>1. Scale \in Nat \ {0}
      BY EngineConstants
    <2>2. units.price = Scale /\ units.high = Scale
      BY <1>1 DEF Deposited, NoUnits
    <2>3. PriceAt(0) = Scale /\ 0..Len(reports) = {0}
      BY <1>3 DEF PriceAt
    <2> QED
      BY <1>1, <1>3, <2>1, <2>2, <2>3 DEF PricesKept
  <1> QED
    BY <1>4, <1>6, <1>7, <1>8, <1>9 DEF ReportsInv

\* Every step keeps reports and ledger side by side.
LEMMA ReportsStep ==
    ASSUME DayInv, LeftInv, ReportsInv, [ResultsNext]_<<all, results>>
    PROVE  ReportsInv' /\ [EngineNext]_all
  <1>1. CASE StartDay /\ UNCHANGED results
    BY <1>1, StartIsReported DEF EngineNext
  <1>2. CASE OpenMarket /\ UNCHANGED results
    BY <1>2, OpeningIsReported DEF EngineNext
  <1>3. CASE Revalue /\ UNCHANGED results
    BY <1>3, ValueIsReported DEF EngineNext
  <1>4. CASE ReportedPay /\ UNCHANGED reports
    BY <1>4, PayIsReported DEF EngineNext, ReportedPay
  <1>5. CASE ReportedTax /\ UNCHANGED reports
    BY <1>5, TaxIsReported DEF EngineNext, ReportedTax
  <1>6. CASE ReportedClose /\ UNCHANGED reports
    BY <1>6, CloseIsReported DEF EngineNext, ReportedClose
  <1>7. ASSUME NEW o \in pending, ReportedFill(o), UNCHANGED reports PROVE ReportsInv' /\ EngineNext
    <2>1. Fill(o)
      BY <1>7 DEF ReportedFill
    <2> QED
      BY <1>7, <2>1, FillIsReported DEF EngineNext
  <1>8. CASE Report
    BY <1>8, DayIsReported DEF EngineNext, Report
  <1>9. CASE UNCHANGED <<all, results>>
    <2>1. UNCHANGED <<positions, ledger, balance, open, today, phase, owed, closes, units, soFar, reports>>
          /\ UNCHANGED all
      BY <1>9 DEF all, vars, portfolio, broker, engine, results
    <2>2. ReportTypes' /\ DaysPast' /\ FullyTaxed'
      BY <2>1 DEF ReportsInv, ReportTypes, DaysPast, FullyTaxed, Taxes
    <2>3. AllBooked'
      BY <2>1, NothingBooked DEF OfDay
    <2>4. PricesKept'
      <3>1. Value(closes)' = Value(closes) /\ \A d : PriceAt(d)' = PriceAt(d)
        BY <2>1 DEF Value, HoldingsValue, Worth, Held, PriceAt
      <3> QED
        BY <2>1, <3>1 DEF ReportsInv, PricesKept
    <2> QED
      BY <2>1, <2>2, <2>3, <2>4 DEF ReportsInv
  <1> QED
    BY <1>1, <1>2, <1>3, <1>4, <1>5, <1>6, <1>7, <1>8, <1>9 DEF ResultsNext

\* A run's reports are a run's ledger, set out day by day.
THEOREM ReportsMatchTheLedger == ResultsSpec => [](DayInv /\ LeftInv /\ ReportsInv)
  <1> DEFINE Inv == DayInv /\ FreezeInv /\ LeftInv
  <1>1. ResultsInit => Inv /\ ReportsInv
    BY InitKeeps, LeftInit, NothingReported DEF ResultsInit, EngineInit, FreezeInv
  <1>2. ASSUME Inv, ReportsInv, [ResultsNext]_<<all, results>> PROVE Inv' /\ ReportsInv'
    <2>1. ReportsInv' /\ [EngineNext]_all
      BY <1>2, ReportsStep
    <2>2. Inv'
      BY <1>2, <2>1, LeftStep
    <2> QED
      BY <2>1, <2>2
  <1>3. Inv /\ ReportsInv => DayInv /\ LeftInv /\ ReportsInv
    OBVIOUS
  <1> HIDE DEF Inv
  <1> QED
    BY <1>1, <1>2, <1>3, PTL DEF ResultsSpec

-----------------------------------------------------------------------------
(* What was booked, over kinds and days.                                   *)

Movements(kinds, days) == {i \in DOMAIN ledger : ledger[i].kind \in kinds /\ ledger[i].day \in days}

\* What moved of two sets of kinds is what moved of each.
LEMMA CashOfKinds ==
    ASSUME PortfolioTypeOK, NEW kinds, NEW others, kinds \intersect others = {}, NEW days
    PROVE  /\ Cash(Movements(kinds \union others, days))
                = Cash(Movements(kinds, days)) + Cash(Movements(others, days))
           /\ Cash(Movements(kinds, days)) \in Int /\ Cash(Movements(others, days)) \in Int
  <1> DEFINE both == Movements(kinds \union others, days)
             these == Movements(kinds, days)
  <1>1. /\ these \in SUBSET both /\ both \in SUBSET DOMAIN ledger
        /\ both \ these = Movements(others, days) /\ Movements(others, days) \in SUBSET DOMAIN ledger
    BY DEF Movements
  <1> HIDE DEF both, these
  <1>2. IsFiniteSet(both) /\ \A i \in both : Amounts[i] \in Int
    BY <1>1, LedgerPlaces, FS_Subset
  <1>3. SumFunctionOnSet(Amounts, both) = SumFunctionOnSet(Amounts, these) + SumFunctionOnSet(Amounts, both \ these)
    BY <1>1, <1>2, SumSplit
  <1>4. Cash(these) \in Int /\ Cash(Movements(others, days)) \in Int
    BY <1>1, CashInt
  <1> QED
    BY <1>1, <1>3, <1>4 DEF Cash, both, these

\* What moved on some days is the sum of what moved on each.
LEMMA CashOfDays ==
    ASSUME PortfolioTypeOK, NEW kinds, NEW days, IsFiniteSet(days), NEW f,
           \A d \in days : f[d] = Cash(Movements(kinds, {d}))
    PROVE  Cash(Movements(kinds, days)) = SumFunctionOnSet(f, days)
  <1> DEFINE P == {T \in SUBSET days : Cash(Movements(kinds, T)) = SumFunctionOnSet(f, T)}
  <1>1. {} \in P
    <2>1. Movements(kinds, {}) = {}
      BY DEF Movements
    <2> QED
      BY <2>1, SumEmpty DEF Cash
  <1>2. ASSUME NEW T \in SUBSET days, NEW d \in days \ T, T \in P PROVE T \union {d} \in P
    <2> DEFINE more == Movements(kinds, T \union {d})
               before == Movements(kinds, T)
    <2>1. /\ more \in SUBSET DOMAIN ledger /\ before \in SUBSET more
          /\ more \ before = Movements(kinds, {d})
      BY <1>2 DEF Movements
    <2> HIDE DEF more, before
    <2>2. IsFiniteSet(more) /\ \A i \in more : Amounts[i] \in Int
      BY <2>1, LedgerPlaces, FS_Subset
    <2>3. SumFunctionOnSet(Amounts, more) = SumFunctionOnSet(Amounts, before) + SumFunctionOnSet(Amounts, more \ before)
      BY <2>1, <2>2, SumSplit
    <2>4. IsFiniteSet(T) /\ \A e \in T \union {d} : f[e] \in Int
      <3>1. ASSUME NEW e \in days PROVE f[e] \in Int
        <4>1. Movements(kinds, {e}) \in SUBSET DOMAIN ledger
          BY DEF Movements
        <4> QED
          BY <4>1, CashInt
      <3> QED
        BY <1>2, <3>1, FS_Subset
    <2>5. SumFunctionOnSet(f, T \union {d}) = f[d] + SumFunctionOnSet(f, T)
      BY <1>2, <2>4, SumAdd
    <2>6. f[d] = Cash(more \ before) /\ Cash(before) = SumFunctionOnSet(f, T)
      BY <1>2, <2>1 DEF before
    <2>7. Cash(before) \in Int /\ Cash(more \ before) \in Int
      <3>1. before \in SUBSET DOMAIN ledger /\ (more \ before) \in SUBSET DOMAIN ledger
        BY <2>1
      <3> QED
        BY <3>1, CashInt
    <2>8. Cash(more) = Cash(before) + Cash(more \ before)
      BY <2>3 DEF Cash
    <2>9. Cash(more) = SumFunctionOnSet(f, T \union {d})
      BY <2>5, <2>6, <2>7, <2>8
    <2> QED
      BY <1>2, <2>9 DEF more
  <1> HIDE DEF P
  <1>3. days \in P
    BY <1>1, <1>2, Subsets
  <1> QED
    BY <1>3 DEF P

\* The figures of a report are numbers, read by their names.
LEMMA FiguresOf ==
    ASSUME ReportTypes, NEW d \in DOMAIN reports
    PROVE  /\ \A figure \in {"bought", "sold", "fee", "daily", "tax"} : reports[d][figure] \in Nat
           /\ reports[d]["bought"] = reports[d].bought /\ reports[d]["sold"] = reports[d].sold
           /\ reports[d]["fee"] = reports[d].fee /\ reports[d]["daily"] = reports[d].daily
           /\ reports[d]["tax"] = reports[d].tax /\ reports[d].tax \in Nat
           /\ reports[d].paid \in Seq(Nat \ {0}) /\ Gross(reports[d]) \in Nat /\ Taxes(reports[d]) \in Nat
  <1>1. reports[d] \in DayReports
    BY DEF ReportTypes
  <1>2. /\ \A figure \in {"bought", "sold", "fee", "daily", "tax"} : reports[d][figure] \in Nat
        /\ reports[d].paid \in Seq(Nat \ {0})
    BY <1>1 DEF DayReports
  <1>3. /\ reports[d]["bought"] = reports[d].bought /\ reports[d]["sold"] = reports[d].sold
        /\ reports[d]["fee"] = reports[d].fee /\ reports[d]["daily"] = reports[d].daily
        /\ reports[d]["tax"] = reports[d].tax
    OBVIOUS
  <1>4. 1 \in Nat \ {0}
    OBVIOUS
  <1> QED
    BY <1>2, <1>3, <1>4, PaidMore DEF Gross, Taxes

-----------------------------------------------------------------------------
(* The income of some days.                                                *)

\* What was received on some days is what was booked on them.
LEMMA IncomeIsBooked ==
    ASSUME PortfolioTypeOK, ReportTypes, AllBooked, NEW T \in SUBSET DOMAIN reports,
           DOMAIN reports \subseteq Days
    PROVE  /\ Cash(Movements({"dividend", "tax"}, T)) = GrossOver(reports, T) - SumOver(reports, T, "tax")
           /\ GrossOver(reports, T) \in Nat /\ SumOver(reports, T, "tax") \in Nat
  <1> DEFINE gross == [i \in DOMAIN reports |-> Gross(reports[i])]
             tax == [i \in DOMAIN reports |-> reports[i]["tax"]]
             income == [i \in DOMAIN reports |-> Gross(reports[i]) - reports[i].tax]
  <1>1. ASSUME NEW d \in DOMAIN reports
        PROVE  /\ gross[d] \in Nat /\ tax[d] \in Nat /\ income[d] = gross[d] - tax[d]
               /\ income[d] = Cash(Movements({"dividend", "tax"}, {d}))
    <2>1. /\ reports[d]["tax"] = reports[d].tax /\ reports[d].tax \in Nat /\ Gross(reports[d]) \in Nat
      BY FiguresOf
    <2>2. Cash(BookedAs("dividend", d)) = Gross(reports[d]) /\ Cash(BookedAs("tax", d)) = -reports[d].tax
      <3>1. d \in Days /\ OfDay(d) = reports[d]
        BY DEF OfDay
      <3> QED
        BY <3>1 DEF AllBooked, BookedFor
    <2>3. BookedAs("dividend", d) = Movements({"dividend"}, {d}) /\ BookedAs("tax", d) = Movements({"tax"}, {d})
      BY DEF BookedAs, Movements
    <2>4. Cash(Movements({"dividend"} \union {"tax"}, {d}))
            = Cash(Movements({"dividend"}, {d})) + Cash(Movements({"tax"}, {d}))
      <3>1. {"dividend"} \intersect {"tax"} = {}
        OBVIOUS
      <3> QED
        BY <3>1, CashOfKinds
    <2>5. {"dividend"} \union {"tax"} = {"dividend", "tax"}
      OBVIOUS
    <2> QED
      BY <2>1, <2>2, <2>3, <2>4, <2>5
  <1>2. IsFiniteSet(T)
    <2>1. Len(reports) \in Nat /\ DOMAIN reports = 1..Len(reports)
      BY DEF ReportTypes
    <2>2. IsFiniteSet(1..Len(reports))
      BY <2>1, FS_Interval
    <2> QED
      BY <2>1, <2>2, FS_Subset
  <1> HIDE DEF gross, tax, income
  <1>3. Cash(Movements({"dividend", "tax"}, T)) = SumFunctionOnSet(income, T)
    BY <1>1, <1>2, CashOfDays
  <1>4. SumFunctionOnSet(income, T) = SumFunctionOnSet(gross, T) - SumFunctionOnSet(tax, T)
    <2>1. ASSUME NEW d \in T
          PROVE  gross[d] \in Int /\ tax[d] \in Int /\ income[d] = gross[d] - tax[d]
      <3>1. d \in DOMAIN reports
        OBVIOUS
      <3>2. gross[d] \in Nat /\ tax[d] \in Nat /\ income[d] = gross[d] - tax[d]
        BY <1>1, <3>1
      <3> QED
        BY <3>2
    <2> QED
      BY <1>2, <2>1, SumMinus
  <1>5. SumFunctionOnSet(gross, T) \in Nat /\ SumFunctionOnSet(tax, T) \in Nat
    BY <1>1, <1>2, SumNat
  <1> QED
    BY <1>3, <1>4, <1>5 DEF GrossOver, SumOver, gross, tax

\* A part rounded up, in either way of writing it.
LEMMA RoundedUp ==
    ASSUME NEW a \in Nat, NEW b \in Nat \ {0}
    PROVE  CeilDiv(a, b) = (a + b - 1) \div b
  <1> DEFINE p == -((-a) \div b)
             q == (a + b - 1) \div b
  <1>1. p \in Int /\ a <= p * b /\ p * b < a + b
    OBVIOUS
  <1>2. q \in Int /\ q * b <= a + b - 1 /\ a - 1 < q * b
    OBVIOUS
  <1> HIDE DEF p, q
  <1>3. ASSUME NEW x \in Int, NEW y \in Int, x < y, a <= x * b, y * b < a + b PROVE FALSE
    <2>1. PICK d \in Nat : y = x + 1 + d
      <3>1. y - (x + 1) \in Nat /\ y = x + 1 + (y - (x + 1))
        BY <1>3
      <3> QED
        BY <3>1
    <2>2. y * b = x * b + b + d * b /\ d * b \in Nat /\ x * b \in Int
      BY <2>1
    <2> QED
      BY <1>3, <2>2
  <1>4. a <= q * b /\ q * b < a + b /\ q * b \in Int
    BY <1>2
  <1>5. p = q
    BY <1>1, <1>2, <1>3, <1>4
  <1> QED
    BY <1>5 DEF CeilDiv, p, q

-----------------------------------------------------------------------------
(* The drawdown.                                                           *)

\* A fall that is no deeper than a shallower one is no deeper than a deeper one.
LEMMA ShallowerStill ==
    ASSUME NEW fall \in Int, NEW from \in Nat, NEW a \in Nat, NEW of \in Nat \ {0},
           NEW b \in Nat, NEW than \in Nat \ {0}, fall * of <= a * from, a * than <= b * of
    PROVE  fall * than <= b * from
  <1> DEFINE x == fall * than
             y == b * from
  <1>1. (fall * of) * than <= (a * from) * than
    <2> DEFINE u == fall * of
               v == a * from
    <2>1. u \in Int /\ v \in Int /\ u <= v
      OBVIOUS
    <2> HIDE DEF u, v
    <2>2. v - u \in Nat /\ (v - u) * than \in Nat /\ (v - u) * than = v * than - u * than
      BY <2>1
    <2>3. u * than \in Int /\ v * than \in Int
      BY <2>1
    <2>4. u * than <= v * than
      BY <2>2, <2>3
    <2> QED
      BY <2>4 DEF u, v
  <1>2. (a * than) * from <= (b * of) * from
    <2> DEFINE u == a * than
               v == b * of
    <2>1. u \in Int /\ v \in Int /\ u <= v
      OBVIOUS
    <2> HIDE DEF u, v
    <2>2. v - u \in Nat /\ (v - u) * from \in Nat /\ (v - u) * from = v * from - u * from
      BY <2>1
    <2>3. u * from \in Int /\ v * from \in Int
      BY <2>1
    <2>4. u * from <= v * from
      BY <2>2, <2>3
    <2> QED
      BY <2>4 DEF u, v
  <1>3. (fall * of) * than = x * of /\ (a * from) * than = (a * than) * from /\ (b * of) * from = y * of
    OBVIOUS
  <1>4. x \in Int /\ y \in Int /\ x * of <= y * of
    <2>1. (fall * of) * than \in Int /\ (a * from) * than \in Int /\ (b * of) * from \in Int
          /\ x \in Int /\ y \in Int
      OBVIOUS
    <2> HIDE DEF x, y
    <2> QED
      BY <1>1, <1>2, <1>3, <2>1
  <1> HIDE DEF x, y
  <1>5. x <= y
    <2>1. SUFFICES ASSUME x >= y + 1 PROVE FALSE
      BY <1>4
    <2>2. x - (y + 1) \in Nat /\ (x - (y + 1)) * of \in Nat
          /\ (x - (y + 1)) * of = x * of - y * of - of /\ x * of \in Int /\ y * of \in Int
      BY <1>4, <2>1
    <2> QED
      BY <1>4, <2>2
  <1> QED
    BY <1>5 DEF x, y

\* What is no deeper than either of two falls is no deeper than the deeper one.
LEMMA DeeperOfTwo ==
    ASSUME NEW x \in Int, NEW from \in Nat, NEW d, NEW fall, NEW e,
           d[1] \in Nat, d[2] \in Nat \ {0}, fall[1] \in Nat, fall[2] \in Nat \ {0},
           \/ fall[1] * d[2] > d[1] * fall[2] /\ e = fall
           \/ fall[1] * d[2] <= d[1] * fall[2] /\ e = d,
           \/ x * d[2] <= d[1] * from
           \/ x * fall[2] <= fall[1] * from
    PROVE  x * e[2] <= e[1] * from
  <1> DEFINE u == fall[1] * d[2]
             v == d[1] * fall[2]
  <1>1. u \in Nat /\ v \in Nat
    OBVIOUS
  <1> HIDE DEF u, v
  <1>2. CASE u > v /\ e = fall
    <2>1. v <= u
      BY <1>1, <1>2
    <2>2. CASE x * d[2] <= d[1] * from
      <3>1. d[1] * fall[2] <= fall[1] * d[2]
        BY <2>1 DEF u, v
      <3> QED
        BY <1>2, <2>2, <3>1, ShallowerStill
    <2>3. CASE x * fall[2] <= fall[1] * from
      BY <1>2, <2>3
    <2> QED
      BY <2>2, <2>3
  <1>3. CASE u <= v /\ e = d
    <2>1. CASE x * d[2] <= d[1] * from
      BY <1>3, <2>1
    <2>2. CASE x * fall[2] <= fall[1] * from
      <3>1. fall[1] * d[2] <= d[1] * fall[2]
        BY <1>3 DEF u, v
      <3> QED
        BY <1>3, <2>2, <3>1, ShallowerStill
    <2> QED
      BY <2>1, <2>2
  <1> QED
    BY <1>2, <1>3 DEF u, v

\* From a higher price, the same low is a deeper fall.
LEMMA DeeperFromHigher ==
    ASSUME NEW price \in Nat, NEW from \in Nat, NEW peak \in Nat, from <= peak, price <= peak
    PROVE  (from - price) * peak <= (peak - price) * from
  <1>1. peak - from \in Nat /\ price * (peak - from) \in Nat
    OBVIOUS
  <1>2. /\ price * (peak - from) = price * peak - price * from
        /\ (from - price) * peak = from * peak - price * peak
        /\ (peak - price) * from = from * peak - price * from
        /\ from * peak \in Nat /\ price * peak \in Nat /\ price * from \in Nat
    OBVIOUS
  <1> QED
    BY <1>1, <1>2

\* The running peak and the deepest fall from it, after some of the prices.
Falls == [peak : Nat \ {0}, depth : Nat \X (Nat \ {0})]
LEMMA FallenIsKept ==
    ASSUME NEW price \in Nat, NEW so \in Falls
    PROVE  /\ FallenTo(price, so) \in Falls
           /\ price > so.peak => /\ FallenTo(price, so).peak = price
                                 /\ FallenTo(price, so).depth = so.depth
           /\ price <= so.peak =>
                /\ FallenTo(price, so).peak = so.peak
                /\ LET fall == <<so.peak - price, so.peak>>
                       depth == FallenTo(price, so).depth
                   IN  \/ fall[1] * so.depth[2] > so.depth[1] * fall[2] /\ depth = fall
                       \/ fall[1] * so.depth[2] <= so.depth[1] * fall[2] /\ depth = so.depth
  <1> DEFINE fall == <<so.peak - price, so.peak>>
             next == FallenTo(price, so)
  <1>1. so = [peak |-> so.peak, depth |-> so.depth] /\ so.peak \in Nat \ {0} /\ so.depth \in Nat \X (Nat \ {0})
    BY DEF Falls
  <1>2. fall[1] = so.peak - price /\ fall[2] = so.peak
    OBVIOUS
  <1>3. CASE price > so.peak
    <2>1. next = [so EXCEPT !.peak = price]
      <3>1. ~(price <= so.peak)
        BY <1>1, <1>3
      <3> QED
        BY <1>3, <3>1 DEF FallenTo
    <2>2. next = [peak |-> price, depth |-> so.depth]
      BY <1>1, <2>1
    <2>3. price \in Nat \ {0} /\ ~(price <= so.peak)
      BY <1>1, <1>3
    <2> QED
      BY <1>1, <2>2, <2>3 DEF Falls
  <1>4. CASE price <= so.peak
    <2>1. fall \in Nat \X (Nat \ {0}) /\ ~(price > so.peak)
      BY <1>1, <1>4
    <2>2. CASE Deeper(fall, so.depth)
      <3>1. next = [so EXCEPT !.depth = fall]
        BY <1>4, <2>1, <2>2 DEF FallenTo
      <3>2. next = [peak |-> so.peak, depth |-> fall]
        BY <1>1, <3>1
      <3>3. fall[1] * so.depth[2] > so.depth[1] * fall[2]
        BY <2>2 DEF Deeper
      <3> QED
        BY <1>1, <2>1, <3>2, <3>3 DEF Falls
    <2>3. CASE ~Deeper(fall, so.depth)
      <3>1. next = so
        BY <1>4, <2>1, <2>3 DEF FallenTo
      <3>2. fall[1] * so.depth[2] <= so.depth[1] * fall[2]
        <4>1. ~(fall[1] * so.depth[2] > so.depth[1] * fall[2])
          BY <2>3 DEF Deeper
        <4>2. fall[1] \in Nat /\ fall[2] \in Nat /\ so.depth[1] \in Nat /\ so.depth[2] \in Nat
          BY <1>1, <2>1
        <4> QED
          BY <4>1, <4>2
      <3> QED
        BY <1>1, <2>1, <3>1, <3>2
    <2> QED
      BY <2>2, <2>3
  <1> QED
    BY <1>1, <1>3, <1>4

\* No fall from a price to a later one is deeper, and one of them is as deep.
DeepestFall(deepest, p, n) ==
    /\ deepest \in Nat \X (Nat \ {0})
    /\ \A i, j \in 0..n : i <= j => (p[i] - p[j]) * deepest[2] <= deepest[1] * p[i]
    /\ \E i, j \in 0..n : i <= j /\ deepest = <<p[i] - p[j], p[i]>>

\* The drawdown is the deepest of all falls from a price to a later one, the first among them.
LEMMA DrawdownIsDeepest ==
    ASSUME NEW rs, NEW n \in Nat, Len(rs) = n, NEW first \in Nat \ {0},
           NEW p \in [0..n -> Nat], p[0] = first, \A i \in 1..n : rs[i].unitPrice = p[i]
    PROVE  DeepestFall(Drawdown(rs, first), p, n)
  <1> DEFINE Next(i, so) == FallenTo(rs[i].unitPrice, so)
             start == [peak |-> first, depth |-> <<0, first>>]
             Is(g) == g = [i \in 0..n |-> IF i = 0 THEN start ELSE Next(i, g[i - 1])]
             upTo == CHOOSE g : Is(g)
  <1>1. ASSUME NEW i \in 1..n, NEW so \in Falls PROVE Next(i, so) \in Falls /\ Next(i, so) = FallenTo(p[i], so)
    <2>1. rs[i].unitPrice = p[i] /\ p[i] \in Nat
      OBVIOUS
    <2> QED
      BY <2>1, FallenIsKept
  <1>2. start \in Falls /\ start.peak = first /\ start.depth[1] = 0 /\ start.depth[2] = first
        /\ start.depth = <<0, first>>
    BY DEF Falls
  <1> HIDE DEF Next, start
  <1>3. \E g : Is(g)
    <2> DEFINE F == [q \in (1..n) \X Falls |-> Next(q[1], q[2])]
    <2>1. F \in [(1..n) \X Falls -> Falls]
      BY <1>1
    <2>2. \A i \in 1..n, so \in Falls : F[<<i, so>>] = Next(i, so)
      OBVIOUS
    <2> HIDE DEF F
    <2>3. PICK g : Steps(g, n, Falls, start, F)
      BY <1>2, <2>1, StepByStep
    <2>4. \A i \in 0..n : i # 0 => i \in 1..n /\ g[i - 1] \in Falls
      BY <2>3 DEF Steps
    <2>5. \A i \in 0..n : g[i] = IF i = 0 THEN start ELSE Next(i, g[i - 1])
      BY <2>2, <2>3, <2>4 DEF Steps
    <2>6. g = [i \in 0..n |-> IF i = 0 THEN start ELSE Next(i, g[i - 1])]
      BY <2>3, <2>5 DEF Steps
    <2> QED
      BY <2>6
  <1>4. Is(upTo)
    <2> HIDE DEF Is
    <2> QED
      BY <1>3
  <1>5. Drawdown(rs, first) = upTo[n].depth
    BY DEF Drawdown, Next, start
  <1> HIDE DEF upTo
  <1>6. upTo[0] = start /\ \A i \in 1..n : upTo[i] = Next(i, upTo[i - 1])
    <2>1. 0 \in 0..n /\ \A i \in 1..n : i \in 0..n /\ i # 0
      OBVIOUS
    <2>2. \A i \in 0..n : upTo[i] = IF i = 0 THEN start ELSE Next(i, upTo[i - 1])
      BY <1>4
    <2> QED
      BY <2>1, <2>2
  <1> HIDE DEF Is
  <1> DEFINE Above(k, so) == /\ \E i \in 0..k : p[i] = so.peak
                             /\ \A i \in 0..k : p[i] <= so.peak
             Found(k, so) == \E i, j \in 0..k : i <= j /\ so.depth = <<p[i] - p[j], p[i]>>
             Deepest(k, so) == \A i, j \in 0..k : i <= j =>
                                   (p[i] - p[j]) * so.depth[2] <= so.depth[1] * p[i]
             Kept(k, so) == so \in Falls /\ Above(k, so) /\ Found(k, so) /\ Deepest(k, so)
             Good == {k \in Nat : k <= n => Kept(k, upTo[k])}
  <1>7. 0 \in Good
    <2>1. 0..0 = {0} /\ p[0] = first /\ first - first = 0 /\ upTo[0] = start
      BY <1>6
    <2>2. 0 * first <= 0 * first
      OBVIOUS
    <2>3. Above(0, start) /\ Found(0, start) /\ Deepest(0, start)
      BY <1>2, <2>1, <2>2
    <2> HIDE DEF Above, Found, Deepest
    <2> QED
      BY <1>2, <2>1, <2>3
  <1> HIDE DEF Kept
  <1>8. ASSUME NEW k \in Nat, k \in Good PROVE k + 1 \in Good
    <2>1. SUFFICES ASSUME k + 1 <= n PROVE Kept(k + 1, upTo[k + 1])
      OBVIOUS
    <2> DEFINE so == upTo[k]
               next == upTo[k + 1]
               price == p[k + 1]
    <2>2. Kept(k, so)
      <3>1. k <= n
        BY <2>1
      <3> QED
        BY <1>8, <3>1
    <2>3. so \in Falls /\ next = FallenTo(price, so) /\ price \in Nat
      <3>1. k + 1 \in 1..n /\ (k + 1) - 1 = k
        BY <2>1
      <3>2. so \in Falls
        BY <2>2 DEF Kept
      <3>3. next = Next(k + 1, so) /\ p[k + 1] \in Nat
        BY <1>6, <3>1
      <3> HIDE DEF so, next
      <3>4. Next(k + 1, so) = FallenTo(p[k + 1], so)
        BY <1>1, <3>1, <3>2
      <3> QED
        BY <3>2, <3>3, <3>4
    <2>4. /\ \A i \in 0..k + 1 : p[i] \in Nat
          /\ \A i \in 0..k + 1 : i \in 0..k \/ i = k + 1
          /\ \A i \in 0..k : i \in 0..k + 1 /\ i <= k + 1
          /\ k + 1 \in 0..k + 1
          /\ \A i, j \in 0..k + 1 : i <= j => j = k + 1 \/ (i \in 0..k /\ j \in 0..k)
      BY <2>1
    <2>5. p[k + 1] = price
      OBVIOUS
    <2> HIDE DEF so, next, price
    <2>6. /\ next \in Falls
          /\ price > so.peak => next.peak = price /\ next.depth = so.depth
      BY <2>3, FallenIsKept
    <2>7. /\ so.peak \in Nat \ {0} /\ so.depth[1] \in Nat /\ so.depth[2] \in Nat \ {0}
          /\ next.peak \in Nat \ {0} /\ next.depth[1] \in Nat /\ next.depth[2] \in Nat \ {0}
      BY <2>3, <2>6 DEF Falls
    <2>8. Above(k, so) /\ Found(k, so) /\ Deepest(k, so)
      BY <2>2 DEF Kept
    <2>9. CASE price > so.peak
      <3>1. next.peak = price /\ next.depth = so.depth
        BY <2>6, <2>9
      <3>2. Above(k + 1, next)
        <4>1. \A i \in 0..k + 1 : p[i] <= price
          <5>1. ASSUME NEW i \in 0..k + 1 PROVE p[i] <= price
            <6>1. CASE i = k + 1
              BY <2>3, <2>5, <6>1
            <6>2. CASE i \in 0..k
              <7>1. p[i] <= so.peak /\ p[i] \in Nat
                BY <2>4, <2>8, <6>2
              <7> QED
                BY <2>3, <2>7, <2>9, <7>1
            <6> QED
              BY <2>4, <6>1, <6>2
          <5> QED
            BY <5>1
        <4> QED
          BY <2>4, <2>5, <3>1, <4>1
      <3>3. Found(k + 1, next)
        BY <2>4, <2>8, <3>1
      <3>4. Deepest(k + 1, next)
        <4>1. SUFFICES ASSUME NEW i \in 0..k + 1, NEW j \in 0..k + 1, i <= j
                       PROVE  (p[i] - p[j]) * next.depth[2] <= next.depth[1] * p[i]
          OBVIOUS
        <4>2. CASE i \in 0..k /\ j \in 0..k
          BY <2>8, <3>1, <4>1, <4>2
        <4>3. CASE j = k + 1
          <5> DEFINE a == p[i] - p[j]
                     rise == price - p[i]
                     b == next.depth[2]
                     c == next.depth[1]
                     e == p[i]
          <5>1. p[i] <= price /\ p[j] = price
            BY <2>5, <3>1, <3>2, <4>3
          <5>2. rise \in Nat /\ a = 0 - rise /\ b \in Nat /\ c \in Nat /\ e \in Nat
            <6>1. p[i] \in Nat
              BY <2>4
            <6>2. price - p[i] \in Nat /\ p[i] - price = 0 - (price - p[i])
              BY <2>3, <5>1, <6>1
            <6> QED
              BY <2>7, <5>1, <6>1, <6>2
          <5> HIDE DEF a, b, c, e, rise
          <5>3. rise * b \in Nat /\ (0 - rise) * b = 0 - rise * b /\ c * e \in Nat
            BY <5>2
          <5>4. a * b <= c * e
            BY <5>2, <5>3
          <5> QED
            BY <5>4 DEF a, b, c, e
        <4> QED
          BY <2>4, <4>1, <4>2, <4>3
      <3> HIDE DEF Above, Found, Deepest
      <3> QED
        BY <2>6, <3>2, <3>3, <3>4 DEF Kept, next
    <2>10. CASE price <= so.peak
      <3> DEFINE fall == <<so.peak - price, so.peak>>
                 d == so.depth
                 e == next.depth
      <3>1. next.peak = so.peak
        BY <2>3, <2>10, FallenIsKept
      <3>2. \/ fall[1] * d[2] > d[1] * fall[2] /\ e = fall
            \/ fall[1] * d[2] <= d[1] * fall[2] /\ e = d
        BY <2>3, <2>10, FallenIsKept
      <3>3. Above(k + 1, next)
        <4>1. \E i \in 0..k + 1 : p[i] = so.peak
          BY <2>4, <2>8
        <4>2. \A i \in 0..k + 1 : p[i] <= so.peak
          BY <2>4, <2>5, <2>8, <2>10
        <4> QED
          BY <3>1, <4>1, <4>2
      <3>4. Found(k + 1, next)
        <4>1. CASE e = d
          BY <2>4, <2>8, <4>1
        <4>2. CASE e = fall
          <5>1. PICK i \in 0..k : p[i] = so.peak
            BY <2>8
          <5>2. i \in 0..k + 1 /\ k + 1 \in 0..k + 1 /\ i <= k + 1 /\ e = <<p[i] - p[k + 1], p[i]>>
            BY <2>4, <2>5, <4>2, <5>1
          <5> QED
            BY <5>2
        <4> QED
          BY <3>2, <4>1, <4>2
      <3>5. fall[1] \in Nat /\ fall[2] \in Nat \ {0} /\ fall[1] = so.peak - price /\ fall[2] = so.peak
        BY <2>3, <2>7, <2>10
      <3>6. e[1] \in Nat /\ e[2] \in Nat \ {0} /\ d[1] \in Nat /\ d[2] \in Nat \ {0}
        BY <2>7
      <3>7. Deepest(k + 1, next)
        <4>1. SUFFICES ASSUME NEW i \in 0..k + 1, NEW j \in 0..k + 1, i <= j
                       PROVE  (p[i] - p[j]) * e[2] <= e[1] * p[i]
          OBVIOUS
        <4>2. p[i] \in Nat /\ p[j] \in Nat /\ p[i] - p[j] \in Int /\ p[i] <= so.peak
          <5>1. p[i] \in Nat /\ p[j] \in Nat
            BY <2>4
          <5> QED
            BY <3>1, <3>3, <5>1
        <4>3. CASE i \in 0..k /\ j \in 0..k
          <5>1. (p[i] - p[j]) * d[2] <= d[1] * p[i]
            BY <2>8, <4>1, <4>3
          <5> HIDE DEF d, e, fall, Above, Found, Deepest
          <5> QED
            BY <3>2, <3>5, <3>6, <4>2, <5>1, DeeperOfTwo
        <4>4. CASE j = k + 1
          <5>1. (p[i] - p[j]) * fall[2] <= fall[1] * p[i]
            <6>1. (p[i] - price) * so.peak <= (so.peak - price) * p[i]
              BY <2>3, <2>7, <2>10, <4>2, DeeperFromHigher
            <6> QED
              BY <2>5, <3>5, <4>4, <6>1
          <5> HIDE DEF d, e, fall, Above, Found, Deepest
          <5> QED
            BY <3>2, <3>5, <3>6, <4>2, <5>1, DeeperOfTwo
        <4> QED
          BY <2>4, <4>1, <4>3, <4>4
      <3> HIDE DEF Above, Found, Deepest
      <3> QED
        BY <2>6, <3>3, <3>4, <3>7 DEF Kept, next
    <2> QED
      BY <2>3, <2>7, <2>9, <2>10
  <1>9. n \in Good
    <2> HIDE DEF Good
    <2> QED
      BY <1>7, <1>8, Naturals
  <1>10. Kept(n, upTo[n])
    BY <1>9
  <1> QED
    BY <1>5, <1>10 DEF Falls, Kept, DeepestFall

-----------------------------------------------------------------------------
(* The income received, figure by figure.                                  *)

\* What the full tax leaves of each dividend of a day is what is left of the day.
LEMMA TakenHome ==
    ASSUME NEW paid \in Seq(Nat \ {0})
    PROVE  SumFunction([k \in DOMAIN paid |-> paid[k] - CeilDiv(paid[k] * FullTax[1], FullTax[2])])
             = SumFunction(paid) - SumFunction([k \in DOMAIN paid |-> DividendTax(paid[k])])
  <1> DEFINE kept == [k \in DOMAIN paid |-> paid[k] - CeilDiv(paid[k] * FullTax[1], FullTax[2])]
             taxes == [k \in DOMAIN paid |-> DividendTax(paid[k])]
             places == DOMAIN paid
  <1>1. IsFiniteSet(places)
    <2>1. Len(paid) \in Nat /\ places = 1..Len(paid)
      OBVIOUS
    <2> QED
      BY <2>1, FS_Interval
  <1>2. ASSUME NEW k \in places
        PROVE  paid[k] \in Int /\ taxes[k] \in Int /\ kept[k] = paid[k] - taxes[k]
    <2>1. paid[k] \in Nat \ {0} /\ TaxPart \in Nat \ {0}
      BY EngineConstants
    <2>2. FullTax[1] = 1 /\ FullTax[2] = TaxPart /\ paid[k] * 1 = paid[k]
      BY <2>1 DEF FullTax
    <2>3. CeilDiv(paid[k], TaxPart) = (paid[k] + TaxPart - 1) \div TaxPart
      BY <2>1, RoundedUp
    <2>4. CeilDiv(paid[k] * FullTax[1], FullTax[2]) = DividendTax(paid[k])
      BY <2>2, <2>3 DEF DividendTax
    <2>5. DividendTax(paid[k]) \in Nat
      BY <2>1, TaxNat
    <2>6. paid[k] \in Int /\ DividendTax(paid[k]) \in Int
      BY <2>1, <2>5
    <2> QED
      BY <2>4, <2>6
  <1>3. DOMAIN kept = places /\ DOMAIN taxes = places
    OBVIOUS
  <1> HIDE DEF kept, taxes, places
  <1>4. SumFunctionOnSet(kept, places) = SumFunctionOnSet(paid, places) - SumFunctionOnSet(taxes, places)
    BY <1>1, <1>2, SumMinus
  <1>5. SumFunction(kept) = SumFunction(paid) - SumFunction(taxes)
    BY <1>3, <1>4 DEF SumFunction, places
  <1> QED
    BY <1>5 DEF kept, taxes

\* The figures of some reports are the sums over them.
LEMMA ReceivedIs ==
    ASSUME ReportTypes, FullyTaxed, NEW T \in SUBSET DOMAIN reports
    PROVE  LET received == Received(reports, T, FullTax)
           IN  /\ DOMAIN received = {"gross", "tax", "net", "takeHome"}
               /\ received["gross"] = GrossOver(reports, T)
               /\ received["tax"] = SumOver(reports, T, "tax")
               /\ received["net"] = GrossOver(reports, T) - SumOver(reports, T, "tax")
               /\ received["takeHome"] = received["net"]
  <1> DEFINE figures == [i \in DOMAIN reports |-> DayFigures(reports[i], FullTax)]
             of(figure) == [i \in DOMAIN figures |-> figures[i][figure]]
             gross == [i \in DOMAIN reports |-> Gross(reports[i])]
             tax == [i \in DOMAIN reports |-> reports[i]["tax"]]
  <1>1. IsFiniteSet(T)
    <2>1. Len(reports) \in Nat /\ DOMAIN reports = 1..Len(reports)
      BY DEF ReportTypes
    <2>2. IsFiniteSet(1..Len(reports))
      BY <2>1, FS_Interval
    <2> QED
      BY <2>1, <2>2, FS_Subset
  <1>2. ASSUME NEW i \in DOMAIN reports
        PROVE  /\ gross[i] \in Int /\ tax[i] \in Int
               /\ figures[i]["gross"] = gross[i] /\ figures[i]["tax"] = tax[i]
               /\ figures[i]["net"] = gross[i] - tax[i]
               /\ figures[i]["takeHome"] = gross[i] - tax[i]
    <2>1. /\ reports[i]["tax"] = reports[i].tax /\ reports[i].tax \in Nat /\ Gross(reports[i]) \in Nat
          /\ reports[i].paid \in Seq(Nat \ {0})
      BY FiguresOf
    <2>2. reports[i].tax = Taxes(reports[i])
      BY DEF FullyTaxed
    <2>3. DayFigures(reports[i], FullTax).takeHome = Gross(reports[i]) - Taxes(reports[i])
      BY <2>1, TakenHome DEF DayFigures, Gross, Taxes
    <2>4. /\ DayFigures(reports[i], FullTax).gross = Gross(reports[i])
          /\ DayFigures(reports[i], FullTax).tax = reports[i].tax
          /\ DayFigures(reports[i], FullTax).net = Gross(reports[i]) - reports[i].tax
      BY DEF DayFigures
    <2> QED
      BY <2>1, <2>2, <2>3, <2>4
  <1>3. Received(reports, T, FullTax)
          = [figure \in {"gross", "tax", "net", "takeHome"} |-> SumFunctionOnSet(of(figure), T)]
    BY DEF Received, Together
  <1>4. ASSUME NEW i \in T, NEW figure PROVE of(figure)[i] = figures[i][figure] /\ i \in DOMAIN reports
    OBVIOUS
  <1> HIDE DEF figures, gross, tax, of
  <1>5. SumFunctionOnSet(of("gross"), T) = SumFunctionOnSet(gross, T)
    <2>1. \A i \in T : gross[i] \in Int /\ gross[i] = of("gross")[i]
      BY <1>2, <1>4
    <2> QED
      BY <1>1, <2>1, SumSame
  <1>6. SumFunctionOnSet(of("tax"), T) = SumFunctionOnSet(tax, T)
    <2>1. \A i \in T : tax[i] \in Int /\ tax[i] = of("tax")[i]
      BY <1>2, <1>4
    <2> QED
      BY <1>1, <2>1, SumSame
  <1>7. SumFunctionOnSet(of("net"), T) = SumFunctionOnSet(gross, T) - SumFunctionOnSet(tax, T)
    <2>1. \A i \in T : gross[i] \in Int /\ tax[i] \in Int /\ of("net")[i] = gross[i] - tax[i]
      BY <1>2, <1>4
    <2> QED
      BY <1>1, <2>1, SumMinus
  <1>8. SumFunctionOnSet(of("takeHome"), T) = SumFunctionOnSet(gross, T) - SumFunctionOnSet(tax, T)
    <2>1. \A i \in T : gross[i] \in Int /\ tax[i] \in Int /\ of("takeHome")[i] = gross[i] - tax[i]
      BY <1>2, <1>4
    <2> QED
      BY <1>1, <2>1, SumMinus
  <1>9. GrossOver(reports, T) = SumFunctionOnSet(gross, T) /\ SumOver(reports, T, "tax") = SumFunctionOnSet(tax, T)
    BY DEF GrossOver, SumOver, gross, tax
  <1> QED
    BY <1>3, <1>5, <1>6, <1>7, <1>8, <1>9

-----------------------------------------------------------------------------
(* The cash there is.                                                      *)

Traded == {"buy", "sell", "daily cost", "dividend", "tax"}

\* What moved on a day is the sum of what moved of each kind.
LEMMA CashOfOneDay ==
    ASSUME PortfolioTypeOK, NEW d
    PROVE  Cash(Movements(Traded, {d}))
             = (Cash(BookedAs("buy", d)) + Cash(BookedAs("sell", d))) + Cash(BookedAs("daily cost", d))
                 + Cash(BookedAs("dividend", d)) + Cash(BookedAs("tax", d))
           /\ {Cash(BookedAs("buy", d)), Cash(BookedAs("sell", d)), Cash(BookedAs("daily cost", d)),
               Cash(BookedAs("dividend", d)), Cash(BookedAs("tax", d))} \subseteq Int
  <1> DEFINE on(kinds) == Cash(Movements(kinds, {d}))
             charge == "daily cost"
  <1>1. /\ charge # "buy" /\ charge # "sell" /\ charge # "dividend" /\ charge # "tax"
        /\ "buy" # "sell" /\ "buy" # "dividend" /\ "buy" # "tax" /\ "sell" # "dividend"
        /\ "sell" # "tax" /\ "dividend" # "tax"
    BY Zenon
  <1>2. Traded = {"buy", "sell", charge, "dividend", "tax"}
    BY Zenon DEF Traded
  <1>3. /\ BookedAs("buy", d) = Movements({"buy"}, {d}) /\ BookedAs("sell", d) = Movements({"sell"}, {d})
        /\ BookedAs("daily cost", d) = Movements({charge}, {d})
        /\ BookedAs("dividend", d) = Movements({"dividend"}, {d})
        /\ BookedAs("tax", d) = Movements({"tax"}, {d})
    <2>1. ASSUME NEW kind PROVE BookedAs(kind, d) = Movements({kind}, {d})
      BY DEF BookedAs, Movements
    <2> HIDE DEF charge
    <2>2. BookedAs(charge, d) = Movements({charge}, {d})
      BY <2>1
    <2>3. BookedAs("daily cost", d) = Movements({charge}, {d})
      BY <2>2, Zenon DEF charge
    <2>4. /\ BookedAs("buy", d) = Movements({"buy"}, {d}) /\ BookedAs("sell", d) = Movements({"sell"}, {d})
          /\ BookedAs("dividend", d) = Movements({"dividend"}, {d})
          /\ BookedAs("tax", d) = Movements({"tax"}, {d})
      BY <2>1
    <2> QED
      BY <2>3, <2>4, Zenon
  <1> HIDE DEF charge, on
  <1>4. ASSUME NEW kinds, NEW others, kinds \intersect others = {}
        PROVE  on(kinds \union others) = on(kinds) + on(others) /\ on(kinds) \in Int /\ on(others) \in Int
    <2> DEFINE days == {d}
    <2> HIDE DEF days
    <2>1. /\ Cash(Movements(kinds \union others, days))
                = Cash(Movements(kinds, days)) + Cash(Movements(others, days))
          /\ Cash(Movements(kinds, days)) \in Int /\ Cash(Movements(others, days)) \in Int
      BY <1>4, CashOfKinds
    <2> QED
      BY <2>1 DEF on, days
  <1> DEFINE two == {"dividend"} \union {"tax"}
             three == {charge} \union two
             both == {"buy"} \union {"sell"}
  <1>5. on(two) = on({"dividend"}) + on({"tax"}) /\ on({"dividend"}) \in Int /\ on({"tax"}) \in Int
    <2>1. {"dividend"} \intersect {"tax"} = {}
      BY <1>1
    <2> QED
      BY <1>4, <2>1
  <1>6. on(three) = on({charge}) + on(two) /\ on({charge}) \in Int
    <2>1. {charge} \intersect two = {}
      BY <1>1
    <2> QED
      BY <1>4, <2>1
  <1>7. on(both) = on({"buy"}) + on({"sell"}) /\ on({"buy"}) \in Int /\ on({"sell"}) \in Int
    <2>1. {"buy"} \intersect {"sell"} = {}
      BY <1>1
    <2> QED
      BY <1>4, <2>1
  <1>8. on(Traded) = on(both) + on(three)
    <2>1. both \intersect three = {} /\ Traded = both \union three
      BY <1>1, <1>2
    <2> QED
      BY <1>4, <2>1
  <1>9. on(Traded) = (on({"buy"}) + on({"sell"})) + on({charge}) + on({"dividend"}) + on({"tax"})
    <2> DEFINE a == on({"buy"})
               b == on({"sell"})
               c == on({charge})
               e == on({"dividend"})
               f == on({"tax"})
    <2>1. /\ a \in Int /\ b \in Int /\ c \in Int /\ e \in Int /\ f \in Int
          /\ on(Traded) = (a + b) + (c + (e + f))
      BY <1>5, <1>6, <1>7, <1>8
    <2> HIDE DEF a, b, c, e, f
    <2>2. on(Traded) = (a + b) + c + e + f
      BY <2>1
    <2> QED
      BY <2>2 DEF a, b, c, e, f
  <1>10. {on({"buy"}), on({"sell"}), on({charge}), on({"dividend"}), on({"tax"})} \subseteq Int
    BY <1>5, <1>6, <1>7
  <1> QED
    BY <1>3, <1>9, <1>10, Zenon DEF on

\* The trades, charges and dividends of the days are what their reports say.
LEMMA CashOfReports ==
    ASSUME PortfolioTypeOK, ReportTypes, AllBooked, DOMAIN reports \subseteq Days
    PROVE  Cash(Movements(Traded, DOMAIN reports))
             = Total("sold") - Total("bought") - Total("fee") - Total("daily") + Dividends.gross - Total("tax")
           /\ {Total("sold"), Total("bought"), Total("fee"), Total("daily"), Dividends.gross, Total("tax")}
                \subseteq Int
  <1> DEFINE D == DOMAIN reports
             sold == [i \in DOMAIN reports |-> reports[i]["sold"]]
             bought == [i \in DOMAIN reports |-> reports[i]["bought"]]
             fee == [i \in DOMAIN reports |-> reports[i]["fee"]]
             daily == [i \in DOMAIN reports |-> reports[i]["daily"]]
             gross == [i \in DOMAIN reports |-> Gross(reports[i])]
             tax == [i \in DOMAIN reports |-> reports[i]["tax"]]
             one == [i \in DOMAIN reports |-> sold[i] - bought[i]]
             two == [i \in DOMAIN reports |-> one[i] - fee[i]]
             three == [i \in DOMAIN reports |-> two[i] - daily[i]]
             four == [i \in DOMAIN reports |-> three[i] + gross[i]]
             five == [i \in DOMAIN reports |-> four[i] - tax[i]]
             Sum(f) == SumFunctionOnSet(f, D)
  <1>1. IsFiniteSet(D)
    <2>1. Len(reports) \in Nat /\ DOMAIN reports = 1..Len(reports)
      BY DEF ReportTypes
    <2> QED
      BY <2>1, FS_Interval
  <1>2. ASSUME NEW d \in D
        PROVE  /\ sold[d] \in Int /\ bought[d] \in Int /\ fee[d] \in Int /\ daily[d] \in Int
               /\ gross[d] \in Int /\ tax[d] \in Int
               /\ one[d] = sold[d] - bought[d] /\ two[d] = one[d] - fee[d] /\ three[d] = two[d] - daily[d]
               /\ four[d] = three[d] + gross[d] /\ five[d] = four[d] - tax[d]
               /\ sold[d] = reports[d].sold /\ bought[d] = reports[d].bought /\ fee[d] = reports[d].fee
               /\ daily[d] = reports[d].daily /\ gross[d] = Gross(reports[d]) /\ tax[d] = reports[d].tax
    <2>1. /\ \A figure \in {"bought", "sold", "fee", "daily", "tax"} : reports[d][figure] \in Nat
          /\ Gross(reports[d]) \in Nat
      BY FiguresOf
    <2>2. /\ reports[d]["bought"] \in Nat /\ reports[d]["sold"] \in Nat /\ reports[d]["fee"] \in Nat
          /\ reports[d]["daily"] \in Nat /\ reports[d]["tax"] \in Nat
      BY <2>1
    <2> QED
      BY <2>1, <2>2
  <1>3. ASSUME NEW d \in D PROVE Cash(Movements(Traded, {d})) = five[d]
    <2> DEFINE buy == Cash(BookedAs("buy", d))
               sell == Cash(BookedAs("sell", d))
               charge == Cash(BookedAs("daily cost", d))
               dividend == Cash(BookedAs("dividend", d))
               duty == Cash(BookedAs("tax", d))
               moved == Cash(Movements(Traded, {d}))
    <2>1. BookedFor(d, reports[d])
      <3>1. d \in Days /\ OfDay(d) = reports[d]
        BY DEF OfDay
      <3> QED
        BY <3>1 DEF AllBooked
    <2>2. /\ moved = (buy + sell) + charge + dividend + duty
          /\ {buy, sell, charge, dividend, duty} \subseteq Int
      BY CashOfOneDay
    <2>3. /\ buy + sell = reports[d].sold - reports[d].bought - reports[d].fee
          /\ charge = -reports[d].daily /\ dividend = Gross(reports[d]) /\ duty = -reports[d].tax
      BY <2>1, Zenon DEF BookedFor
    <2> HIDE DEF buy, sell, charge, dividend, duty, moved
    <2>4. /\ buy + sell = sold[d] - bought[d] - fee[d] /\ charge = -daily[d]
          /\ dividend = gross[d] /\ duty = -tax[d]
      BY <1>2, <2>3
    <2> HIDE DEF sold, bought, fee, daily, gross, tax, one, two, three, four, five
    <2>5. five[d] = (sold[d] - bought[d] - fee[d]) - daily[d] + gross[d] - tax[d]
      BY <1>2
    <2>6. moved = five[d]
      BY <1>2, <2>2, <2>4, <2>5
    <2> QED
      BY <2>6 DEF moved
  <1> HIDE DEF sold, bought, fee, daily, gross, tax, one, two, three, four, five, D
  <1>4. Cash(Movements(Traded, D)) = Sum(five)
    <2>1. \A d \in D : five[d] = Cash(Movements(Traded, {d}))
      BY <1>3
    <2> QED
      BY <1>1, <2>1, CashOfDays
  <1>5. \A d \in D : one[d] \in Int /\ two[d] \in Int /\ three[d] \in Int /\ four[d] \in Int
    BY <1>2
  <1>6. Sum(one) = Sum(sold) - Sum(bought)
    BY <1>1, <1>2, SumMinus
  <1>7. Sum(two) = Sum(one) - Sum(fee)
    BY <1>1, <1>2, <1>5, SumMinus
  <1>8. Sum(three) = Sum(two) - Sum(daily)
    BY <1>1, <1>2, <1>5, SumMinus
  <1>9. Sum(four) = Sum(three) + Sum(gross)
    BY <1>1, <1>2, <1>5, SumPlus
  <1>10. Sum(five) = Sum(four) - Sum(tax)
    BY <1>1, <1>2, <1>5, SumMinus
  <1>11. /\ Total("sold") = Sum(sold) /\ Total("bought") = Sum(bought) /\ Total("fee") = Sum(fee)
         /\ Total("daily") = Sum(daily) /\ Total("tax") = Sum(tax) /\ Dividends.gross = Sum(gross)
    BY DEF Total, SumOver, Dividends, GrossOver, sold, bought, fee, daily, tax, gross, D
  <1>12. /\ Sum(sold) \in Int /\ Sum(bought) \in Int /\ Sum(fee) \in Int /\ Sum(daily) \in Int
         /\ Sum(gross) \in Int /\ Sum(tax) \in Int
    BY <1>1, <1>2, SumInt
  <1> HIDE DEF Sum
  <1> QED
    BY <1>4, <1>6, <1>7, <1>8, <1>9, <1>10, <1>11, <1>12 DEF D

-----------------------------------------------------------------------------
(* What a run reports is what its ledger holds.                            *)

\* At the close of a day there is a report for every day there was.
LEMMA ClosedDay ==
    ASSUME DayInv, ReportsInv, phase = "closed", reports # <<>>
    PROVE  /\ PortfolioTypeOK /\ BalanceIsSum /\ ReportTypes /\ AllBooked /\ FullyTaxed
           /\ Len(reports) = today /\ today \in Nat \ {0} /\ DOMAIN reports = 1..today /\ 1..today \subseteq Days
           /\ \A i \in DOMAIN reports : reports[i].day = i
           /\ \A i \in DOMAIN ledger : ledger[i].day \in 1..today /\ ledger[i].kind \in Kind
  <1>1. /\ PortfolioTypeOK /\ BalanceIsSum /\ Types /\ ReportTypes /\ AllBooked /\ FullyTaxed /\ DaysPast
    BY DEF DayInv, Types, Consistent, ReportsInv
  <1>2. /\ Len(reports) = today /\ reports \in Seq(DayReports)
        /\ \A i \in DOMAIN reports : reports[i].day = i
    BY <1>1 DEF ReportTypes
  <1>3. today \in Nat \ {0} /\ DOMAIN reports = 1..today
    BY <1>2
  <1>4. MaxDay \in Nat /\ today <= MaxDay
    BY <1>1, <1>3, PortfolioConstants DEF Types, Days
  <1>5. 1..today \subseteq Days
    BY <1>3, <1>4 DEF Days
  <1>6. ASSUME NEW i \in DOMAIN ledger PROVE ledger[i].day \in 1..today /\ ledger[i].kind \in Kind
    <2>1. ledger[i] \in CashMovement
      BY <1>1 DEF PortfolioTypeOK
    <2>2. ledger[i].day \in 1..MaxDay /\ ledger[i].kind \in Kind
      BY <2>1 DEF CashMovement, Days
    <2>3. ledger[i].day <= today \/ ledger[i].day = 1
      BY <1>1 DEF DaysPast
    <2> QED
      BY <1>3, <1>4, <2>2, <2>3
  <1> QED
    BY <1>1, <1>2, <1>3, <1>5, <1>6

\* All the cash there is comes from what was deposited, sold and paid.
LEMMA CashIsAccounted ==
    ASSUME DayInv, ReportsInv, phase = "closed", reports # <<>>
    PROVE  balance = Cash(Movements({"deposit"}, 1..today)) - Total("bought") + Total("sold")
                       - Costs.fee - Costs.daily + Dividends.gross - Dividends.tax
  <1>1. /\ PortfolioTypeOK /\ BalanceIsSum /\ ReportTypes /\ AllBooked
        /\ DOMAIN reports = 1..today /\ 1..today \subseteq Days
        /\ \A i \in DOMAIN ledger : ledger[i].day \in 1..today /\ ledger[i].kind \in Kind
    BY ClosedDay
  <1>2. Kind = {"deposit"} \union Traded /\ {"deposit"} \intersect Traded = {}
    <2>1. Kind = {"deposit"} \union Traded
      BY Zenon DEF Kind, Traded
    <2>2. "deposit" \notin Traded
      BY Zenon DEF Traded
    <2> QED
      BY <2>1, <2>2
  <1>3. DOMAIN ledger = Movements({"deposit"} \union Traded, 1..today)
    BY <1>1, <1>2 DEF Movements
  <1>4. balance = Cash(DOMAIN ledger)
    BY <1>1 DEF BalanceIsSum
  <1> DEFINE deposits == Cash(Movements({"deposit"}, 1..today))
             others == Cash(Movements(Traded, 1..today))
             days == 1..today
  <1>5. balance = deposits + others /\ deposits \in Int /\ others \in Int
    <2> HIDE DEF days
    <2>1. /\ Cash(Movements({"deposit"} \union Traded, days))
               = Cash(Movements({"deposit"}, days)) + Cash(Movements(Traded, days))
          /\ Cash(Movements({"deposit"}, days)) \in Int /\ Cash(Movements(Traded, days)) \in Int
      BY <1>1, <1>2, CashOfKinds
    <2> QED
      BY <1>3, <1>4, <2>1 DEF days
  <1>6. /\ others = Total("sold") - Total("bought") - Total("fee") - Total("daily") + Dividends.gross - Total("tax")
        /\ {Total("sold"), Total("bought"), Total("fee"), Total("daily"), Dividends.gross, Total("tax")} \subseteq Int
    BY <1>1, CashOfReports
  <1>7. Costs.fee = Total("fee") /\ Costs.daily = Total("daily") /\ Dividends.tax = Total("tax")
    BY DEF Costs, Dividends
  <1> DEFINE a == Total("sold")
             b == Total("bought")
             c == Total("fee")
             d == Total("daily")
             e == Dividends.gross
             f == Total("tax")
  <1>8. /\ a \in Int /\ b \in Int /\ c \in Int /\ d \in Int /\ e \in Int /\ f \in Int
        /\ others = a - b - c - d + e - f
    BY <1>6
  <1> HIDE DEF a, b, c, d, e, f, deposits, others
  <1>9. balance = deposits - b + a - c - d + e - f
    BY <1>5, <1>8
  <1> QED
    BY <1>7, <1>9 DEF a, b, c, d, e, f, deposits

\* What was booked as income on some days is what the reports of those days received.
LEMMA IncomeOfDays ==
    ASSUME DayInv, ReportsInv, phase = "closed", reports # <<>>, NEW days, NEW T \in SUBSET DOMAIN reports,
           \A day \in 1..today : day \in days <=> day \in T
    PROVE  /\ Cash(Movements({"dividend", "tax"}, days)) = GrossOver(reports, T) - SumOver(reports, T, "tax")
           /\ GrossOver(reports, T) \in Nat /\ SumOver(reports, T, "tax") \in Nat
  <1>1. /\ PortfolioTypeOK /\ ReportTypes /\ AllBooked
        /\ DOMAIN reports = 1..today /\ 1..today \subseteq Days
        /\ \A i \in DOMAIN ledger : ledger[i].day \in 1..today
    BY ClosedDay
  <1>2. Movements({"dividend", "tax"}, days) = Movements({"dividend", "tax"}, T)
    BY <1>1 DEF Movements
  <1>3. DOMAIN reports \subseteq Days
    BY <1>1
  <1>4. /\ Cash(Movements({"dividend", "tax"}, T)) = GrossOver(reports, T) - SumOver(reports, T, "tax")
        /\ GrossOver(reports, T) \in Nat /\ SumOver(reports, T, "tax") \in Nat
    BY <1>1, <1>3, IncomeIsBooked
  <1> QED
    BY <1>2, <1>4

\* A part of a difference and the difference of the parts, each rounded down.
LEMMA PartOfDifference ==
    ASSUME NEW g \in Nat, NEW t \in Nat, NEW m \in Nat \ {0}
    PROVE  (g \div m - t \div m) - (g - t) \div m \in {0, 1}
  <1> DEFINE a == g \div m
             b == t \div m
             c == (g - t) \div m
  <1>1. a \in Int /\ m * a <= g /\ g < m * (a + 1)
    OBVIOUS
  <1>2. b \in Int /\ m * b <= t /\ t < m * (b + 1)
    OBVIOUS
  <1>3. c \in Int /\ m * c <= g - t /\ g - t < m * (c + 1)
    <2>1. g - t \in Int
      OBVIOUS
    <2> QED
      BY <2>1
  <1> HIDE DEF a, b, c
  <1> DEFINE d == (a - b) - c
  <1>4. d \in Int /\ m * d = m * a - m * b - m * c /\ m * a \in Int /\ m * b \in Int /\ m * c \in Int
        /\ m * (a + 1) = m * a + m /\ m * (b + 1) = m * b + m /\ m * (c + 1) = m * c + m
    BY <1>1, <1>2, <1>3
  <1> HIDE DEF d
  <1>5. m * d < 2 * m /\ -m < m * d /\ m * d \in Int
    BY <1>1, <1>2, <1>3, <1>4
  <1>6. d < 2
    <2>1. SUFFICES ASSUME d >= 2 PROVE FALSE
      BY <1>4
    <2>2. d - 2 \in Nat /\ m * (d - 2) \in Nat /\ m * (d - 2) = m * d - 2 * m
      BY <1>4, <2>1
    <2> QED
      BY <1>5, <2>2
  <1>7. d > -1
    <2>1. SUFFICES ASSUME d <= -1 PROVE FALSE
      BY <1>4
    <2>2. -1 - d \in Nat /\ m * (-1 - d) \in Nat /\ m * (-1 - d) = -m - m * d
      BY <1>4, <2>1
    <2> QED
      BY <1>5, <2>2
  <1>8. d \in {0, 1}
    BY <1>4, <1>6, <1>7
  <1> QED
    BY <1>8 DEF a, b, c, d

\* The drawdown reported is the deepest fall of the prices reported, the limit when it is reached.
LEMMA DrawdownReported ==
    ASSUME DayInv, LeftInv, ReportsInv, phase = "closed", reports # <<>>
    PROVE  LET price == <<Scale>> \o [i \in DOMAIN reports |-> reports[i].unitPrice]
               deepest == Drawdown(reports, Scale)
           IN  /\ \A i, j \in DOMAIN price : i <= j =>
                     (price[i] - price[j]) * deepest[2] <= deepest[1] * price[i]
               /\ \E i, j \in DOMAIN price : i <= j /\ deepest = <<price[i] - price[j], price[i]>>
               /\ FallsBy(MaxDrawdown, units.high, units.price) =>
                     deepest[1] * 100 >= MaxDrawdown * deepest[2]
  <1> DEFINE n == Len(reports)
             price == <<Scale>> \o [i \in DOMAIN reports |-> reports[i].unitPrice]
             deepest == Drawdown(reports, Scale)
             p == [k \in 0..n |-> PriceAt(k)]
  <1>1. /\ ReportTypes /\ n \in Nat \ {0} /\ DOMAIN reports = 1..n
    BY ClosedDay
  <1>2. \A k \in 1..n : reports[k].unitPrice \in Nat
    <2>1. \A k \in 1..n : reports[k] \in DayReports
      BY <1>1 DEF ReportTypes
    <2> QED
      BY <2>1 DEF DayReports
  <1>3. Scale \in Nat \ {0} /\ MaxDrawdown \in 1..99
    BY EngineConstants
  <1>4. p \in [0..n -> Nat] /\ p[0] = Scale /\ \A k \in 1..n : reports[k].unitPrice = p[k]
    <2> HIDE DEF n
    <2>1. \A k \in 0..n : PriceAt(k) \in Nat
      <3>1. \A k \in 0..n : k = 0 \/ k \in 1..n
        BY <1>1
      <3> QED
        BY <1>2, <1>3, <3>1 DEF PriceAt
    <2>2. \A k \in 1..n : k \in 0..n /\ k # 0
      BY <1>1
    <2>3. 0 \in 0..n
      BY <1>1
    <2> QED
      BY <2>1, <2>2, <2>3 DEF PriceAt
  <1>5. DOMAIN price = 1..n + 1 /\ \A k \in 1..n + 1 : price[k] = p[k - 1]
    <2> DEFINE tail == [i \in DOMAIN reports |-> reports[i].unitPrice]
    <2>1. tail \in Seq(Nat) /\ Len(tail) = n /\ \A k \in 1..n : tail[k] = p[k]
      BY <1>1, <1>2, <1>4
    <2>2. <<Scale>> \in Seq(Nat) /\ Len(<<Scale>>) = 1 /\ <<Scale>>[1] = p[0]
      BY <1>3, <1>4
    <2> HIDE DEF tail, p, n
    <2>3. Len(<<Scale>> \o tail) = n + 1 /\ DOMAIN (<<Scale>> \o tail) = 1..n + 1
      BY <1>1, <2>1, <2>2
    <2>4. ASSUME NEW k \in 1..n + 1 PROVE (<<Scale>> \o tail)[k] = p[k - 1]
      <3>1. CASE k = 1
        BY <1>1, <2>1, <2>2, <3>1
      <3>2. CASE k # 1
        <4>1. k - 1 \in 1..n
          BY <1>1, <3>2
        <4>2. (<<Scale>> \o tail)[k] = tail[k - 1]
          BY <1>1, <2>1, <2>2, <3>2
        <4> QED
          BY <2>1, <4>1, <4>2
      <3> QED
        BY <3>1, <3>2
    <2> QED
      BY <2>3, <2>4 DEF tail
  <1>6. units.high \in Nat /\ units.price \in Nat /\ units.price = p[n] /\ Scale <= units.high
        /\ \E k \in 0..n : p[k] = units.high
    <2>1. units.high \in Nat /\ units.price \in Nat
      BY DEF LeftInv, UnitsKept, Funds
    <2>2. /\ \A d \in 0..n : PriceAt(d) <= units.high
          /\ \E d \in 0..n : PriceAt(d) = units.high
          /\ units.price = PriceAt(n)
      BY DEF ReportsInv, PricesKept
    <2>3. 0 \in 0..n /\ n \in 0..n /\ PriceAt(0) = Scale
      BY <1>1 DEF PriceAt
    <2> HIDE DEF n
    <2> QED
      BY <2>1, <2>2, <2>3
  <1> HIDE DEF p, price, deepest
  <1>7. /\ deepest \in Nat \X (Nat \ {0})
        /\ \A i, j \in 0..n : i <= j => (p[i] - p[j]) * deepest[2] <= deepest[1] * p[i]
        /\ \E i, j \in 0..n : i <= j /\ deepest = <<p[i] - p[j], p[i]>>
    <2> HIDE DEF n
    <2>1. n \in Nat /\ Len(reports) = n
      BY <1>1 DEF n
    <2> DEFINE first == Scale
    <2>2. first \in Nat \ {0} /\ p[0] = first
      BY <1>3, <1>4
    <2> HIDE DEF first
    <2>3. DeepestFall(Drawdown(reports, first), p, n)
      BY <1>4, <2>1, <2>2, DrawdownIsDeepest
    <2> QED
      BY <2>3 DEF deepest, first, DeepestFall
  <1> HIDE DEF n
  <1>8. \A k \in 1..n + 1 : k - 1 \in 0..n
    BY <1>1
  <1>9. \A i, j \in DOMAIN price : i <= j =>
           (price[i] - price[j]) * deepest[2] <= deepest[1] * price[i]
    <2>1. SUFFICES ASSUME NEW i \in 1..n + 1, NEW j \in 1..n + 1, i <= j
                   PROVE  (price[i] - price[j]) * deepest[2] <= deepest[1] * price[i]
      BY <1>5
    <2>2. i - 1 \in 0..n /\ j - 1 \in 0..n /\ i - 1 <= j - 1
      BY <1>1, <2>1
    <2>3. price[i] = p[i - 1] /\ price[j] = p[j - 1]
      BY <1>5
    <2> QED
      BY <1>7, <2>2, <2>3
  <1>10. \E i, j \in DOMAIN price : i <= j /\ deepest = <<price[i] - price[j], price[i]>>
    <2>1. PICK i \in 0..n, j \in 0..n : i <= j /\ deepest = <<p[i] - p[j], p[i]>>
      BY <1>7
    <2>2. i + 1 \in 1..n + 1 /\ j + 1 \in 1..n + 1 /\ (i + 1) - 1 = i /\ (j + 1) - 1 = j /\ i + 1 <= j + 1
      BY <1>1, <2>1
    <2>3. price[i + 1] = p[i] /\ price[j + 1] = p[j]
      BY <1>5, <2>2
    <2> QED
      BY <1>5, <2>1, <2>2, <2>3
  <1>11. ASSUME FallsBy(MaxDrawdown, units.high, units.price)
         PROVE  deepest[1] * 100 >= MaxDrawdown * deepest[2]
    <2> DEFINE high == units.high
               fall == high - units.price
    <2>1. PICK k \in 0..n : p[k] = high
      BY <1>6
    <2>2. k <= n /\ n \in 0..n
      BY <1>1
    <2>3. fall * deepest[2] <= deepest[1] * high
      BY <1>6, <1>7, <2>1, <2>2
    <2>4. units.price * 100 <= high * (100 - MaxDrawdown)
      BY <1>11 DEF FallsBy
    <2>5. high \in Nat \ {0} /\ deepest[1] \in Nat /\ deepest[2] \in Nat \ {0} /\ MaxDrawdown \in Nat
          /\ units.price \in Nat /\ MaxDrawdown <= 99
      BY <1>3, <1>6, <1>7
    <2>6. MaxDrawdown * high <= fall * 100 /\ fall \in Int
      <3>1. high * (100 - MaxDrawdown) = 100 * high - MaxDrawdown * high /\ MaxDrawdown * high \in Int
            /\ fall * 100 = 100 * high - units.price * 100
        BY <2>5
      <3> DEFINE u == MaxDrawdown * high
                 v == units.price * 100
                 w == 100 * high
                 x == fall * 100
      <3>2. u \in Int /\ v \in Int /\ w \in Int /\ v <= w - u /\ x = w - v
        <4>1. high * (100 - MaxDrawdown) = w - u /\ x = w - v /\ v <= high * (100 - MaxDrawdown)
          BY <2>4, <3>1
        <4>2. u \in Int /\ v \in Int /\ w \in Int
          <5>1. u \in Int
            BY <3>1
          <5>2. units.price \in Int /\ high \in Int
            BY <2>5
          <5>3. v \in Int /\ w \in Int
            BY <5>2
          <5> QED
            BY <5>1, <5>3
        <4> HIDE DEF u, v, w, x
        <4> QED
          BY <4>1, <4>2
      <3>3. fall \in Int
        BY <2>5
      <3> HIDE DEF u, v, w, x, fall
      <3>4. u <= x
        BY <3>2
      <3> QED
        BY <3>3, <3>4 DEF u, x
    <2>7. fall \in Nat
      <3>1. MaxDrawdown * high \in Nat
        BY <2>5
      <3> HIDE DEF fall
      <3> QED
        BY <2>6, <3>1
    <2> HIDE DEF high, fall
    <2>8. MaxDrawdown * deepest[2] <= deepest[1] * 100
      <3> DEFINE a == deepest[1]
                 b == deepest[2]
                 m == MaxDrawdown
                 whole == 100
      <3>1. /\ m \in Int /\ whole \in Nat /\ fall \in Nat /\ high \in Nat \ {0} /\ a \in Nat
            /\ b \in Nat \ {0} /\ m * high <= fall * whole /\ fall * b <= a * high
        BY <2>3, <2>5, <2>6, <2>7
      <3> HIDE DEF a, b, m, whole
      <3>2. m * b <= a * whole
        BY <3>1, ShallowerStill
      <3> QED
        BY <3>2 DEF a, b, m, whole
    <2> QED
      BY <2>5, <2>8
  <1> QED
    BY <1>9, <1>10, <1>11 DEF price, deepest

\* The days of a month, and of the last year, have their reports.
LEMMA MonthsReported ==
    ASSUME DayInv, ReportsInv, phase = "closed", reports # <<>>, NEW month
    PROVE  LET T == {i \in DOMAIN reports : [day \in Days |-> MonthOf(day)][reports[i].day] = month}
               days == {day \in 1..today : MonthOf(day) = month}
           IN  T \in SUBSET DOMAIN reports /\ \A day \in 1..today : day \in days <=> day \in T
  <1> DEFINE monthOf == [day \in Days |-> MonthOf(day)]
  <1>1. /\ DOMAIN reports = 1..today /\ 1..today \subseteq Days
        /\ \A i \in DOMAIN reports : reports[i].day = i
    BY ClosedDay
  <1>2. \A i \in 1..today : monthOf[reports[i].day] = MonthOf(i)
    BY <1>1
  <1> HIDE DEF monthOf
  <1>3. \A day \in 1..today : monthOf[reports[day].day] = month <=> MonthOf(day) = month
    BY <1>2
  <1> QED
    BY <1>1, <1>3 DEF monthOf

LEMMA YearReported ==
    ASSUME DayInv, ReportsInv, phase = "closed", reports # <<>>
    PROVE  /\ Trailing(reports) \in SUBSET DOMAIN reports
           /\ \A day \in 1..today : day \in today - YearDays + 1..today <=> day \in Trailing(reports)
           /\ Value(closes) = Last(reports).value
  <1>1. /\ ReportTypes /\ Len(reports) = today /\ today \in Nat \ {0} /\ DOMAIN reports = 1..today
        /\ \A i \in DOMAIN reports : reports[i].day = i
    BY ClosedDay
  <1>2. Last(reports) = reports[today] /\ today \in DOMAIN reports
    BY <1>1 DEF Last
  <1>3. Last(reports).day = today /\ YearDays \in Nat \ {0}
    BY <1>1, <1>2, ReportsConstants
  <1>4. Trailing(reports) = {i \in 1..today : i >= today - (YearDays - 1)}
    BY <1>1, <1>3 DEF Trailing, YearWindowStart
  <1>5. \A day \in 1..today : day \in today - YearDays + 1..today <=> day >= today - (YearDays - 1)
    BY <1>1, <1>3
  <1>6. reports[Len(reports)].value = Value(closes)
    BY DEF ReportsInv, PricesKept
  <1> QED
    BY <1>1, <1>2, <1>4, <1>5, <1>6

\* The monthly average of the last year, figure by figure, is off by one at most.
LEMMA AverageOff ==
    ASSUME DayInv, ReportsInv, phase = "closed", reports # <<>>
    PROVE  LET average == MonthlyAverage(reports, FullTax)
           IN  (average.gross - average.tax) - average.net \in {0, 1}
  <1> DEFINE T == Trailing(reports)
             year == Received(reports, T, FullTax)
             g == GrossOver(reports, T)
             t == SumOver(reports, T, "tax")
             average == MonthlyAverage(reports, FullTax)
             days == today - YearDays + 1..today
  <1>1. T \in SUBSET DOMAIN reports /\ \A day \in 1..today : day \in days <=> day \in T
    BY YearReported
  <1>2. ReportTypes /\ FullyTaxed /\ YearMonths \in Nat \ {0}
    BY ClosedDay, ReportsConstants
  <1>3. average = [figure \in DOMAIN year |-> PerMonth(year[figure])]
    BY DEF MonthlyAverage
  <1> HIDE DEF T, days, average
  <1>4. /\ DOMAIN year = {"gross", "tax", "net", "takeHome"}
        /\ year["gross"] = g /\ year["tax"] = t /\ year["net"] = g - t
    BY <1>1, <1>2, ReceivedIs
  <1>5. g \in Nat /\ t \in Nat
    BY <1>1, IncomeOfDays
  <1> HIDE DEF g, t, year
  <1>6. /\ average["gross"] = PerMonth(g) /\ average["tax"] = PerMonth(t)
        /\ average["net"] = PerMonth(g - t)
    BY <1>3, <1>4
  <1>7. (g \div YearMonths - t \div YearMonths) - (g - t) \div YearMonths \in {0, 1}
    BY <1>2, <1>5, PartOfDifference
  <1>8. (average.gross - average.tax) - average.net \in {0, 1}
    BY <1>6, <1>7 DEF PerMonth
  <1> QED
    BY <1>8 DEF average

\* What a run reports is what its ledger holds: every sum of the reports, over the run, the
\* last year or a month, is the movements of the ledger, and the drawdown the deepest fall
\* (measure, received_income).
THEOREM ReportsAreTheLedger == ResultsSpec => []ResultsAddUp
  <1> DEFINE Inv == DayInv /\ LeftInv /\ ReportsInv
  <1>1. Inv => ResultsAddUp
    <2> DEFINE booked(kinds, days) ==
                   Cash({i \in DOMAIN ledger : ledger[i].kind \in kinds /\ ledger[i].day \in days})
               income(days) == booked({"dividend", "tax"}, days)
               monthOf == [day \in Days |-> MonthOf(day)]
               months == ByMonth(reports, monthOf, FullTax)
               daysOf(month) == {day \in 1..today : MonthOf(day) = month}
               lastYear == today - YearDays + 1..today
               T == Trailing(reports)
    <2>1. SUFFICES ASSUME DayInv, LeftInv, ReportsInv, phase = "closed", reports # <<>>
                   PROVE  ResultsAddUp
      BY DEF ResultsAddUp
    <2>2. ASSUME NEW kinds, NEW days PROVE booked(kinds, days) = Cash(Movements(kinds, days))
      BY DEF Movements
    <2>3. ReportTypes /\ FullyTaxed
      BY <2>1, ClosedDay
    <2>4. /\ T \in SUBSET DOMAIN reports /\ Value(closes) = Last(reports).value
          /\ \A day \in 1..today : day \in lastYear <=> day \in T
      BY <2>1, YearReported
    <2>5. balance = booked({"deposit"}, 1..today) - Total("bought") + Total("sold")
                      - Costs.fee - Costs.daily + Dividends.gross - Dividends.tax
      BY <2>1, <2>2, CashIsAccounted
    <2> HIDE DEF booked, lastYear, T, monthOf, daysOf
    <2>6. income(lastYear) = GrossOver(reports, T) - SumOver(reports, T, "tax")
      BY <2>1, <2>2, <2>4, IncomeOfDays
    <2>7. TrailingIncome(reports) = GrossOver(reports, T) - SumOver(reports, T, "tax")
      BY DEF TrailingIncome, T
    <2>8. Received(reports, T, FullTax).net = GrossOver(reports, T) - SumOver(reports, T, "tax")
      BY <2>3, <2>4, ReceivedIs
    <2>9. LET average == MonthlyAverage(reports, FullTax)
          IN  (average.gross - average.tax) - average.net \in {0, 1}
      BY <2>1, AverageOff
    <2>10. ASSUME NEW month \in DOMAIN months
           PROVE  /\ months[month].net = income(daysOf(month))
                  /\ months[month].takeHome = months[month].net
      <3> DEFINE some == {i \in DOMAIN reports : monthOf[reports[i].day] = month}
      <3>1. months[month] = Received(reports, some, FullTax)
        BY DEF ByMonth
      <3>2. some \in SUBSET DOMAIN reports /\ \A day \in 1..today : day \in daysOf(month) <=> day \in some
        BY <2>1, MonthsReported DEF monthOf, daysOf
      <3> HIDE DEF some, months
      <3>3. income(daysOf(month)) = GrossOver(reports, some) - SumOver(reports, some, "tax")
        BY <2>1, <2>2, <3>2, IncomeOfDays
      <3>4. /\ Received(reports, some, FullTax).net = GrossOver(reports, some) - SumOver(reports, some, "tax")
            /\ Received(reports, some, FullTax).takeHome = Received(reports, some, FullTax).net
        BY <2>3, <3>2, ReceivedIs
      <3> QED
        BY <3>1, <3>3, <3>4
    <2>11. LET price == <<Scale>> \o [i \in DOMAIN reports |-> reports[i].unitPrice]
               deepest == Drawdown(reports, Scale)
           IN  /\ \A i, j \in DOMAIN price : i <= j =>
                     (price[i] - price[j]) * deepest[2] <= deepest[1] * price[i]
               /\ \E i, j \in DOMAIN price : i <= j /\ deepest = <<price[i] - price[j], price[i]>>
               /\ FallsBy(MaxDrawdown, units.high, units.price) =>
                     deepest[1] * 100 >= MaxDrawdown * deepest[2]
      BY <2>1, DrawdownReported
    <2>12. TrailingIncome(reports) = income(lastYear)
      BY <2>6, <2>7
    <2>13. Received(reports, T, FullTax).net = TrailingIncome(reports)
      BY <2>7, <2>8
    <2> QED
      BY <2>4, <2>5, <2>9, <2>10, <2>11, <2>12, <2>13, Zenon
         DEF ResultsAddUp, booked, lastYear, T, monthOf, daysOf
  <1> HIDE DEF Inv
  <1>2. ResultsSpec => []Inv
    BY ReportsMatchTheLedger DEF Inv
  <1> QED
    BY <1>1, <1>2, PTL
=============================================================================
