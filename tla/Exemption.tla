----------------------------- MODULE Exemption -----------------------------
(***************************************************************************)
(* The dividend reinvestment exemption (steadyhand/exemption.py): the      *)
(* claims of the dividends paid without tax, over trading days of          *)
(* dividends, buys and sells.                                              *)
(*                                                                         *)
(* A claim is covered by buys until its deadline; what they cover is       *)
(* protected for some years, as long as enough stays invested. What is     *)
(* still uncovered after the deadline is taxed, and what is no longer      *)
(* invested when a grace of one settlement cycle ends is broken and taxed. *)
(***************************************************************************)
EXTENDS Integers, SequencesExt

CONSTANTS
    MaxDay,        \* bound: the trading days
    YearDays,      \* the trading days of a tax year
    GraceDays,     \* the days of a new year in which the last one's dividends may be reinvested
    HoldYears,     \* the tax years a purchase is held, its own included
    Lag,           \* the trading days a trade takes to settle
    PayLag,        \* the trading days from the ex-date to the pay date
    TaxPart,       \* a dividend's tax is one part in TaxPart of it, rounded up
    Dividends,     \* the amounts a dividend may be
    Buys,          \* the values a buy may have
    Fee,           \* what a buy costs beside its value
    MaxClaims,     \* bound: the dividends paid
    MaxInvested    \* bound: the cost of what is held

ASSUME ExemptionConstants ==
    /\ {MaxDay, YearDays, HoldYears, Lag, PayLag, TaxPart} \subseteq Nat \ {0}
    /\ GraceDays \in 1..YearDays
    /\ Dividends \subseteq Nat \ {0} /\ Buys \subseteq Nat \ {0}
    /\ {Fee, MaxClaims, MaxInvested} \subseteq Nat

VARIABLES
    day,        \* the trading day under way
    traded,     \* whether the day's orders are being filled: its dividends are paid
    invested,   \* the cost basis of the positions
    claims,     \* the open claims, oldest first
    since,      \* the first day of a shortfall; 0: none
    paid,       \* the dividends paid so far, in order
    taxed,      \* what of each was taxed
    tax,        \* the tax booked on each
    bookings,   \* how many bookings made it up
    short       \* the closes in a row that left more protected than invested

vars == <<day, traded, invested, claims, since, paid, taxed, tax, bookings, short>>
history == <<paid, taxed, tax, bookings, short>>

Year(d) == (d - 1) \div YearDays
Deadline(ex) == (Year(ex) + 1) * YearDays + GraceDays
ProtectionEnd(d) == (Year(d) + HoldYears) * YearDays
SettlementDate(d) == d + Lag
DividendTax(gross) == (gross + TaxPart - 1) \div TaxPart

Total(amounts) == SumFunctionOnSet(amounts, DOMAIN amounts)
Covered(claim) == Total([i \in DOMAIN claim.protections |-> claim.protections[i].amount])
Protected(list) == Total([i \in DOMAIN list |-> Covered(list[i])])

Less(a, b) == IF a > b THEN a - b ELSE 0

\* What is at some places of a list, in its order.
Kept(list, places) ==
    LET upTo[i \in 0..Len(list)] ==
          IF i = 0 THEN <<>>
          ELSE IF i \in places THEN Append(upTo[i - 1], list[i]) ELSE upTo[i - 1]
    IN  upTo[Len(list)]

\* What is accepted as a claim and its protections; anything else stops the run.
IsProtection(protection) == protection.amount > 0
IsClaim(claim, gross) ==
    /\ claim.pay <= claim.deadline
    /\ gross > 0 /\ claim.uncovered >= 0
    /\ \A k \in DOMAIN claim.protections : IsProtection(claim.protections[k])
    /\ claim.uncovered + Covered(claim) <= gross

Init ==
    /\ day = 1
    /\ traded = FALSE
    /\ invested = 0
    /\ claims = <<>>
    /\ since = 0
    /\ paid = <<>>
    /\ taxed = <<>>
    /\ tax = <<>>
    /\ bookings = <<>>
    /\ short = 0

-----------------------------------------------------------------------------
(* A day's dividends and trades.                                           *)

\* A dividend earned PayLag days ago is paid. One whose deadline is over is taxed at once
\* and never becomes a claim. Dividends of one day are paid in the order of _age, the one
\* in which claims are covered.
Pay(gross) ==
    /\ ~traded
    /\ Len(paid) < MaxClaims
    /\ day > PayLag
    /\ LET deadline == Deadline(day - PayLag)
           claimed == deadline >= day
           id == Len(paid) + 1
       IN /\ claims' = IF claimed
                       THEN Append(claims, [id |-> id, pay |-> day, deadline |-> deadline,
                                            uncovered |-> gross, protections |-> <<>>])
                       ELSE claims
          /\ paid' = Append(paid, gross)
          /\ taxed' = Append(taxed, IF claimed THEN 0 ELSE gross)
          /\ tax' = Append(tax, IF claimed THEN 0 ELSE DividendTax(gross))
          /\ bookings' = Append(bookings, IF claimed THEN 0 ELSE 1)
    /\ UNCHANGED <<day, traded, invested, since, short>>

\* What a buy of a value covers of each claim: the oldest first, as far as the value goes.
Open(claim) == claim.pay <= day /\ day <= claim.deadline
Wanted(claim) == IF Open(claim) THEN claim.uncovered ELSE 0
TakenBy_each(list, i, value) == Min({Wanted(list[i]), value})
TakenBy(list, i, value) ==
    Min({Wanted(list[i]), Less(value, Total([j \in 1..(i - 1) |-> Wanted(list[j])]))})

Cover(list, value) ==
    [i \in DOMAIN list |->
        LET taken == TakenBy(list, i, value)
        IN IF taken = 0 THEN list[i]
           ELSE [list[i] EXCEPT !.uncovered = @ - taken,
                                !.protections = Append(@, [amount |-> taken,
                                                           until |-> ProtectionEnd(day)])]]

\* A buy's value covers claims; its cost is what it adds to the cost basis.
Buy(value) ==
    /\ invested + value + Fee <= MaxInvested
    /\ traded' = TRUE
    /\ invested' = invested + value + Fee
    /\ claims' = Cover(claims, value)
    /\ UNCHANGED <<day, since, history>>

\* A sale releases some of the cost basis.
Sell(cost) ==
    /\ cost \in 1..invested
    /\ traded' = TRUE
    /\ invested' = invested - cost
    /\ UNCHANGED <<day, claims, since, history>>

-----------------------------------------------------------------------------
(* The close (settle_claims).                                              *)

\* What a claim owes tax on because its deadline is over.
Missed(claim) == IF day <= claim.deadline THEN 0 ELSE claim.uncovered

Unexpired(protections) ==
    Kept(protections, {k \in DOMAIN protections : protections[k].until >= day})

AtTheDeadline_keepsUncovered(claim) == [claim EXCEPT !.protections = Unexpired(@)]
AtTheDeadline(claim) ==
    [claim EXCEPT !.uncovered = @ - Missed(claim), !.protections = Unexpired(@)]

\* The pieces a shortfall takes, latest date first; then the newest claim, its last piece.
Piece(list) == UNION {{<<i, k>> : k \in DOMAIN list[i].protections} : i \in DOMAIN list}
AmountAt(list, piece) == list[piece[1]].protections[piece[2]].amount
UntilAt(list, piece) == list[piece[1]].protections[piece[2]].until
Sooner(list, p, q) ==
    \/ UntilAt(list, p) > UntilAt(list, q)
    \/ /\ UntilAt(list, p) = UntilAt(list, q)
       /\ \/ p[1] > q[1]
          \/ p[1] = q[1] /\ p[2] > q[2]

Removed_whole(list, piece, shortfall) ==
    LET sooner == {p \in Piece(list) : Sooner(list, p, piece)}
        gone == SumFunctionOnSet([p \in sooner |-> AmountAt(list, p)], sooner)
    IN IF gone < shortfall THEN AmountAt(list, piece) ELSE 0
Removed(list, piece, shortfall) ==
    LET sooner == {p \in Piece(list) : Sooner(list, p, piece)}
        gone == SumFunctionOnSet([p \in sooner |-> AmountAt(list, p)], sooner)
    IN Min({AmountAt(list, piece), Less(shortfall, gone)})

Broken(list, shortfall, i) ==
    Total([k \in DOMAIN list[i].protections |-> Removed(list, <<i, k>>, shortfall)])

Break(list, shortfall) ==
    [i \in DOMAIN list |->
        LET left == [k \in DOMAIN list[i].protections |->
                        [list[i].protections[k] EXCEPT !.amount =
                            @ - Removed(list, <<i, k>>, shortfall)]]
        IN [list[i] EXCEPT !.protections =
               Kept(left, {k \in DOMAIN left : left[k].amount > 0})]]

\* What is booked at the close: at the deadline and at a break, each for every claim.
SumFor(amounts, id, list) == Total([i \in DOMAIN list |-> IF list[i].id = id THEN amounts[i] ELSE 0])
Booked(amounts, list) ==
    /\ taxed' = [id \in DOMAIN taxed |->
                    taxed[id] + SumFor(amounts[1], id, list) + SumFor(amounts[2], id, list)]
    /\ tax' = [id \in DOMAIN tax |->
                    tax[id] + DividendTax(SumFor(amounts[1], id, list))
                            + DividendTax(SumFor(amounts[2], id, list))]
    /\ bookings' = [id \in DOMAIN bookings |->
                    bookings[id] + Cardinality({k \in 1..2 : SumFor(amounts[k], id, list) > 0})]

Shortfall(list) == Less(Protected(list), invested)

\* The day a shortfall began, while there is one.
Since_eachDay(list) == IF Shortfall(list) = 0 THEN 0 ELSE day
Since(list) == IF Shortfall(list) = 0 THEN 0 ELSE IF since = 0 THEN day ELSE since

StillOpen(list) ==
    Kept(list, {i \in DOMAIN list : list[i].uncovered > 0 \/ list[i].protections # <<>>})

Close ==
    LET current == [i \in DOMAIN claims |-> AtTheDeadline(claims[i])]
        missed == [i \in DOMAIN claims |-> Missed(claims[i])]
        first == Since(current)
        breaks == first # 0 /\ day >= SettlementDate(first)
        lost == IF breaks THEN Shortfall(current) ELSE 0
    IN /\ day < MaxDay
       /\ day' = day + 1
       /\ traded' = FALSE
       /\ since' = IF breaks THEN 0 ELSE first
       /\ claims' = StillOpen(Break(current, lost))
       /\ Booked(<<missed, [i \in DOMAIN current |-> Broken(current, lost, i)]>>, claims)
       /\ short' = IF Shortfall(claims') > 0 THEN short + 1 ELSE 0
       /\ UNCHANGED <<invested, paid>>

Next ==
    \/ \E gross \in Dividends : Pay(gross)
    \/ \E value \in Buys : Buy(value)
    \/ \E cost \in 1..MaxInvested : Sell(cost)
    \/ Close

Spec == Init /\ [][Next]_vars

-----------------------------------------------------------------------------
(* What must hold.                                                         *)

ClaimOf(id) == {i \in DOMAIN claims : claims[i].id = id}
OpenPart(id) == SumFor([i \in DOMAIN claims |-> claims[i].uncovered + Covered(claims[i])], id, claims)

\* What is uncovered of a dividend, what is protected, and what its protections hold that
\* have not ended before this day.
UncoveredPart(id) == SumFor([i \in DOMAIN claims |-> claims[i].uncovered], id, claims)
ProtectedPart(id) == SumFor([i \in DOMAIN claims |-> Covered(claims[i])], id, claims)
Lasting(claim) ==
    Total([k \in DOMAIN claim.protections |->
              IF claim.protections[k].until >= day THEN claim.protections[k].amount ELSE 0])
LastingPart(id) == SumFor([i \in DOMAIN claims |-> Lasting(claims[i])], id, claims)

\* "Together they never exceed gross": every claim is one the code accepts; what of a dividend
\* is uncovered, protected and taxed never exceeds it, and is all of it until a protection has
\* been held to its end. Its tax exceeds the full tax by at most one unit for each extra
\* booking (test_exemption.py).
GrossIsAccountedFor ==
    \A id \in DOMAIN paid :
        /\ \A i \in ClaimOf(id) : IsClaim(claims[i], paid[id])
        /\ OpenPart(id) + taxed[id] <= paid[id]
        /\ day <= HoldYears * YearDays + 1 => OpenPart(id) + taxed[id] = paid[id]
        /\ tax[id] <= DividendTax(paid[id]) + Less(bookings[id], 1)
        /\ taxed[id] = 0 => tax[id] = 0

\* What is protected is invested, but for a shortfall younger than a settlement cycle: it is
\* on record, and no sequence of sells, buys and expiries renews its grace.
ProtectedIsInvested ==
    /\ short <= Lag
    /\ ~traded /\ day > 1 => (since # 0 <=> Protected(claims) > invested)

\* "A shortfall that lasts to the close of the settlement date of its first day breaks, latest
\* protection first": whatever the claim's age, a protection is lost before its end only at
\* the close that ends the grace of a shortfall earlier closes saw, only as far as the shortfall
\* goes, and never while one that ends later than all of its dividend's is left. A close taxes
\* what it so breaks and what missed its deadline, nothing that was held to its end, and leaves
\* nothing uncovered behind a deadline; no trade taxes anything.
BreaksOnlyAShortfall ==
    [][/\ \A id \in DOMAIN paid :
            LET lost == LastingPart(id) - ProtectedPart(id)'
                missed == UncoveredPart(id) - UncoveredPart(id)'
            IN  /\ lost > 0 =>
                     /\ since # 0 /\ day >= SettlementDate(since)
                     /\ Protected(claims') >= invested'
                     /\ \A j \in DOMAIN claims' : \A left \in Range(claims'[j].protections) :
                          \E i \in ClaimOf(id) : \E p \in Range(claims[i].protections) :
                              p.until >= left.until
                /\ taxed'[id] - taxed[id] = IF day' = day THEN 0 ELSE lost + missed
       /\ day' > day => \A j \in DOMAIN claims' :
                          claims'[j].deadline < day => claims'[j].uncovered = 0]_vars

\* No rupiah reinvested covers two claims, and no claim is covered while one paid earlier
\* that the buy may cover still has an uncovered part.
BuysCoverOnceOldestFirst ==
    [][LET more == Protected(claims') - Protected(claims) IN
         more > 0 =>
            /\ more <= invested' - invested
            /\ \A i, j \in DOMAIN claims :
                 i < j /\ claims'[j].uncovered < claims[j].uncovered /\ Wanted(claims[i]) > 0
                     => claims'[i].uncovered = 0]_vars

=============================================================================
