----------------------------- MODULE MarketRules ----------------------------
(***************************************************************************)
(* The rules of the IDX as tables (steadyhand_idx: ticks, bands, fees,     *)
(* calendar, rules): which tables the loaders accept, and what the rules   *)
(* answer from them. A table that is not accepted stops the                *)
(* program when it is loaded, so every answer is about accepted tables.    *)
(*                                                                         *)
(* A day is a number; a year has YearLength of them and a week seven. A    *)
(* price is whole rupiah. A refusal by the code (an exception) is a        *)
(* question that is not asked, or the answer Unknown.                      *)
(***************************************************************************)
EXTENDS Fractions

CONSTANT YearLength

ASSUME RulesConstants == YearLength \in Nat \ {0}

Unknown == -1
Rising(s) == \A i \in 1..Len(s) - 1 : s[i] < s[i + 1]
Neighbours(s) == {<<s[i], s[i + 1]>> : i \in 1..Len(s) - 1}

-----------------------------------------------------------------------------
(* A dated table: each row holds from its start until the next.            *)

Dated(values) == [starts : Seq(Int), values : Seq(values)]
IsDated(t) == Len(t.starts) > 0 /\ Len(t.starts) = Len(t.values) /\ Rising(t.starts)
First(t) == t.starts[1]
On(t, day) == t.values[Max({i \in DOMAIN t.starts : t.starts[i] <= day})]

-----------------------------------------------------------------------------
(* Ticks: a tier is where it begins and its tick.                          *)

Tiers == [from : Nat \ {0}, tick : Nat \ {0}]
TicksAccepted_rising(tiers) ==
    /\ Len(tiers) > 0 /\ tiers[1].from = 1
    /\ \A p \in Neighbours(tiers) : p[1].from < p[2].from
TicksAccepted(tiers) ==
    /\ Len(tiers) > 0 /\ tiers[1].from = 1
    /\ \A p \in Neighbours(tiers) :
        /\ p[1].from < p[2].from
        /\ p[2].from % p[1].tick = 0 /\ p[2].from % p[2].tick = 0

Tick(tiers, price) == tiers[Max({i \in DOMAIN tiers : tiers[i].from <= price})].tick
IsValidPrice(tiers, price) == price % Tick(tiers, price) = 0
RoundDown(tiers, price) == price - (price % Tick(tiers, price))
RoundUp(tiers, price) ==
    LET remainder == price % Tick(tiers, price)
    IN  IF remainder = 0 THEN price ELSE price + Tick(tiers, price) - remainder

-----------------------------------------------------------------------------
(* Bands: a tier is the highest reference in it (none for the last), and   *)
(* how far a price may go up and down, in percent or in rupiah.            *)

BandsAccepted(band) ==
    LET bounds == [i \in 1..Len(band.tiers) - 1 |-> band.tiers[i].upTo]
    IN  /\ band.minPrice >= 1 /\ Len(band.tiers) > 0
        /\ Rising(bounds) /\ (bounds # <<>> => bounds[1] >= band.minPrice)
        /\ \A tier \in Range(band.tiers) :
            tier.up > 0 /\ tier.down > 0 /\ (tier.inRupiah \/ tier.down < 100)

BandTier(band, reference) ==
    band.tiers[Min({i \in DOMAIN band.tiers :
                        i = Len(band.tiers) \/ reference <= band.tiers[i].upTo})]

\* The exact limits, in hundredths of a rupiah.
Bottom(band, reference) ==
    LET tier == BandTier(band, reference)
    IN  IF tier.inRupiah THEN 100 * (reference - tier.down) ELSE reference * (100 - tier.down)
Top(band, reference) ==
    LET tier == BandTier(band, reference)
    IN  IF tier.inRupiah THEN 100 * (reference + tier.up) ELSE reference * (100 + tier.up)

PriceBand(tiers, band, reference) ==
    <<RoundUp(tiers, Max({CeilDiv(Bottom(band, reference), 100), band.minPrice})),
      RoundDown(tiers, Top(band, reference) \div 100)>>

-----------------------------------------------------------------------------
(* Fees: rates in percent. What a trade costs, in percent of its value, is *)
(* counted in parts of one in Part of a percent, which is exact.           *)

Part == 10000
WithVat(levy, vat) == levy.taxed * (100 + vat) * 100 + levy.guarantee * Part

Percentages(fees, preset, side, day) ==
    LET vat == On(fees.vat, day)
        levy == WithVat(On(fees.levy, day), vat)
        tax == IF side = "sell" THEN On(fees.saleTax, day) * Part ELSE 0
        quoted == preset[side] * Part
        commission == quoted - (IF "levy" \in preset.includes THEN levy ELSE 0)
                             - (IF "sale_tax" \in preset.includes THEN tax ELSE 0)
    IN  [fee |-> IF "commission_vat" \in preset.includes THEN commission
                 ELSE commission + (commission * vat) \div 100,
         levy |-> levy, tax |-> tax]

\* What trade_costs reads; first_dates, of which require_supported takes the latest.
FeeTables == {"levy", "vat", "saleTax"}
FirstOfAll(fees) == Max({First(fees[t]) : t \in FeeTables})

\* A quote must cover the costs it says it includes, from the first day on.
QuoteDays(fees) ==
    {FirstOfAll(fees)}
        \cup {day \in UNION {Range(fees[t].starts) : t \in FeeTables} : day >= FirstOfAll(fees)}
FeesAccepted(fees, preset) ==
    /\ \A t \in FeeTables : IsDated(fees[t])
    /\ \A day \in QuoteDays(fees), side \in {"buy", "sell"} :
        Percentages(fees, preset, side, day).fee >= 0

\* Rounded once, against the trader; what the levy and the tax leave is the fee.
TradeCosts(fees, preset, side, gross, day) ==
    LET rates == Percentages(fees, preset, side, day)
        total == CeilDiv(gross * (rates.fee + rates.levy + rates.tax), 100 * Part)
        levy == (gross * rates.levy) \div (100 * Part)
        tax == (gross * rates.tax) \div (100 * Part)
    IN  [fee |-> total - levy - tax, levy |-> levy, tax |-> tax]

-----------------------------------------------------------------------------
(* The calendar: the years with holiday data, in order.                    *)

YearOf(day) == day \div YearLength
DaysOfYear(year) == year * YearLength..(year + 1) * YearLength - 1
IsWeekday(day) == day % 7 < 5

CalendarAccepted(calendar) ==
    /\ Len(calendar) > 0
    /\ \A p \in Neighbours(calendar) : p[2].year = p[1].year + 1
    /\ \A y \in Range(calendar) :
        /\ y.holidays \subseteq {day \in DaysOfYear(y.year) : IsWeekday(day)}
        /\ y.tradingDays = Cardinality({day \in DaysOfYear(y.year) : IsWeekday(day)} \ y.holidays)

IsCovered(calendar, day) == \E y \in Range(calendar) : y.year = YearOf(day)
IsTradingDay(calendar, day) ==
    IsWeekday(day) /\ \A y \in Range(calendar) : day \notin y.holidays

\* The count-th trading day after a day, unless the days until then run out of the calendar.
AddTradingDays(calendar, day, count) ==
    LET ahead == InOrder({d \in day + 1..(Last(calendar).year + 1) * YearLength - 1 :
                                IsTradingDay(calendar, d)})
    IN  IF IsCovered(calendar, day + 1) /\ count <= Len(ahead) THEN ahead[count] ELSE Unknown
=============================================================================
