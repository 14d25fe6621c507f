---------------------------- MODULE MCStrategies ----------------------------
(* The configuration is kept, a strategy is run, or a question is asked: none  *)
(* touches the others.                                                        *)
EXTENDS Strategies, Figures, ConfigFile

MCCalendar == [y \in 1..6 |->
    LET year == y - 1 IN
    [year |-> year, holidays |-> {9} \cap DaysOfYear(year),
     tradingDays |-> Cardinality({day \in DaysOfYear(year) : IsWeekday(day)} \ {9})]]

Nothing == [day \in {} |-> 0]
Same == [day \in {0, 4, 8, 12} |-> 2]
H(d1, d2, d3, s2, out) ==
    [dividends |-> <<d1, d2, d3>>, splits |-> <<Nothing, s2, Nothing>>, incomplete |-> out,
     close |-> IF s2 = Nothing THEN <<4, 0, 5>> ELSE <<4, 4, 5>>]
MCHistories ==
    {H(Same, [day \in {1, 5, 9} |-> IF day = 9 THEN 1 ELSE 2], Same, s, {}) :
        s \in {Nothing, 9 :> <<2, 1>>, 6 :> <<2, 1>>, 1 :> <<1, 2>>}}
    \cup {H(Same, [day \in {0, 8} |-> 2], Same, Nothing, {3})}
MCPortfolios ==
    {[cash |-> c, unsettled |-> u, held |-> h] :
        c \in {0, 7, 20}, u \in {0, 6}, h \in {<<>>, <<3, 5, 1>>, (1 :> 9), (2 :> 16 @@ 3 :> 4)}}
MCTradables ==
    {[members |-> {1, 2, 3}, buyable |-> b] : b \in SUBSET {1, 2, 3}}
        \cup {[members |-> {1, 3}, buyable |-> {1}]}

\* Two or three tick tiers, of ticks 1 to 4, where a tier may begin anywhere.
MCTickTables ==
    {<<[from |-> 1, tick |-> 1], [from |-> f, tick |-> t]>> : f \in 2..12, t \in 2..4}
    \cup {<<[from |-> 1, tick |-> t], [from |-> f, tick |-> 1]>> : f \in 2..12, t \in 2..3}
    \cup {<<[from |-> 1, tick |-> 1], [from |-> 4, tick |-> 2], [from |-> f, tick |-> t]>> :
            f \in 8..12, t \in 3..4}
Tier(upTo, up, down, inRupiah) ==
    [upTo |-> upTo, up |-> up, down |-> down, inRupiah |-> inRupiah]
MCBandTables ==
    {[minPrice |-> low, tiers |-> <<Tier(upTo, 2, 2, TRUE), Tier(100, 35, down, FALSE)>>] :
        low \in 1..5, upTo \in {5, 9}, down \in {7, 35, 100}}

Table(starts, values) == [starts |-> starts, values |-> values]
Levy(taxed, guarantee) == [taxed |-> taxed, guarantee |-> guarantee]
MCFeeBooks ==
    {[levy |-> l, vat |-> v, saleTax |-> t] :
        l \in {Table(<<1>>, <<Levy(3, 1)>>), Table(<<2, 5>>, <<Levy(1, 1), Levy(3, 1)>>)},
        v \in {Table(<<1>>, <<10>>), Table(<<1, 4>>, <<10, 12>>)},
        t \in {Table(<<0>>, <<1>>), Table(<<3, 4>>, <<1, 5>>)}}
MCPresets ==
    {[buy |-> buy, sell |-> sell, includes |-> includes] :
        buy \in {2, 5}, sell \in {5, 9}, includes \in SUBSET {"levy", "sale_tax", "commission_vat"}}

MCEvents ==
    {[dividends |-> d, splits |-> s] :
        d \in {[day \in {2, 4} |-> 2], 2 :> 1 @@ 4 :> 2, 2 :> 2 @@ 4 :> 1},
        s \in {Nothing, 2 :> <<2, 1>>, 3 :> <<1, 2>>, (1 :> <<3, 2>>) @@ (4 :> <<2, 3>>), 4 :> <<1, 3>>}}

MCQuarter == <<1, 4>>
MCHalf == <<1, 2>>
MCFourFifths == <<4, 5>>

Or(key, raws) == {[key |-> key, raw |-> {raw}] : raw \in raws}
Without(key) == [key |-> key, raw |-> {}]
MCAnswers == {[level |-> "off", exemption |-> TRUE]}
MCSaves ==
    Or("account.starting_cash_idr", {Text("1")})
    \cup Or("account.monthly_contribution_idr", {Whole(5)})
    \cup Or("strategy.name", {Text("monthly-savings")})
    \cup Or("strategy.instalments", {Whole(120), Whole(121)})
    \cup Or("strategy.min_stocks", {Whole(26)})
    \cup Or("risk.daily_loss_limit", {Hundredths(100)})
    \cup Or("training.level", {Text("new"), Text("expert")})
    \cup {Without(Consent), Without("training.level")}

ASSUME Precise == PreciseShares

MCInit == SInit /\ FInit /\ CInit
MCNext ==
    \/ asked = None /\ file = NoFile /\ typed = Idle /\ SNext /\ UNCHANGED <<asked, cvars>>
    \/ strategy = "none" /\ file = NoFile /\ typed = Idle /\ FNext /\ UNCHANGED <<svars, cvars>>
    \/ strategy = "none" /\ asked = None /\ CNext /\ UNCHANGED <<svars, asked>>
MCSpec == MCInit /\ [][MCNext]_<<svars, asked, cvars>>
=============================================================================
