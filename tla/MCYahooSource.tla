---------------------------- MODULE MCYahooSource ---------------------------
(* Four days, the first before any known grid, each later one on another grid. *)
EXTENDS YahooSource

MCThreeTiers == <<[from |-> 1, tick |-> 1], [from |-> 10, tick |-> 5]>>
MCFiveTiers == <<[from |-> 1, tick |-> 1], [from |-> 6, tick |-> 2]>>
MCVerified == [starts |-> <<4>>, values |-> <<<<[from |-> 1, tick |-> 1], [from |-> 8, tick |-> 2]>>>>]
MCRows ==
    {[prices |-> p, volume |-> 1] : p \in {<<4, 5>>, <<8, 10>>, <<4, 4>>}}
        \cup {[prices |-> <<5, 5>>, volume |-> 0]}
MCCalendar == <<[year |-> 0, holidays |-> {3}, tradingDays |-> 7]>>
NoDays == [day \in {} |-> 0]
MCSplits == {NoDays, [day \in {3} |-> <<3, 1>>], [day \in {4} |-> <<1, 2>>]}
MCRights == {[day |-> 5, by |-> <<3, 2>>], [day |-> 4, by |-> <<3, 2>>], [day |-> 3, by |-> <<5, 4>>]}
MCDividends == {[day \in {1, 2, 3} |-> 2]}

ASSUME Precise == PreciseNumbers
=============================================================================
