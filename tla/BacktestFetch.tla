--------------------------- MODULE BacktestFetch ---------------------------
(***************************************************************************)
(* What a backtest, and each paper run, asks of the data source for one    *)
(* stock (steadyhand/backtest.py, _stock and _around): the bars and        *)
(* actions of the whole window and, when the source refuses some days,     *)
(* the clean ranges around them, any of which may be refused in turn.      *)
(*                                                                         *)
(* The source answers as it likes: whole, refusing any days, not serving   *)
(* the stock at all, or failing.                                           *)
(***************************************************************************)
EXTENDS Integers

CONSTANTS
    LastDay,   \* the window's last day; its first is day 1
    Trading,   \* the trading days of the window
    Nameable   \* the days a refusal of the source may name, outside the window too

Window == 1..LastDay

ASSUME FetchConstants ==
    /\ LastDay \in Nat \ {0}
    /\ Trading \subseteq Window /\ {1, LastDay} \subseteq Trading
    /\ Nameable \subseteq Int

VARIABLES
    phase,     \* where the fetch is, or how it ended
    pending,   \* the clean ranges still to ask
    refused,   \* the days refused so far
    answered,  \* the ranges answered with bars and actions
    bars,      \* the days a bar was read for
    asked,     \* the ranges whose bars were asked for
    complete   \* whether the stock's history is complete

vars == <<phase, pending, refused, answered, bars, asked, complete>>

Phase == {"whole", "history", "around", "fetched", "unserved", "stopped"}
Ended == {"fetched", "unserved", "stopped"}
Ranges == {r \in Trading \X Trading : r[1] <= r[2]}
Whole == <<1, LastDay>>

DaysIn(r) == Trading \intersect r[1]..r[2]

\* A refusal names at least one day (UnavailableDaysError).
Refusal == (SUBSET Nameable) \ {{}}

\* _clean_ranges: each longest run of consecutive trading days with no refused day.
Clean(r, days) == DaysIn(r) \intersect days = {}
CleanRanges(within, days) ==
    LET clean == {r \in Ranges : /\ within[1] <= r[1] /\ r[2] <= within[2]
                                 /\ Clean(r, days)}
    IN {r \in clean : \A q \in clean : q[1] <= r[1] /\ r[2] <= q[2] => q = r}

Init ==
    /\ phase = "whole"
    /\ pending = {}
    /\ refused = {}
    /\ answered = {}
    /\ bars = {}
    /\ asked = {}
    /\ complete = TRUE

-----------------------------------------------------------------------------
(* The whole window.                                                       *)

\* The bars of a range: one for each trading day that has data.
Bars(r, found) == found \subseteq DaysIn(r)

WholeAnswered ==
    /\ phase = "whole"
    /\ phase' = "fetched"
    /\ answered' = {Whole}
    /\ asked' = {Whole}
    /\ bars' \in SUBSET Trading
    /\ Bars(Whole, bars')
    /\ UNCHANGED <<pending, refused, complete>>

\* The days of a refusal that the window holds; one that holds none stops the run.
Named(days) == days \intersect Window

WholeRefused ==
    /\ phase = "whole"
    /\ \E days \in Refusal :
         /\ phase' = IF Named(days) = {} THEN "stopped" ELSE "history"
         /\ refused' = Named(days)
         /\ pending' = IF Named(days) = {} THEN {} ELSE CleanRanges(Whole, Named(days))
    /\ asked' = {Whole}
    /\ UNCHANGED <<answered, bars, complete>>

\* _unpriced_actions: the whole window's actions, read without the bars, or refused.
History_onceMore ==
    /\ phase = "history"
    /\ complete' \in BOOLEAN
    /\ UNCHANGED <<phase, pending, refused, answered, bars, asked>>
History ==
    /\ phase = "history"
    /\ complete' \in BOOLEAN
    /\ phase' = IF pending = {} THEN "fetched" ELSE "around"
    /\ UNCHANGED <<pending, refused, answered, bars, asked>>

-----------------------------------------------------------------------------
(* Around the refused days.                                                *)

Earliest(r) == r \in pending /\ \A q \in pending : r[1] <= q[1]

AfterAsking(left) == IF left = {} THEN "fetched" ELSE "around"

RangeAnswered(r) ==
    /\ phase = "around"
    /\ Earliest(r)
    /\ answered' = answered \union {r}
    /\ \E found \in SUBSET DaysIn(r) : bars' = bars \union found
    /\ asked' = asked \union {r}
    /\ pending' = pending \ {r}
    /\ phase' = AfterAsking(pending')
    /\ UNCHANGED <<refused, complete>>

\* The refused days the range holds as trading days: none, and the source is wrong.
More(r, days) == days \intersect DaysIn(r)

\* The ranges left inside a refused one.
Inside_theLastRefusal(r, more) == CleanRanges(Whole, more)
Inside(r, more) == CleanRanges(r, more)

RangeRefused(r) ==
    /\ phase = "around"
    /\ Earliest(r)
    /\ \E days \in Refusal :
         LET more == More(r, days)
         IN IF more = {}
            THEN phase' = "stopped" /\ pending' = {} /\ UNCHANGED refused
            ELSE /\ refused' = refused \union more
                 /\ pending' = (pending \ {r}) \union Inside(r, more)
                 /\ phase' = AfterAsking(pending')
    /\ asked' = asked \union {r}
    /\ UNCHANGED <<answered, bars, complete>>

\* The source cannot serve the stock (here a member all the time): it is refused on every day
\* of its membership, and what was read is dropped.
Unserved ==
    /\ phase \notin Ended
    /\ phase' = "unserved"
    /\ refused' = Trading
    /\ pending' = {}
    /\ answered' = {}
    /\ bars' = {}
    /\ complete' = FALSE
    /\ UNCHANGED asked

\* Any other failure stops the run; of the history's read, it is a refusal.
Failed ==
    /\ phase \in {"whole", "around"}
    /\ phase' = "stopped"
    /\ pending' = {}
    /\ UNCHANGED <<refused, answered, bars, asked, complete>>

Next ==
    \/ WholeAnswered \/ WholeRefused \/ History
    \/ \E r \in pending : RangeAnswered(r) \/ RangeRefused(r)
    \/ Unserved \/ Failed

Spec == Init /\ [][Next]_vars
FairSpec == Spec /\ WF_vars(Next)

-----------------------------------------------------------------------------
(* What the days are given (_resumed).                                     *)

LastBefore(d) == {p \in bars : p < d /\ \A q \in bars : q < d => q <= p}

\* A day whose last bar lies before a refused day has no usable previous close.
Resumed(d) ==
    IF LastBefore(d) = {} THEN \E day \in refused : day < d
    ELSE \E p \in LastBefore(d), day \in refused : p <= day /\ day < d

-----------------------------------------------------------------------------
(* What must hold.                                                         *)

\* "No range is ever asked twice: nothing is retried", however the source refuses.
NoRangeAskedTwice ==
    /\ phase = "whole" => asked = {}
    /\ pending \intersect asked = {}

\* A fetch that succeeds knows what each trading day is: refused, or in one of the ranges
\* answered; no range answered holds a refused day, and no two share a day, whose bar
\* PriceHistory would then hold twice. And a close is checked against the price band around
\* the previous bar only when the source refused no day between the two.
EveryDayIsDecided ==
    phase = "fetched" =>
        /\ Trading \ refused = UNION {DaysIn(r) : r \in answered}
        /\ \A r \in answered : DaysIn(r) \intersect refused = {}
        /\ \A r, q \in answered : r = q \/ DaysIn(r) \intersect DaysIn(q) = {}
        /\ \A d \in bars : ~Resumed(d) =>
            \A p \in LastBefore(d) : p..d \intersect refused = {}

\* Every search around refusals ends.
FetchEnds == <>(phase \in Ended)

=============================================================================
