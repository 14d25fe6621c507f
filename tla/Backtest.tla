------------------------------ MODULE Backtest ------------------------------
(***************************************************************************)
(* One stock's part of a backtest (steadyhand/backtest.py, _window and     *)
(* _inputs) and of each paper run (day_inputs): the universe's lists       *)
(* (steadyhand_idx/universe.py), the fetch around refused days             *)
(* (BacktestFetch), the look-back for its dividend history, and what each  *)
(* day then hands the engine.                                              *)
(***************************************************************************)
EXTENDS BacktestFetch, FiniteSetsExt, SequencesExt

CONSTANTS
    Since,         \* the first day of the look-back, which ends the day before the window
    Effective,     \* the days on which a list may take effect
    Month,         \* the month of a day
    QuarterlyFrom  \* reviews are quarterly from this day and were semi-annual before

ASSUME BacktestConstants ==
    /\ Since \in Int /\ Since <= 0
    /\ Effective \subseteq Int /\ IsFiniteSet(Effective)
    /\ Month \in [Effective -> Int] /\ QuarterlyFrom \in Int

VARIABLES
    lists,     \* the lists of the universe, by the day each takes effect: is the stock on it?
    lookback   \* the look-back: open, not needed, read or refused

window == <<lists, lookback>>

-----------------------------------------------------------------------------
(* The universe.                                                           *)

FirstDay == Min(DOMAIN lists)
Covered == FirstDay <= 1

\* The latest list in force. A stock that is never a member is not fetched.
InForce(d) == Max({e \in DOMAIN lists : e <= d})
Member(d) == lists[InForce(d)]

BacktestInit ==
    /\ Init
    /\ lists \in UNION {[effective -> BOOLEAN] : effective \in (SUBSET Effective) \ {{}}}
    /\ Covered => \E d \in Trading : Member(d)
    /\ lookback = "open"

\* Consecutive lists more than one review apart: one between them is missing.
Review(later) == IF later >= QuarterlyFrom THEN 3 ELSE 6
Gaps ==
    {gap \in (DOMAIN lists) \X (DOMAIN lists) :
        /\ gap[1] < gap[2]
        /\ ~\E between \in DOMAIN lists : gap[1] < between /\ between < gap[2]
        /\ Month[gap[2]] - Month[gap[1]] > Review(gap[2])}
Warned == {gap \in Gaps : 1 < gap[2] /\ gap[1] <= LastDay}

-----------------------------------------------------------------------------
(* The steps of a run's fetch.                                             *)

\* A run may not start before the first list.
RefuseStart ==
    /\ phase = "whole" /\ ~Covered
    /\ phase' = "stopped"
    /\ UNCHANGED <<pending, refused, answered, bars, asked, complete, window>>

Fetch == Covered /\ Next /\ UNCHANGED window

\* The actions before the window are asked for on their own, once everything else is fetched
\* and if a strategy needs them; a refusal of theirs is history the run can do without. They
\* are not asked of a stock the source cannot serve.
LookBack ==
    /\ phase = "fetched" /\ lookback = "open"
    /\ lookback' \in {"not needed", "read", "refused"}
    /\ UNCHANGED <<vars, lists>>

BacktestNext == RefuseStart \/ Fetch \/ LookBack
BacktestSpec == BacktestInit /\ [][BacktestNext]_<<vars, window>> /\ WF_<<vars, window>>(BacktestNext)

Ready == phase \in {"fetched", "unserved"} /\ (phase = "fetched" => lookback # "open")

-----------------------------------------------------------------------------
(* What a day's inputs hold.                                               *)

\* A stock the source cannot serve is refused on the days it is a member.
RefusedOn(d) == d \in refused /\ (phase = "unserved" => Member(d))

\* Actions are credited from the ranges that were answered.
ActionsOn(d) == \E r \in answered : d \in DaysIn(r)
ResumedOn(d) == phase # "unserved" /\ Resumed(d) /\ ~RefusedOn(d)

\* The stock can be bought on a day (_tradable), and so be held from the next.
Buyable(d) == Member(d) /\ ~RefusedOn(d) /\ d \in bars
MayBeHeld(d) == \E p \in Trading : p < d /\ Buyable(p)

\* ActionHistory: the days whose actions the strategy's view holds, and whether they are said
\* to be all there are.
HistoryDays ==
    (IF phase = "unserved" THEN {}
     ELSE IF complete THEN Window ELSE UNION {r[1]..r[2] : r \in answered})
        \union (IF lookback = "read" THEN Since..0 ELSE {})
Incomplete_ofTheLookback == lookback = "refused" \/ phase = "unserved"
Incomplete == lookback = "refused" \/ ~complete \/ phase = "unserved"

\* The refused days as the warning names them: spans of consecutive trading days.
Place(d) == Cardinality({t \in Trading : t < d})
Spanned(spans, d) ==
    IF spans # <<>> /\ Place(d) = Place(Last(Last(spans))) + 1
    THEN [spans EXCEPT ![Len(spans)] = Append(@, d)]
    ELSE Append(spans, <<d>>)
Spans ==
    LET upTo[d \in 0..LastDay] ==
            IF d = 0 THEN <<>>
            ELSE IF d \in refused THEN Spanned(upTo[d - 1], d) ELSE upTo[d - 1]
    IN  upTo[LastDay]

\* What of the stock's data a run is warned of: that the source cannot serve it at all; else the
\* spans refused, and the look-back it could not have.
UnavailableWarning == phase = "unserved"
RefusedWarning == IF phase = "unserved" THEN <<>> ELSE Spans
HistoryWarning == lookback = "refused"
DataWarnings == UnavailableWarning \/ RefusedWarning # <<>> \/ HistoryWarning

-----------------------------------------------------------------------------
\* What the engine and the strategy are handed is what the source and the universe said. A day
\* on which the stock may be held is refused or has its actions; no bar or action comes with a
\* refusal; a history not marked incomplete holds every day of the run and of its look-back;
\* the spans a warning names are the days refused; a run is warned of its data exactly when it
\* lacks something, and of a missing list exactly when it uses the list before it.
InputsTellTheTruth ==
    Ready =>
        /\ EveryDayIsDecided
        /\ \A d \in Trading :
             /\ MayBeHeld(d) => RefusedOn(d) \/ ActionsOn(d)
             /\ RefusedOn(d) => ~ActionsOn(d) /\ d \notin bars /\ ~ResumedOn(d)
        /\ ~Incomplete => (IF lookback = "not needed" THEN 1 ELSE Since)..LastDay \subseteq HistoryDays
        /\ phase = "fetched" =>
             LET spans == RefusedWarning
             IN  refused = UNION {Trading \intersect spans[i][1]..Last(spans[i]) : i \in DOMAIN spans}
        /\ DataWarnings <=> (Incomplete \/ \E d \in Trading : RefusedOn(d))
        /\ Warned = {gap \in Gaps : \E d \in Window : InForce(d) = gap[1]}
=============================================================================
