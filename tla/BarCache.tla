------------------------------ MODULE BarCache ------------------------------
(***************************************************************************)
(* The bar cache (steadyhand_idx/cache.py) of one stock, between the       *)
(* processes that read through it (a paper run, a backtest) and the price  *)
(* source behind it (yahoo.py).                                            *)
(*                                                                         *)
(* A read finds the gaps in what is stored, asks the source for each, and  *)
(* stores each answer in a transaction of its own. Other processes store   *)
(* the same days meanwhile, days end, the source revises what it gave, and *)
(* a reader may be killed or fail between any two steps.                   *)
(***************************************************************************)
EXTENDS Naturals, SequencesExt

CONSTANTS
    Reader,            \* the processes that read through the cache
    MaxDay,            \* bound: the last day of the model
    Trading,           \* the trading days; every one has a bar at the source
    Unpriced,          \* trading days whose prices the source must refuse
    Scaled,            \* trading days with a price that is not whole rupiah
    PlainDividends,    \* ex-dates outside every run of scaled prices
    ProvenDividends,   \* ex-dates in a run of scaled prices with a proven factor
    UnprovenDividends, \* ex-dates in a run whose factor could not be proven
    MaxReads,          \* bound: the reads begun
    MaxRevisions       \* bound: the days the source revises

Days == 1..MaxDay

ASSUME CacheConstants ==
    /\ MaxDay \in Nat \ {0} /\ MaxReads \in Nat /\ MaxRevisions \in Nat
    /\ Trading \subseteq Days /\ Unpriced \subseteq Trading /\ Scaled \subseteq Trading
    /\ PlainDividends \subseteq Trading
    /\ ProvenDividends \subseteq Trading /\ UnprovenDividends \subseteq Trading

VARIABLES
    today,     \* the day in Jakarta
    revised,   \* the days the source has changed since it first gave them
    rows,      \* the bars and actions tables: each kind's row of each day, its value
               \* ("first", "revised" or "unfinished") and whether it is restored, or NoRow
    fetched,   \* the fetched and fetched_actions tables: ranges, by kind
    reads,     \* how many reads have begun
    pc,        \* where each reader is: idle, ask, store, answer, conflict
    job        \* what each reader has asked and been answered

vars == <<today, revised, rows, fetched, reads, pc, job>>
cache == <<rows, fetched>>

Kind == {"bars", "actions"}
Span == {s \in Days \X Days : s[1] <= s[2]}
NoRow == [value |-> "none", restored |-> FALSE]
ExDates == PlainDividends \union ProvenDividends \union UnprovenDividends

DaysOf(span) == Trading \intersect span[1]..span[2]

\* The days of a span that have a row: what a read takes from the cache.
Cached(kind, span) == {d \in DaysOf(span) : rows[kind][d] # NoRow}

NoAnswer == [k \in Kind |-> [d \in {} |-> NoRow]]
NoJob == [kind |-> "bars", span |-> <<1, 1>>, clock |-> 1, gaps |-> <<>>, refused |-> {},
          got |-> NoAnswer]

Init ==
    /\ today = 1
    /\ revised = {}
    /\ rows = [k \in Kind |-> [d \in Days |-> NoRow]]
    /\ fetched = [k \in Kind |-> {}]
    /\ reads = 0
    /\ pc = [r \in Reader |-> "idle"]
    /\ job = [r \in Reader |-> NoJob]

-----------------------------------------------------------------------------
(* The source. The factors of a stock's runs are read only when the range  *)
(* asked holds a price that is not whole, so what it says of a dividend    *)
(* depends on the range.                                                   *)

KnowsRuns(span) == DaysOf(span) \intersect Scaled # {}

RefusedActions(span) ==
    IF KnowsRuns(span) THEN DaysOf(span) \intersect UnprovenDividends ELSE {}

\* Reading bars reads the actions too, once every price was recovered.
RefusedBars(span) ==
    IF DaysOf(span) \intersect Unpriced # {} THEN DaysOf(span) \intersect Unpriced
    ELSE RefusedActions(span)

RefusedDays(kind, span) == IF kind = "bars" THEN RefusedBars(span) ELSE RefusedActions(span)

Value(d) ==
    IF d = today THEN "unfinished" ELSE IF d \in revised THEN "revised" ELSE "first"

\* A bar is the same in any range; a dividend in a proven run is restored only
\* where the runs are known.
Bars(span) == [d \in DaysOf(span) |-> [value |-> Value(d), restored |-> FALSE]]
Actions(span) ==
    [d \in DaysOf(span) \intersect ExDates |->
        [value |-> Value(d), restored |-> KnowsRuns(span) /\ d \in ProvenDividends]]

\* What a gap's fetch brings: a read of bars brings the range's actions with them.
Fetched(kind, span) ==
    [k \in Kind |-> IF k = "actions" THEN Actions(span)
                    ELSE IF kind = "bars" THEN Bars(span) ELSE [d \in {} |-> NoRow]]

-----------------------------------------------------------------------------
(* Which days are missing.                                                 *)

\* The ranges of stored bars hold their actions too; not the other way round.
Stored_eitherWay(kind) == fetched["bars"] \union fetched["actions"]
Stored(kind) ==
    IF kind = "bars" THEN fetched["bars"] ELSE fetched["bars"] \union fetched["actions"]

\* _merged: ranges in start order, merged where they touch or overlap.
Latest(spans) ==
    CHOOSE s \in spans : \A t \in spans : t[1] < s[1] \/ (t[1] = s[1] /\ t[2] <= s[2])
Joined(s, merged) ==
    IF merged # <<>> /\ s[1] <= Last(merged)[2] + 1
    THEN Append(Front(merged), <<Last(merged)[1], Max({Last(merged)[2], s[2]})>>)
    ELSE Append(merged, s)
Merged(spans) == MapThenFoldSet(Joined, <<>>, LAMBDA s : s, Latest, spans)

\* A gap narrowed to its trading days, and dropped if it has none.
Trimmed(from, to) ==
    LET days == DaysOf(<<from, to>>) IN IF days = {} THEN <<>> ELSE << <<Min(days), Max(days)>> >>

\* _gaps: the parts of start to end outside the merged ranges, each trimmed.
Passed(at, s, end) ==
    IF s[2] < at.cursor \/ s[1] > end THEN at
    ELSE [cursor |-> s[2] + 1,
          found |-> IF s[1] > at.cursor THEN at.found \o Trimmed(at.cursor, s[1] - 1)
                    ELSE at.found]
Gaps(covered, start, end) ==
    LET left == FoldLeft(LAMBDA at, s : Passed(at, s, end),
                         [cursor |-> start, found |-> <<>>], covered)
    IN  IF left.cursor <= end THEN left.found \o Trimmed(left.cursor, end) ELSE left.found

Missing(kind, start, end) ==
    IF start > end THEN <<>> ELSE Gaps(Merged(Stored(kind)), start, end)

\* A day can be stored once it is over.
Complete(end, clock) == Min({end, clock - 1})

-----------------------------------------------------------------------------
(* A read.                                                                 *)

Begin(r) ==
    /\ pc[r] = "idle"
    /\ reads < MaxReads
    /\ \E kind \in Kind, span \in Span :
         LET missing == Missing(kind, span[1], Complete(span[2], today))
         IN /\ span[2] <= today
            /\ job' = [job EXCEPT ![r] = [NoJob EXCEPT !.kind = kind, !.span = span,
                                                       !.clock = today, !.gaps = missing]]
            /\ pc' = [pc EXCEPT ![r] = IF missing = <<>> THEN "answer" ELSE "ask"]
    /\ reads' = reads + 1
    /\ UNCHANGED <<today, revised, cache>>

\* _ask_every_gap moves on to the next gap, whether or not the last was refused.
ToNextGap(r, refused) == IF Len(job[r].gaps) = 1 THEN "answer" ELSE "ask"

\* The source refuses days of the gap: nothing of it is stored.
Refused(r) ==
    LET days == RefusedDays(job[r].kind, Head(job[r].gaps))
    IN /\ pc[r] = "ask"
       /\ days # {}
       /\ job' = [job EXCEPT ![r].gaps = Tail(@), ![r].refused = @ \union days]
       /\ pc' = [pc EXCEPT ![r] = ToNextGap(r, days)]
       /\ UNCHANGED <<today, revised, cache, reads>>

Answered(r) ==
    LET gap == Head(job[r].gaps)
    IN /\ pc[r] = "ask"
       /\ RefusedDays(job[r].kind, gap) = {}
       /\ job' = [job EXCEPT ![r].got = Fetched(job[r].kind, gap)]
       /\ pc' = [pc EXCEPT ![r] = "store"]
       /\ UNCHANGED <<today, revised, cache, reads>>

\* A row already stored with another value.
Differs_anyRow(stored, new) == stored # NoRow
Differs(stored, new) == stored # NoRow /\ stored # new

Conflicts(got) == \E k \in Kind : \E d \in DOMAIN got[k] : Differs(rows[k][d], got[k][d])

\* BarCache.store, store_actions: the rows and the range, or none of it.
Store(r) ==
    LET gap == Head(job[r].gaps)
        got == job[r].got
    IN /\ pc[r] = "store"
       /\ \/ /\ Conflicts(got)
             /\ pc' = [pc EXCEPT ![r] = "conflict"]
             /\ UNCHANGED <<cache, job>>
          \/ /\ ~Conflicts(got)
             /\ rows' = [k \in Kind |-> [d \in Days |->
                            IF d \in DOMAIN got[k] THEN got[k][d] ELSE rows[k][d]]]
             /\ fetched' = [fetched EXCEPT ![job[r].kind] = @ \union {gap}]
             /\ job' = [job EXCEPT ![r].gaps = Tail(@), ![r].got = NoAnswer]
             /\ pc' = [pc EXCEPT ![r] = ToNextGap(r, {})]
       /\ UNCHANGED <<today, revised, reads>>

\* The read returns its rows or raises what was refused (a conflict was raised
\* before). Killed, or failing in any other way, it ends without either.
End(r) ==
    /\ pc[r] # "idle"
    /\ pc' = [pc EXCEPT ![r] = "idle"]
    /\ job' = [job EXCEPT ![r] = NoJob]
    /\ UNCHANGED <<today, revised, cache, reads>>

DayEnds ==
    /\ today < MaxDay
    /\ today' = today + 1
    /\ UNCHANGED <<revised, cache, reads, pc, job>>

\* The source gives another value for a day than it did.
Revise(d) ==
    /\ d < today
    /\ d \in Trading \ revised
    /\ Cardinality(revised) < MaxRevisions
    /\ revised' = revised \union {d}
    /\ UNCHANGED <<today, cache, reads, pc, job>>

Next ==
    \/ DayEnds
    \/ \E d \in Days : Revise(d)
    \/ \E r \in Reader : Begin(r) \/ Refused(r) \/ Answered(r) \/ Store(r) \/ End(r)

Spec == Init /\ [][Next]_vars

-----------------------------------------------------------------------------
(* What must hold.                                                         *)

\* What a read that is about to answer takes from the cache; the day still trading is asked
\* of the source itself.
Answering(r) == pc[r] = "answer"
Wanted(r) == <<job[r].span[1], Complete(job[r].span[2], job[r].clock)>>

\* A source "raises rather than return partial data": a read that was refused nothing finds
\* in the cache a row for every day it wants that has one at the source, and none of a day
\* that was still trading ("a day counts as fetched only once it is over"); and a read of
\* bars names every day whose prices the source must refuse. All that whatever others have
\* stored, and whichever days have ended, since it looked for the gaps.
AnswerIsWhole ==
    \A r \in Reader : Answering(r) =>
        /\ job[r].refused = {} =>
            /\ job[r].kind = "bars" => DaysOf(Wanted(r)) \subseteq Cached("bars", Wanted(r))
            /\ DaysOf(Wanted(r)) \intersect ExDates \subseteq Cached("actions", Wanted(r))
            /\ \A d \in Cached(job[r].kind, Wanted(r)) : rows[job[r].kind][d].value # "unfinished"
        /\ job[r].kind = "bars" => DaysOf(Wanted(r)) \intersect Unpriced \subseteq job[r].refused

\* While the source gives what it always gave, no fetch conflicts with a stored row.
ConflictMeansRevised ==
    \A r \in Reader : pc[r] = "conflict" => revised # {}

=============================================================================
