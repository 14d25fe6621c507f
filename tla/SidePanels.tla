----------------------------- MODULE SidePanels -----------------------------
(***************************************************************************)
(* The extension's side panels (extension/packages/shell, history, core)   *)
(* and the record the risk halts are judged from. A panel does one job at  *)
(* a time; every window has a panel of its own, and all share one          *)
(* database. A job's reads and writes are transactions of their own, so    *)
(* another panel's writes land between them; closing a panel ends its job  *)
(* where it is.                                                            *)
(*                                                                         *)
(* The broker's page shows the account's value at a day's close and its    *)
(* deposits and withdrawals. A day is a trading day, an instant the count  *)
(* of the instants the record keeps.                                       *)
(***************************************************************************)
EXTENDS UnitValue, Integers, Sequences, FiniteSetsExt, SequencesExt

CONSTANTS
    Panels,     \* the side panels open
    Opening,    \* what the account is worth at the first close
    PageSpan,   \* how many days a movement page covers, up to the last close
    Values,     \* what the account may be worth, large enough to cover the flows
    Flows,      \* what may be deposited, or withdrawn (negative), in a day
    MaxDay,     \* bound: trading days
    MaxInstant, \* bound: instants recorded
    FlowDays    \* bound: the days of a movement, and those the user may type one for, once

ASSUME PanelConstants ==
    /\ Opening \in Nat \ {0} /\ PageSpan \in Nat \ {0}
    /\ Values \subseteq Nat \ {0} /\ Flows \subseteq Int /\ 0 \in Flows
    /\ {MaxDay, MaxInstant} \subseteq Nat \ {0}
    /\ {DailyLoss, MaxDrawdown} \subseteq 1..99 /\ Scale \in Nat \ {0}

VARIABLES
    broker, \* the last trading day closed, the account's value then, the flow of each day
    clock,  \* the last instant the record was given
    db,     \* the record: the stores the halts are judged from
    panel   \* each panel's job

vars == <<broker, clock, db, panel>>

Days == 1..MaxDay
None == 0
NoFlow == [d \in Days |-> 0]

\* The stores, in the order riskRecord reads them: each day's value and the instant it was
\* read, the rows of the movement pages, the days those pages cover, what the user typed, the
\* days the user answered for, and the resumes.
Stores == <<"valuations", "movements", "reads", "typed", "answered", "resumes">>
EmptyRecord ==
    [valuations |-> [d \in Days |-> [value |-> None, readAt |-> None]],
     movements |-> NoFlow, reads |-> {}, typed |-> NoFlow, answered |-> {}, resumes |-> {}]

-----------------------------------------------------------------------------
(* The state of risk a record gives (core/src/risk-state.ts).              *)

\* netFlow: what the pages list, and what was typed for a day no page covers.
NetFlow(record, from, to) ==
    LET upTo[d \in (from - 1)..to] ==
            IF d < from THEN 0
            ELSE upTo[d - 1] + record.movements[d]
                    + (IF d \in record.reads THEN 0 ELSE record.typed[d])
    IN  upTo[to]

\* resumedBefore, negated: the halt of day raised held until before.
Holding(record, raised, before) ==
    /\ raised # None
    /\ ~\E r \in record.resumes :
            /\ r.haltDay = raised
            /\ record.valuations[raised].readAt < r.at /\ r.at < before
Never == MaxInstant + 1

\* A halt is raised only while none holds that a resume had not lifted when the day was read.
RaisedBy_rejudged(record, s, d, fell) == IF fell THEN d ELSE None
RaisedBy_onceRaised(record, s, d, fell) == IF s.raised = None /\ fell THEN d ELSE s.raised
RaisedBy(record, s, d, fell) ==
    IF Holding(record, s.raised, record.valuations[d].readAt) THEN s.raised
    ELSE IF fell THEN d ELSE None

\* One read of the fold: the first opens the fund; a later one is judged once the movements
\* since the read before are known.
Read(record, s, d) ==
    LET v == record.valuations[d]
        net == NetFlow(record, s.day + 1, d)
        after == Revalued(s.fund, v.value - net)
    IN  IF v.value = None \/ s.gap THEN s
        ELSE IF s.day = None THEN [s EXCEPT !.fund = Deposited(NoUnits, v.value), !.day = d]
        ELSE IF (s.day + 1)..d \subseteq record.reads \cup record.answered
             THEN [s EXCEPT !.fund = Deposited(after, net), !.day = d,
                            !.raised = RaisedBy(record, s, d, Breached(s.fund, after))]
             ELSE [s EXCEPT !.gap = TRUE]

NothingRead == [fund |-> NoUnits, day |-> None, raised |-> None, gap |-> FALSE]
RiskAfter(record) ==
    LET after[d \in 0..MaxDay] ==
            IF d = 0 THEN NothingRead ELSE Read(record, after[d - 1], d)
    IN  after
RiskState(record) == RiskAfter(record)[MaxDay]

HaltOf(record, s) == IF Holding(record, s.raised, Never) THEN s.raised ELSE None
Halt(record) == HaltOf(record, RiskState(record))

AtTheLimit(s) == FallsBy(MaxDrawdown, s.fund.high, s.fund.price)

\* The span the panel asks about: from the day after the last read judged to the last read.
Unrecorded(record, s) ==
    IF s.gap THEN (s.day + 1)..Max({d \in Days : record.valuations[d].value # None}) ELSE {}

\* resume, with the strategy's name typed right.
ResumeRefused(record) ==
    LET s == RiskState(record) IN HaltOf(record, s) = None \/ s.gap \/ AtTheLimit(s)

-----------------------------------------------------------------------------
(* The panels (shell/src/panel.ts).                                        *)

NoPage == [day |-> None, value |-> None, readAt |-> None]
Idle == [at |-> "idle", reading |-> 0, seen |-> EmptyRecord, page |-> NoPage,
         asked |-> {}, halted |-> FALSE]

\* Every job that recorded something ends by showing the risk anew (redraw, showRisk): it asks
\* about the span, and offers to resume only a halt. What is shown is not kept up to date with
\* what the other panels record. The record is taken as it is at once, where showRisk reads its
\* six stores in six transactions; a job judges the record it reads itself, store by store.
Showing(record) ==
    LET s == RiskState(record)
    IN  [Idle EXCEPT !.asked = Unrecorded(record, s), !.halted = HaltOf(record, s) # None]

\* The first close has been read.
Init ==
    /\ broker = [day |-> 1, value |-> Opening, flow |-> NoFlow]
    /\ clock = 1
    /\ db = [EmptyRecord EXCEPT !.valuations[1] = [value |-> Opening, readAt |-> 1]]
    /\ panel = [p \in Panels |-> Idle]

NextDay ==
    /\ broker.day < MaxDay
    /\ \E value \in Values, flow \in IF broker.day + 1 \in FlowDays THEN Flows ELSE {0} :
        broker' = [day |-> broker.day + 1, value |-> value,
                   flow |-> [broker.flow EXCEPT ![broker.day + 1] = flow]]
    /\ UNCHANGED <<clock, db, panel>>

\* recordPage, of a portfolio page: what it shows, and the instant it was taken. Its closes are
\* recorded first, by a transaction of their own, and then its value: a day read again keeps
\* the later read.
TakePage(p) ==
    /\ panel[p].at = "idle" /\ clock < MaxInstant
    /\ clock' = clock + 1
    /\ panel' = [panel EXCEPT ![p].at = "page",
                    ![p].page = [day |-> broker.day, value |-> broker.value, readAt |-> clock']]
    /\ UNCHANGED <<broker, db>>
RecordValuation(p) ==
    LET page == panel[p].page IN
    /\ panel[p].at = "page"
    /\ db' = [db EXCEPT !.valuations[page.day] = [value |-> page.value, readAt |-> page.readAt]]
    /\ panel' = [panel EXCEPT ![p] = Showing(db')]
    /\ UNCHANGED <<broker, clock>>

\* A movement page's rows and the period it covers, in one transaction.
RecordMovements(p) ==
    /\ panel[p].at = "idle"
    /\ LET covered == {d \in 1..broker.day : broker.day - d < PageSpan} IN
        db' = [db EXCEPT !.reads = @ \cup covered,
                   !.movements = [d \in Days |-> IF d \in covered THEN broker.flow[d] ELSE @[d]]]
    /\ panel' = [panel EXCEPT ![p] = Showing(db')]
    /\ UNCHANGED <<broker, clock>>

\* keepTypedMovement, and answerNoneAsked: the span asked about when the risk was last shown.
RecordTyped(p) ==
    /\ panel[p].at = "idle"
    /\ \E d \in FlowDays \cap 1..broker.day, flow \in Flows \ {0} :
        db.typed[d] = 0 /\ db' = [db EXCEPT !.typed[d] = flow]
    /\ panel' = [panel EXCEPT ![p] = Showing(db')]
    /\ UNCHANGED <<broker, clock>>
RecordAnswered(p) ==
    /\ panel[p].at = "idle" /\ panel[p].asked # {}
    /\ db' = [db EXCEPT !.answered = @ \cup panel[p].asked]
    /\ panel' = [panel EXCEPT ![p] = Showing(db')]
    /\ UNCHANGED <<broker, clock>>

\* The resume box is shown only with a halt in force when the risk was last shown.
AskResume(p) ==
    /\ panel[p].at = "idle" /\ panel[p].halted
    /\ panel' = [panel EXCEPT ![p].at = "reading", ![p].reading = 1]
    /\ UNCHANGED <<broker, clock, db>>

\* riskRecord, read by resumeHalt: the next store, in a transaction of its own.
ReadStore(p) ==
    LET store == Stores[panel[p].reading] IN
    /\ panel[p].at = "reading" /\ panel[p].reading <= Len(Stores)
    /\ panel' = [panel EXCEPT ![p].seen[store] = db[store], ![p].reading = @ + 1]
    /\ UNCHANGED <<broker, clock, db>>

WholeRead(p) == panel[p].at = "reading" /\ panel[p].reading > Len(Stores)

\* resumeHalt: judged by what was read; a resume granted is recorded with its instant.
RefuseResume(p) ==
    /\ WholeRead(p) /\ ResumeRefused(panel[p].seen)
    /\ panel' = [panel EXCEPT ![p] = [Idle EXCEPT !.asked = panel[p].asked, !.halted = TRUE]]
    /\ UNCHANGED <<broker, clock, db>>
GrantResume_atItsRead(p) ==
    /\ WholeRead(p) /\ ~ResumeRefused(panel[p].seen) /\ clock < MaxInstant
    /\ panel' = [panel EXCEPT ![p].at = "granted"]
    /\ UNCHANGED <<broker, clock, db>>
GrantResume(p) ==
    /\ WholeRead(p) /\ ~ResumeRefused(panel[p].seen) /\ clock < MaxInstant
    /\ clock' = clock + 1
    /\ panel' = [panel EXCEPT ![p].at = "granted", ![p].page.readAt = clock']
    /\ UNCHANGED <<broker, db>>
RecordResume(p) ==
    /\ panel[p].at = "granted"
    /\ db' = [db EXCEPT !.resumes = @ \cup
                {[haltDay |-> Halt(panel[p].seen), at |-> panel[p].page.readAt]}]
    /\ panel' = [panel EXCEPT ![p] = Showing(db')]
    /\ UNCHANGED <<broker, clock>>

\* A panel is closed in the middle of a job; opened again, it shows the record.
Reopen(p) ==
    /\ panel[p].at # "idle"
    /\ panel' = [panel EXCEPT ![p] = Showing(db)]
    /\ UNCHANGED <<broker, clock, db>>

Next ==
    \/ NextDay
    \/ \E p \in Panels :
        \/ TakePage(p) \/ RecordValuation(p) \/ RecordMovements(p) \/ RecordTyped(p)
        \/ RecordAnswered(p) \/ AskResume(p) \/ ReadStore(p)
        \/ RefuseResume(p) \/ GrantResume(p) \/ RecordResume(p) \/ Reopen(p)

Spec == Init /\ [][Next]_vars

-----------------------------------------------------------------------------
(* Properties.                                                             *)

\* A last read that shows the drawdown at its limit stops buying, whatever was recorded, and
\* however late, by whichever panel: a resume counts against it only if made after it was read.
AReadPastTheLimitStops ==
    LET s == RiskState(db) IN
        (AtTheLimit(s) /\ \A r \in db.resumes : r.at < db.valuations[s.day].readAt)
            => HaltOf(db, s) # None

\* The read of a later day never ends the halt in force: a recovery alone lifts nothing, and
\* the halt keeps its first day, while pages are read and movements recorded in any order.
HaltOutlivesRecovery ==
    [][\A p \in Panels :
        (RecordValuation(p) /\ \A d \in panel[p].page.day..MaxDay : db.valuations[d].value = None)
            => (Halt(db) # None => Halt(db') = Halt(db))]_vars

\* A resume lifts the halt it was granted for, when the record is still what it was judged by.
ResumeLiftsItsHalt ==
    [][\A p \in Panels : (RecordResume(p) /\ panel[p].seen = db) => Halt(db') = None]_vars
=============================================================================
