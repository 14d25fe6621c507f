---------------------------- MODULE PaperAccount ----------------------------
(***************************************************************************)
(* The paper account: state.sqlite (steadyhand_idx/state.py) and the CLI   *)
(* commands that change it, `paper run`, `resume` and `paper switch`       *)
(* (steadyhand_idx/paper.py, cli.py).                                      *)
(*                                                                         *)
(* Each command is an operating-system process that runs once. It reads    *)
(* the configuration and the account, works (fetches, runs a day, waits    *)
(* for the operator's typed confirmation), and saves in a transaction of   *)
(* its own, which goes through only if the account's last day is still the *)
(* one it read. Commands interleave at every database access and may be    *)
(* killed between any two.                                                 *)
(*                                                                         *)
(* Trading days are numbered 1, 2, ...; 0 stands for Python's None.        *)
(***************************************************************************)
EXTENDS Naturals, FiniteSets

CONSTANTS
    Command,      \* the command processes
    Strategies,   \* the strategies the configuration may name
    None,         \* no strategy: no account yet, or an empty memory
    MaxDay,       \* bound: the last trading day of the model
    CatchUpCap,   \* CATCH_UP_CAP
    OpeningRace   \* whether a new day may complete while a first run is in flight

ASSUME ConstantsOK ==
    /\ None \notin Strategies
    /\ MaxDay \in Nat \ {0}
    /\ CatchUpCap \in Nat
    /\ OpeningRace \in BOOLEAN

VARIABLES
    config,    \* the strategy steadyhand.toml names
    today,     \* the latest completed trading day, target_day(now)
    account,   \* the account row
    reports,   \* the day_reports table
    audit,     \* the audit table
    runs,      \* the runs table, by the command that wrote the row
    pc,        \* where each command is
    job        \* what each command has read and computed

vars == <<config, today, account, reports, audit, runs, pc, job>>
db == <<account, reports, audit, runs>>

NoDay == 0
Days == 1..MaxDay

\* A row of the account table. `booked` stands for the ledger: the days whose
\* movements the encoded state holds. `deep` says that the unit value is at or
\* past the drawdown limit, `memory` whose memory the state carries.
Account == [opened : 0..MaxDay, strategy : Strategies \union {None},
            last : 0..MaxDay, booked : SUBSET Days, halt : 0..MaxDay,
            deep : BOOLEAN, memory : Strategies \union {None}]

NoAccount == [opened |-> NoDay, strategy |-> None, last |-> NoDay, booked |-> {},
              halt |-> NoDay, deep |-> FALSE, memory |-> None]

\* A saved report, with the last day of the state it was computed from.
Report == [day : Days, after : 0..MaxDay]

Outcome == {"ran", "up to date", "stopped", "halted"}
RunRow == [target : Days, days : SUBSET Days, outcome : Outcome]
NoRun == [target |-> NoDay, days |-> {}, outcome |-> "none"]

AuditLine == [key : {"opened", "switched"}, about : Strategies]
             \union [key : {"halt", "resumed", "stopped"}, about : Days]

Step == {"new", "fetch", "read", "save", "finish", "confirm", "done"}
Job == [kind : {"none", "run", "resume", "switch"}, strategy : Strategies \union {None},
        target : 0..MaxDay, next : 0..MaxDay + 1, ran : SUBSET Days,
        seen : Account, made : Account, opening : BOOLEAN,
        outcome : Outcome \union {"none"}]

NoJob == [kind |-> "none", strategy |-> None, target |-> NoDay, next |-> NoDay,
          ran |-> {}, seen |-> NoAccount, made |-> NoAccount, opening |-> FALSE,
          outcome |-> "none"]

Init ==
    /\ config \in Strategies
    /\ today = 1
    /\ account = NoAccount
    /\ reports = {}
    /\ audit = {}
    /\ runs = [c \in Command |-> NoRun]
    /\ pc = [c \in Command |-> "new"]
    /\ job = [c \in Command |-> NoJob]

-----------------------------------------------------------------------------
(* The world: the operator edits steadyhand.toml, and days complete.       *)

EditConfig ==
    /\ config' \in Strategies \ {config}
    /\ UNCHANGED <<today, db, pc, job>>

OpeningInFlight == \E c \in Command : job[c].opening

DayCompletes ==
    /\ today < MaxDay
    /\ OpeningRace \/ ~OpeningInFlight
    /\ today' = today + 1
    /\ UNCHANGED <<config, db, pc, job>>

\* A command ends: killed, refused, or its work done.
Ends(c) ==
    /\ pc' = [pc EXCEPT ![c] = "done"]
    /\ job' = [job EXCEPT ![c] = NoJob]

\* SQLite rolls back the transaction the killed process had open.
Killed(c) ==
    /\ pc[c] \notin {"new", "done"}
    /\ Ends(c)
    /\ UNCHANGED <<config, today, db>>

-----------------------------------------------------------------------------
(* StateStore.save: nothing is written unless the last day saved is still  *)
(* the one the caller started from.                                        *)

StillAfter_unchecked(seen) == TRUE
StillAfter(seen) == account.last = seen.last

Halted(a) == a.halt # NoDay

OutcomeOf(a, otherwise) == IF Halted(a) THEN "halted" ELSE otherwise

\* INSERT ... ON CONFLICT (id) DO UPDATE: the whole row is replaced.
Save(c, lines, rows) ==
    IF StillAfter(job[c].seen)
    THEN /\ account' = job[c].made
         /\ audit' = audit \union lines
         /\ reports' = reports \union rows
    ELSE UNCHANGED <<account, audit, reports>>

-----------------------------------------------------------------------------
(* paper run                                                               *)

\* days_to_run: the days after the last one saved, up to the target; the target
\* alone before the first run.
FirstToRun_theTarget == today
FirstToRun == IF account = NoAccount THEN today ELSE account.last + 1

\* The account must run the configured strategy, and more than CATCH_UP_CAP
\* days run only with --catch-up; a command refused here writes nothing. With no
\* day to run, the run is over.
StartRun(c) ==
    LET first == FirstToRun
        upToDate == first > today
    IN /\ pc[c] = "new"
       /\ account # NoAccount => account.strategy = config
       /\ \E catchUp \in BOOLEAN :
             (account # NoAccount /\ ~catchUp) => today < first + CatchUpCap
       /\ pc' = [pc EXCEPT ![c] = IF upToDate THEN "finish" ELSE "fetch"]
       /\ job' = [job EXCEPT ![c] =
             [NoJob EXCEPT !.kind = "run", !.strategy = config, !.target = today,
                           !.next = first, !.opening = (account = NoAccount),
                           !.outcome = IF upToDate THEN OutcomeOf(account, "up to date")
                                       ELSE "none"]]
       /\ UNCHANGED <<config, today, db>>

\* Bad or missing data ends the run; the days before it stay saved.
Stops(c) ==
    /\ pc' = [pc EXCEPT ![c] = "finish"]
    /\ job' = [job EXCEPT ![c].outcome = "stopped"]

\* day_inputs: every day's bars and actions, through the data source.
Fetch(c) ==
    /\ pc[c] = "fetch"
    /\ \/ Stops(c)
       \/ pc' = [pc EXCEPT ![c] = "read"] /\ job' = job
    /\ UNCHANGED <<config, today, db>>

\* run_day on the account as read, or on the opening state: the day is booked,
\* a halt raised stays raised, and a halted day leaves the memory alone.
HaltAfter_newOnly(a, d, deep, fell) == IF deep \/ fell THEN d ELSE NoDay
HaltAfter(a, d, deep, fell) ==
    IF Halted(a) THEN a.halt ELSE IF deep \/ fell THEN d ELSE NoDay

DayRun(a, d, strategy, deep, fell) ==
    LET halt == HaltAfter(a, d, deep, fell)
    IN [opened |-> IF a = NoAccount THEN d ELSE a.opened,
        strategy |-> strategy,
        last |-> d,
        booked |-> a.booked \union {d},
        halt |-> halt,
        deep |-> deep,
        memory |-> IF halt = NoDay THEN strategy ELSE a.memory]

AlreadyRun_strict(d) == account.last > d
AlreadyRun(d) == account.last >= d

\* The loop over the days to run moves on.
DayAfter_stuck(d) == d
DayAfter(d) == d + 1

\* _run_one, up to the save: the account is read again. Another run's day is
\* skipped; otherwise the day is refused (stale or impossible data) or run.
RunOne(c) ==
    LET day == job[c].next
    IN /\ pc[c] = "read"
       /\ day <= job[c].target
       /\ \/ /\ AlreadyRun(day)
             /\ job' = [job EXCEPT ![c].next = DayAfter(day)]
             /\ pc' = pc
          \/ /\ ~AlreadyRun(day)
             /\ \/ Stops(c)
                \/ \E deep, fell \in BOOLEAN :
                     /\ job' = [job EXCEPT
                           ![c].seen = account,
                           ![c].made = DayRun(account, day, job[c].strategy, deep, fell)]
                     /\ pc' = [pc EXCEPT ![c] = "save"]
       /\ UNCHANGED <<config, today, db>>

\* The audit lines a day is saved with: the opening, and a halt it raised.
OpeningLine(seen, made) ==
    IF seen = NoAccount THEN {[key |-> "opened", about |-> made.strategy]} ELSE {}

DayLines_openingOnly(seen, made) == OpeningLine(seen, made)
DayLines(seen, made) ==
    OpeningLine(seen, made)
    \union (IF made.halt = made.last THEN {[key |-> "halt", about |-> made.halt]} ELSE {})

\* The days this run reports: one it computed counts only if its save went through.
Credited_always(c) == job[c].ran \union {job[c].made.last}
Credited(c) ==
    IF StillAfter(job[c].seen) THEN job[c].ran \union {job[c].made.last} ELSE job[c].ran

\* _run_one's save, and the loop's next day. A day another command's save
\* overtook is left to it.
SaveDay(c) ==
    LET seen == job[c].seen
        made == job[c].made
    IN /\ pc[c] = "save"
       /\ job[c].kind = "run"
       /\ Save(c, DayLines(seen, made), {[day |-> made.last, after |-> seen.last]})
       /\ job' = [job EXCEPT ![c].next = DayAfter(made.last),
                             ![c].seen = NoAccount, ![c].made = NoAccount,
                             ![c].ran = Credited(c)]
       /\ pc' = [pc EXCEPT ![c] = "read"]
       /\ UNCHANGED <<config, today, runs>>

\* Every day done: the account is read once more for the halt to report.
CloseRun(c) ==
    /\ pc[c] = "read"
    /\ job[c].next > job[c].target
    /\ pc' = [pc EXCEPT ![c] = "finish"]
    /\ job' = [job EXCEPT ![c].outcome =
          OutcomeOf(account, IF job[c].ran = {} THEN "up to date" ELSE "ran")]
    /\ UNCHANGED <<config, today, db>>

\* StateStore.finish: the run's row and a stop's audit line, in one transaction.
FinishRun(c) ==
    LET done == job[c]
    IN /\ pc[c] = "finish"
       /\ runs' = [runs EXCEPT ![c] = [target |-> done.target, days |-> done.ran,
                                       outcome |-> done.outcome]]
       /\ audit' = IF done.outcome = "stopped"
                   THEN audit \union {[key |-> "stopped", about |-> done.next]}
                   ELSE audit
       /\ Ends(c)
       /\ UNCHANGED <<config, today, account, reports>>

-----------------------------------------------------------------------------
(* resume and paper switch: read, check, wait for the operator, save.      *)

\* The command shows what it found and waits for the typed confirmation.
Asks(c, kind, made) ==
    /\ pc[c] = "new"
    /\ pc' = [pc EXCEPT ![c] = "confirm"]
    /\ job' = [job EXCEPT ![c] = [NoJob EXCEPT !.kind = kind, !.seen = account, !.made = made]]
    /\ UNCHANGED <<config, today, db>>

\* check_resume: there is a halt to clear, and its cause is gone.
ResumeAllowed_anyDepth(a) == Halted(a)
ResumeAllowed(a) == Halted(a) /\ ~a.deep

AskResume(c) ==
    /\ account # NoAccount
    /\ ResumeAllowed(account)
    /\ Asks(c, "resume", [account EXCEPT !.halt = NoDay])

\* check_switch: the configured strategy, not the one running, and no halt.
AskSwitch(c) ==
    /\ account # NoAccount
    /\ config # account.strategy
    /\ ~Halted(account)
    /\ Asks(c, "switch", [account EXCEPT !.strategy = config, !.memory = None])

\* The audit line of a change: the halt resumed from, or the strategy switched to.
ChangeLine(c) ==
    IF job[c].kind = "resume"
    THEN [key |-> "resumed", about |-> job[c].seen.halt]
    ELSE [key |-> "switched", about |-> job[c].made.strategy]

\* The operator confirmed. Any other answer ends the command like Killed.
\* AccountChangedError: the save did not go through, and nothing changed.
Confirmed(c) ==
    /\ pc[c] = "confirm"
    /\ Save(c, {ChangeLine(c)}, {})
    /\ Ends(c)
    /\ UNCHANGED <<config, today, runs>>

-----------------------------------------------------------------------------
CommandStep(c) ==
    \/ StartRun(c) \/ Fetch(c) \/ RunOne(c) \/ SaveDay(c) \/ CloseRun(c) \/ FinishRun(c)
    \/ AskResume(c) \/ AskSwitch(c) \/ Confirmed(c)

Next ==
    \/ EditConfig
    \/ DayCompletes
    \/ \E c \in Command : CommandStep(c) \/ Killed(c)

Spec == Init /\ [][Next]_vars

\* A started paper run is a running process: unless it is killed it goes on.
\* Nothing obliges anyone to start a command or to answer a question.
RunSteps(c) == Fetch(c) \/ RunOne(c) \/ SaveDay(c) \/ CloseRun(c) \/ FinishRun(c)
FairSpec == Spec /\ \A c \in Command : WF_vars(RunSteps(c))

-----------------------------------------------------------------------------
(* What must hold.                                                         *)

\* Every variable stays within its type.
TypeOK ==
    /\ config \in Strategies
    /\ today \in Days
    /\ account \in Account
    /\ reports \subseteq Report
    /\ audit \subseteq AuditLine
    /\ runs \in [Command -> RunRow \union {NoRun}]
    /\ pc \in [Command -> Step]
    /\ job \in [Command -> Job]

\* A day run by two processes at once is saved exactly once (state.py's head):
\* a day has one report, which is what keeps the table's primary key quiet, the
\* reports are of exactly the days booked in the account's state, and the last
\* of them is the account's last day.
DaysReported == {r.day : r \in reports}

EachDaySavedOnce ==
    /\ \A r, s \in reports : r.day = s.day => r = s
    /\ DaysReported = account.booked
    /\ \A d \in account.booked : d <= account.last
    /\ account.last # NoDay => account.last \in account.booked

\* Each report was computed from the account as the report before it left it:
\* no day was run from a state that another command had already moved on.
EachDayRunFromTheLast ==
    \A r \in reports :
        /\ r.after < r.day
        /\ r.after # NoDay => r.after \in DaysReported
        /\ \A s \in reports : s.day <= r.after \/ s.day >= r.day

\* run_paper runs every trading day after the last one saved, oldest first: the
\* journal has no gap.
NoDaySkipped == account # NoAccount => account.booked = account.opened..account.last

\* The runs table tells the truth, also while runs that overtook each other are still to
\* write their rows: a run that says it ran, or that the account was up to date for its target
\* day, has an account that reached that day, and each day is credited to the one run that
\* saved it.
RunsTellTheTruth ==
    LET credited(c) == runs[c].days \union job[c].ran
    IN  \A c \in Command :
            /\ runs[c].outcome \notin {"none", "stopped"} => account.last >= runs[c].target
            /\ credited(c) \subseteq DaysReported
            /\ \A e \in Command \ {c} : credited(c) \cap credited(e) = {}

\* While the drawdown is at or past its limit the account is halted, whatever
\* resumes and runs overlap: resume refuses until the cause is gone.
PastTheLimitIsHalted == account.deep => Halted(account)

\* The audit log and the account agree: the account was opened once, its halt
\* was written with its day, and the strategy it runs was announced.
AuditExplainsTheAccount ==
    account # NoAccount =>
        /\ \E s \in Strategies : \A t \in Strategies :
             ([key |-> "opened", about |-> t] \in audit) <=> (s = t)
        /\ Halted(account) => [key |-> "halt", about |-> account.halt] \in audit
        /\ \E k \in {"opened", "switched"} : [key |-> k, about |-> account.strategy] \in audit

\* A halt is lifted only by the operator, who was shown that very halt.
LiftsOnlyTheHaltShown ==
    (Halted(account) /\ account'.halt # account.halt) =>
        \E c \in Command : /\ pc[c] = "confirm" /\ pc'[c] = "done"
                           /\ job[c].kind = "resume" /\ job[c].seen.halt = account.halt

HaltLiftedByItsResume == [][LiftsOnlyTheHaltShown]_vars

\* The account keeps the promises of a day journal.
Journal == INSTANCE DayJournal WITH
    last <- account.last, days <- account.booked, halted <- Halted(account)
JournalSpec == Journal!Spec

\* A paper run always ends: it has a finite list of days and never waits for
\* another command.
RunsEnd ==
    \A c \in Command : (pc[c] \notin {"new", "confirm", "done"}) ~> (pc[c] = "done")

\* `resume` tells the operator that from the next day run orders are placed
\* again: a halt that appears is one raised by the day being saved.
ResumedStaysResumed ==
    [][(~Halted(account) /\ Halted(account)') => account'.halt = account'.last]_vars

-----------------------------------------------------------------------------
(* The inductive invariant the proofs rest on (PaperAccountProofs).        *)

\* The account, its reports and its halt belong together.
Chained ==
    /\ account.last = NoDay => account = NoAccount
    /\ account.last # NoDay => account.strategy \in Strategies
    /\ EachDaySavedOnce
    /\ EachDayRunFromTheLast
    /\ PastTheLimitIsHalted

\* Where a command is tells what it holds.
RunningOf(c) ==
    pc[c] \in {"fetch", "read", "save", "finish"} =>
        /\ job[c].kind = "run"
        /\ job[c].strategy \in Strategies
        /\ job[c].target \in Days
        /\ job[c].next \in 1..MaxDay + 1
        /\ pc[c] \in {"fetch", "save"} => job[c].next <= job[c].target
        /\ pc[c] = "finish" =>
             /\ job[c].outcome \in Outcome
             /\ job[c].outcome = "stopped" => job[c].next <= job[c].target

\* A row read and not yet saved over: the account has not gone back behind it,
\* and while its last day is still the same, only a halt may have been lifted
\* or the strategy switched since.
SnapshotOf(c) ==
    pc[c] \in {"save", "confirm"} =>
        /\ job[c].seen.last <= account.last
        /\ job[c].seen.last = account.last =>
             /\ job[c].seen.booked = account.booked
             /\ job[c].seen.deep = account.deep
             /\ Halted(account) => job[c].seen.halt = account.halt
             /\ job[c].seen.last = NoDay => job[c].seen = NoAccount
        /\ job[c].seen.deep => Halted(job[c].seen)
        /\ job[c].seen.last # NoDay => job[c].seen.strategy \in Strategies

\* What the command is about to save follows from what it read.
MadeOf(c) ==
    /\ pc[c] = "save" =>
         /\ job[c].seen.last < job[c].next
         /\ \E deep, fell \in BOOLEAN :
              job[c].made = DayRun(job[c].seen, job[c].next, job[c].strategy, deep, fell)
    /\ pc[c] = "confirm" =>
         /\ job[c].seen.last # NoDay
         /\ \/ /\ job[c].kind = "resume"
               /\ ResumeAllowed(job[c].seen)
               /\ job[c].made = [job[c].seen EXCEPT !.halt = NoDay]
            \/ /\ job[c].kind = "switch"
               /\ ~Halted(job[c].seen)
               /\ job[c].made.strategy \in Strategies
               /\ job[c].made = [job[c].seen EXCEPT !.strategy = job[c].made.strategy,
                                                   !.memory = None]

AccountInv ==
    /\ TypeOK
    /\ Chained
    /\ \A c \in Command : RunningOf(c) /\ SnapshotOf(c) /\ MadeOf(c)

=============================================================================
