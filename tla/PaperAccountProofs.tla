------------------------- MODULE PaperAccountProofs -------------------------
(***************************************************************************)
(* Theorems about PaperAccount, for every number of commands, strategies   *)
(* and days, and with first runs free to race the clock or not, but where  *)
(* a theorem says so.                                                      *)
(*                                                                         *)
(* AccountInv is inductive. A save goes through only if the last day is    *)
(* still the one read, and SnapshotOf says what that means for the row the *)
(* command read: the same days booked, the same drawdown, and a halt that  *)
(* is the same one or was lifted since. MadeOf carries it to the row saved.*)
(*                                                                         *)
(* HistoryInv is inductive on top of it where no day completes while a     *)
(* first run is in flight: then first runs in flight are all for one day,  *)
(* every other run's next day follows one that is saved, and what a        *)
(* command read of a halt or a strategy the audit log has told.            *)
(***************************************************************************)
EXTENDS PaperAccount, TLAPS

\* The empty account and the job of no command are of their types.
LEMMA EmptyTypes ==
    /\ NoAccount \in Account
    /\ NoJob \in Job
    /\ NoAccount.last = NoDay
  BY ConstantsOK DEF NoAccount, Account, NoJob, Job, NoDay, Outcome

\* A day run from an account of its type gives one of its type, with the day
\* booked after the rest and a halt raised before kept.
LEMMA DayRunType ==
    ASSUME NEW a \in Account, NEW d \in Days, NEW s \in Strategies,
           NEW deep \in BOOLEAN, NEW fell \in BOOLEAN
    PROVE  LET made == DayRun(a, d, s, deep, fell)
           IN /\ made \in Account
              /\ made.last = d
              /\ made.strategy \in Strategies
              /\ made.booked = a.booked \union {d}
              /\ made.deep => Halted(made)
              /\ Halted(a) => made.halt = a.halt
              /\ made.halt \in {a.halt, d, NoDay}
  <1>1. HaltAfter(a, d, deep, fell) \in 0..MaxDay
    BY ConstantsOK DEF HaltAfter, Account, Days, NoDay
  <1>2. (IF a = NoAccount THEN d ELSE a.opened) \in 0..MaxDay
    BY ConstantsOK DEF Account, Days
  <1>3. (IF HaltAfter(a, d, deep, fell) = NoDay THEN s ELSE a.memory)
            \in Strategies \union {None}
    BY DEF Account
  <1>4. DayRun(a, d, s, deep, fell) \in Account
    BY <1>1, <1>2, <1>3, ConstantsOK DEF DayRun, Account, Days
  <1>5. d # NoDay
    BY DEF Days, NoDay
  <1> QED
    BY <1>4, <1>5 DEF DayRun, HaltAfter, Halted

\* The program starts with no account and no command under way.
LEMMA InitInv == Init => AccountInv
  <1> SUFFICES ASSUME Init PROVE AccountInv
    OBVIOUS
  <1>1. TypeOK
    BY EmptyTypes, ConstantsOK DEF Init, TypeOK, Days, Step, Report, AuditLine, NoRun
  <1>2. Chained
    BY DEF Init, Chained, EachDaySavedOnce, EachDayRunFromTheLast, PastTheLimitIsHalted,
           DaysReported, NoAccount, NoDay
  <1>3. \A c \in Command : RunningOf(c) /\ SnapshotOf(c) /\ MadeOf(c)
    BY DEF Init, RunningOf, SnapshotOf, MadeOf
  <1> QED
    BY <1>1, <1>2, <1>3 DEF AccountInv

-----------------------------------------------------------------------------
(* The steps that leave the database alone.                                *)

\* The account's own facts stand while the database does.
LEMMA ChainedStays ==
    ASSUME Chained, UNCHANGED <<account, reports>>
    PROVE  Chained'
  BY DEF Chained, EachDaySavedOnce, EachDayRunFromTheLast, PastTheLimitIsHalted,
         DaysReported, Halted

\* A command that does not move keeps its facts while the account does not move.
LEMMA OthersStay ==
    ASSUME NEW d \in Command, RunningOf(d), SnapshotOf(d), MadeOf(d),
           account' = account, pc'[d] = pc[d], job'[d] = job[d]
    PROVE  RunningOf(d)' /\ SnapshotOf(d)' /\ MadeOf(d)'
  BY DEF RunningOf, SnapshotOf, MadeOf, Halted, DayRun, HaltAfter, ResumeAllowed

\* What a command holds does not depend on the account it will save over.
LEMMA HeldStays ==
    ASSUME NEW d \in Command, RunningOf(d), MadeOf(d), pc'[d] = pc[d], job'[d] = job[d]
    PROVE  RunningOf(d)' /\ MadeOf(d)'
  BY DEF RunningOf, MadeOf, DayRun, HaltAfter, Halted, ResumeAllowed

\* A command that has ended holds nothing.
LEMMA EndedHoldsNothing ==
    ASSUME NEW d \in Command, pc'[d] = "done"
    PROVE  RunningOf(d)' /\ SnapshotOf(d)' /\ MadeOf(d)'
  BY DEF RunningOf, SnapshotOf, MadeOf

\* An edit of steadyhand.toml touches no command and no table.
LEMMA EditConfigInv == ASSUME AccountInv, EditConfig PROVE AccountInv'
  <1> USE DEF AccountInv
  <1>1. TypeOK'
    BY DEF EditConfig, TypeOK, db
  <1>2. Chained'
    BY ChainedStays DEF EditConfig, db
  <1>3. \A d \in Command : RunningOf(d)' /\ SnapshotOf(d)' /\ MadeOf(d)'
    BY OthersStay DEF EditConfig, db
  <1> QED
    BY <1>1, <1>2, <1>3

\* A later target day leaves every job and the account alone.
LEMMA DayCompletesInv == ASSUME AccountInv, DayCompletes PROVE AccountInv'
  <1> USE DEF AccountInv
  <1>1. TypeOK'
    BY ConstantsOK DEF DayCompletes, TypeOK, db, Days
  <1>2. Chained'
    BY ChainedStays DEF DayCompletes, db
  <1>3. \A d \in Command : RunningOf(d)' /\ SnapshotOf(d)' /\ MadeOf(d)'
    BY OthersStay DEF DayCompletes, db
  <1> QED
    BY <1>1, <1>2, <1>3

\* A killed command leaves the database as its last transaction left it.
LEMMA KilledInv == ASSUME AccountInv, NEW c \in Command, Killed(c) PROVE AccountInv'
  <1> USE DEF AccountInv
  <1>1. TypeOK'
    BY EmptyTypes DEF Killed, Ends, TypeOK, db, Step
  <1>2. Chained'
    BY ChainedStays DEF Killed, db
  <1>3. ASSUME NEW d \in Command
        PROVE  RunningOf(d)' /\ SnapshotOf(d)' /\ MadeOf(d)'
    <2>1. CASE d = c
      BY <2>1, EndedHoldsNothing DEF Killed, Ends, TypeOK
    <2>2. CASE d # c
      BY <2>2, OthersStay DEF Killed, Ends, TypeOK, db
    <2> QED
      BY <2>1, <2>2
  <1> QED
    BY <1>1, <1>2, <1>3

\* A run starts at a day up to its target, or has nothing to run.
LEMMA StartRunInv == ASSUME AccountInv, NEW c \in Command, StartRun(c) PROVE AccountInv'
  <1> USE DEF AccountInv
  <1> DEFINE first == FirstToRun
  <1>1. first \in 1..MaxDay + 1
    BY ConstantsOK DEF FirstToRun, TypeOK, Account, Days
  <1>2. OutcomeOf(account, "up to date") \in Outcome
    BY DEF OutcomeOf, Outcome
  <1>3. /\ job'[c] = [NoJob EXCEPT !.kind = "run", !.strategy = config, !.target = today,
                          !.next = first, !.opening = (account = NoAccount),
                          !.outcome = IF first > today THEN OutcomeOf(account, "up to date")
                                      ELSE "none"]
        /\ pc'[c] = IF first > today THEN "finish" ELSE "fetch"
    BY DEF StartRun, TypeOK
  <1>4. job'[c] \in Job
    <2>1. first \in 0..MaxDay + 1 /\ today \in 0..MaxDay /\ config \in Strategies \union {None}
      BY <1>1, ConstantsOK DEF TypeOK, Days
    <2>2. (IF first > today THEN OutcomeOf(account, "up to date") ELSE "none")
             \in Outcome \union {"none"}
      BY <1>2
    <2> HIDE DEF first
    <2> QED
      BY <1>3, <2>1, <2>2, EmptyTypes DEF Job
  <1>5. TypeOK'
    BY <1>3, <1>4 DEF StartRun, TypeOK, db, Step
  <1>6. Chained'
    BY ChainedStays DEF StartRun, db
  <1>7. ASSUME NEW d \in Command
        PROVE  RunningOf(d)' /\ SnapshotOf(d)' /\ MadeOf(d)'
    <2>1. CASE d = c
      <3>1. /\ job'[c].kind = "run" /\ job'[c].strategy = config
            /\ job'[c].target = today /\ job'[c].next = first
            /\ first > today => job'[c].outcome = OutcomeOf(account, "up to date")
        BY <1>3 DEF NoJob
      <3>2. OutcomeOf(account, "up to date") # "stopped"
        BY DEF OutcomeOf
      <3>3. config \in Strategies /\ today \in Days /\ today \in Nat /\ first \in Nat
        BY <1>1, ConstantsOK DEF TypeOK, Days
      <3>4. RunningOf(c)'
        <4>1. CASE first > today
          BY <1>1, <1>2, <1>3, <3>1, <3>2, <3>3, <4>1 DEF RunningOf
        <4>2. CASE ~(first > today)
          <5>1. pc'[c] = "fetch" /\ first <= today
            BY <1>3, <3>3, <4>2
          <5> HIDE DEF first
          <5> QED
            BY <1>1, <3>1, <3>3, <5>1 DEF RunningOf
        <4> QED
          BY <4>1, <4>2
      <3> QED
        BY <1>3, <2>1, <3>4 DEF SnapshotOf, MadeOf
    <2>2. CASE d # c
      BY <2>2, OthersStay DEF StartRun, TypeOK, db
    <2> QED
      BY <2>1, <2>2
  <1> QED
    BY <1>5, <1>6, <1>7

\* What Stops leaves behind: the run is about to write that it stopped.
LEMMA StopsInv ==
    ASSUME AccountInv, NEW c \in Command, pc[c] \in {"fetch", "read"},
           job[c].next <= job[c].target, Stops(c), UNCHANGED <<config, today, db>>
    PROVE  AccountInv'
  <1> USE DEF AccountInv
  <1>1. job'[c] = [job[c] EXCEPT !.outcome = "stopped"] /\ pc'[c] = "finish"
    BY DEF Stops, TypeOK
  <1>2. job'[c] \in Job
    BY <1>1 DEF TypeOK, Job, Outcome
  <1>3. TypeOK'
    BY <1>2 DEF Stops, TypeOK, db, Step
  <1>4. Chained'
    BY ChainedStays DEF db
  <1>5. ASSUME NEW d \in Command
        PROVE  RunningOf(d)' /\ SnapshotOf(d)' /\ MadeOf(d)'
    <2>1. CASE d = c
      <3>1. RunningOf(c)'
        BY <1>1 DEF RunningOf, TypeOK, Job, Outcome
      <3> QED
        BY <1>1, <2>1, <3>1 DEF SnapshotOf, MadeOf
    <2>2. CASE d # c
      BY <2>2, OthersStay DEF Stops, TypeOK, db
    <2> QED
      BY <2>1, <2>2
  <1> QED
    BY <1>3, <1>4, <1>5

\* A run whose data came goes on to its first day, still within its target.
LEMMA FetchInv == ASSUME AccountInv, NEW c \in Command, Fetch(c) PROVE AccountInv'
  <1> USE DEF AccountInv
  <1>1. CASE Stops(c)
    BY <1>1, StopsInv DEF Fetch, RunningOf
  <1>2. CASE pc' = [pc EXCEPT ![c] = "read"] /\ job' = job
    <2>1. TypeOK'
      BY <1>2 DEF Fetch, TypeOK, db, Step
    <2>2. Chained'
      BY ChainedStays DEF Fetch, db
    <2>3. ASSUME NEW d \in Command
          PROVE  RunningOf(d)' /\ SnapshotOf(d)' /\ MadeOf(d)'
      <3>1. CASE d = c
        BY <1>2, <3>1 DEF Fetch, TypeOK, RunningOf, SnapshotOf, MadeOf
      <3>2. CASE d # c
        BY <1>2, <3>2, OthersStay DEF Fetch, TypeOK, db
      <3> QED
        BY <3>1, <3>2
    <2> QED
      BY <2>1, <2>2, <2>3
  <1> QED
    BY <1>1, <1>2 DEF Fetch

\* A job keeps to its type when its next day is set.
LEMMA NextSet ==
    ASSUME NEW j \in Job, NEW n \in 0..MaxDay + 1
    PROVE  [j EXCEPT !.next = n] \in Job
  BY DEF Job

\* A run skips a day already saved, or holds the row it read and the day made of it.
LEMMA RunOneInv == ASSUME AccountInv, NEW c \in Command, RunOne(c) PROVE AccountInv'
  <1> USE DEF AccountInv
  <1> DEFINE day == job[c].next
  <1>1. /\ pc[c] = "read" /\ job[c].kind = "run" /\ job[c].strategy \in Strategies
        /\ day \in Days /\ day <= job[c].target /\ job[c].target \in Days
    BY ConstantsOK DEF RunOne, RunningOf, Days
  <1>2. Chained'
    BY ChainedStays DEF RunOne, db
  <1>3. CASE AlreadyRun(day) /\ job' = [job EXCEPT ![c].next = DayAfter(day)] /\ pc' = pc
    <2>1. job'[c] = [job[c] EXCEPT !.next = day + 1]
      BY <1>3 DEF TypeOK, DayAfter
    <2>2. day + 1 \in 1..MaxDay + 1
      BY <1>1, ConstantsOK DEF Days
    <2>3. job'[c] \in Job
      <3>1. day + 1 \in 0..MaxDay + 1 /\ job[c] \in Job
        BY <2>2 DEF TypeOK
      <3> HIDE DEF day
      <3> QED
        BY <2>1, <3>1, NextSet
    <2>4. TypeOK'
      BY <1>3, <2>3 DEF RunOne, TypeOK, db
    <2>5. ASSUME NEW d \in Command
          PROVE  RunningOf(d)' /\ SnapshotOf(d)' /\ MadeOf(d)'
      <3>1. CASE d = c
        <4>1. /\ job'[c].kind = "run" /\ job'[c].strategy = job[c].strategy
              /\ job'[c].target = job[c].target /\ job'[c].next = day + 1
              /\ pc'[c] = "read"
          BY <1>1, <1>3, <2>1 DEF TypeOK, Job
        <4>2. RunningOf(c)'
          BY <1>1, <2>2, <4>1 DEF RunningOf
        <4> QED
          BY <3>1, <4>1, <4>2 DEF SnapshotOf, MadeOf
      <3>2. CASE d # c
        BY <1>3, <3>2, OthersStay DEF RunOne, TypeOK, db
      <3> QED
        BY <3>1, <3>2
    <2> QED
      BY <1>2, <2>4, <2>5
  <1>4. CASE Stops(c)
    BY <1>1, <1>4, StopsInv DEF RunOne
  <1>5. ASSUME NEW deep \in BOOLEAN, NEW fell \in BOOLEAN, ~AlreadyRun(day),
               job' = [job EXCEPT
                         ![c].seen = account,
                         ![c].made = DayRun(account, day, job[c].strategy, deep, fell)],
               pc' = [pc EXCEPT ![c] = "save"]
        PROVE  AccountInv'
    <2> DEFINE made == DayRun(account, day, job[c].strategy, deep, fell)
    <2>1. account \in Account /\ made \in Account
      BY <1>1, DayRunType DEF TypeOK
    <2>2. /\ job'[c] = [job[c] EXCEPT !.seen = account, !.made = made]
          /\ pc'[c] = "save"
      BY <1>5 DEF TypeOK
    <2>3. job'[c] \in Job
      <3>1. job[c] \in Job
        BY DEF TypeOK
      <3> HIDE DEF made
      <3> QED
        BY <2>1, <2>2, <3>1 DEF Job
    <2>4. TypeOK'
      BY <1>5, <2>3 DEF RunOne, TypeOK, db, Step
    <2>5. /\ job'[c].seen = account /\ job'[c].made = made
          /\ job'[c].kind = "run" /\ job'[c].strategy = job[c].strategy
          /\ job'[c].target = job[c].target /\ job'[c].next = day
      BY <1>1, <2>2 DEF TypeOK, Job
    <2>6. RunningOf(c)'
      BY <1>1, <2>2, <2>5, ConstantsOK DEF RunningOf, Days
    <2>7. SnapshotOf(c)'
      BY <2>1, <2>2, <2>5 DEF SnapshotOf, Account, Chained, PastTheLimitIsHalted, RunOne, db, Halted
    <2>8. MadeOf(c)'
      <3>1. account.last < day
        BY <1>1, <1>5, <2>1, ConstantsOK DEF AlreadyRun, Account, Days
      <3> QED
        BY <2>2, <2>5, <3>1 DEF MadeOf
    <2>9. ASSUME NEW d \in Command, d # c
          PROVE  RunningOf(d)' /\ SnapshotOf(d)' /\ MadeOf(d)'
      BY <1>5, <2>9, OthersStay DEF RunOne, TypeOK, db
    <2> QED
      BY <1>2, <2>4, <2>6, <2>7, <2>8, <2>9
  <1> QED
    BY <1>3, <1>4, <1>5 DEF RunOne

\* Setting the outcome of a job sets nothing else of it.
OnlyOutcomeSet(new, old, outcome) ==
    /\ new.kind = old.kind /\ new.strategy = old.strategy
    /\ new.target = old.target /\ new.next = old.next
    /\ new.outcome = outcome

\* A job keeps to its type, and to the rest of itself, when its outcome is set.
LEMMA OutcomeSet ==
    ASSUME NEW j \in Job, NEW o \in Outcome
    PROVE  /\ [j EXCEPT !.outcome = o] \in Job
           /\ OnlyOutcomeSet([j EXCEPT !.outcome = o], j, o)
  BY DEF Job, OnlyOutcomeSet

\* A run past its last day holds an outcome its row can be written with.
LEMMA CloseRunInv == ASSUME AccountInv, NEW c \in Command, CloseRun(c) PROVE AccountInv'
  <1> USE DEF AccountInv
  <1> DEFINE outcome == OutcomeOf(account, IF job[c].ran = {} THEN "up to date" ELSE "ran")
  <1>1. outcome \in Outcome /\ outcome # "stopped"
    BY DEF OutcomeOf, Outcome
  <1>2. job'[c] = [job[c] EXCEPT !.outcome = outcome] /\ pc'[c] = "finish"
    BY DEF CloseRun, TypeOK
  <1> HIDE DEF outcome
  <1>3. job'[c] \in Job /\ OnlyOutcomeSet(job'[c], job[c], outcome)
    BY <1>1, <1>2, OutcomeSet DEF TypeOK
  <1>4. TypeOK'
    BY <1>3 DEF CloseRun, TypeOK, db, Step
  <1>5. Chained'
    BY ChainedStays DEF CloseRun, db
  <1>6. ASSUME NEW d \in Command
        PROVE  RunningOf(d)' /\ SnapshotOf(d)' /\ MadeOf(d)'
    <2>1. CASE d = c
      <3>1. /\ job'[c].kind = job[c].kind /\ job'[c].strategy = job[c].strategy
            /\ job'[c].target = job[c].target /\ job'[c].next = job[c].next
            /\ job'[c].outcome = outcome
        BY <1>3 DEF OnlyOutcomeSet
      <3>2. RunningOf(c)
        OBVIOUS
      <3>3. RunningOf(c)'
        BY <1>1, <1>2, <3>1, <3>2 DEF CloseRun, RunningOf
      <3> QED
        BY <1>2, <2>1, <3>3 DEF SnapshotOf, MadeOf
    <2>2. CASE d # c
      BY <2>2, OthersStay DEF CloseRun, TypeOK, db
    <2> QED
      BY <2>1, <2>2
  <1> QED
    BY <1>4, <1>5, <1>6

\* A resume or a switch that asks holds the account as it reads it, and a row
\* that differs from it only in what the operator is asked to change.
LEMMA AsksInv ==
    ASSUME AccountInv, NEW c \in Command, NEW kind \in {"resume", "switch"}, NEW made \in Account,
           account.last # NoDay, Asks(c, kind, made),
           \/ /\ kind = "resume" /\ ResumeAllowed(account)
              /\ made = [account EXCEPT !.halt = NoDay]
           \/ /\ kind = "switch" /\ ~Halted(account) /\ made.strategy \in Strategies
              /\ made = [account EXCEPT !.strategy = made.strategy, !.memory = None]
    PROVE  AccountInv'
  <1> USE DEF AccountInv
  <1>1. /\ job'[c] = [NoJob EXCEPT !.kind = kind, !.seen = account, !.made = made]
        /\ pc'[c] = "confirm"
    BY DEF Asks, TypeOK
  <1>2. job'[c] \in Job
    BY <1>1, EmptyTypes DEF TypeOK, Job
  <1>3. TypeOK'
    BY <1>2 DEF Asks, TypeOK, db, Step
  <1>4. Chained'
    BY ChainedStays DEF Asks, db
  <1>5. ASSUME NEW d \in Command
        PROVE  RunningOf(d)' /\ SnapshotOf(d)' /\ MadeOf(d)'
    <2>1. CASE d = c
      <3>1. job'[c].kind = kind /\ job'[c].seen = account /\ job'[c].made = made
        BY <1>1 DEF NoJob
      <3>2. account.last \in Nat
        BY ConstantsOK DEF TypeOK, Account
      <3>3. SnapshotOf(c)'
        BY <1>1, <3>1, <3>2 DEF SnapshotOf, Asks, db, Chained, PastTheLimitIsHalted, Halted
      <3>4. MadeOf(c)'
        BY <1>1, <3>1 DEF MadeOf, ResumeAllowed, Halted
      <3> QED
        BY <1>1, <2>1, <3>3, <3>4 DEF RunningOf
    <2>2. CASE d # c
      BY <2>2, OthersStay DEF Asks, TypeOK, db
    <2> QED
      BY <2>1, <2>2
  <1> QED
    BY <1>3, <1>4, <1>5

\* A resume waits with the halted row it read, its drawdown below the limit.
LEMMA AskResumeInv == ASSUME AccountInv, NEW c \in Command, AskResume(c) PROVE AccountInv'
  <1> DEFINE made == [account EXCEPT !.halt = NoDay]
  <1>1. made \in Account /\ account.last # NoDay
    BY ConstantsOK DEF AccountInv, TypeOK, Account, Chained, AskResume, NoDay
  <1> QED
    BY <1>1, AsksInv DEF AskResume

\* A switch waits with the row it read, not halted, and the new strategy.
LEMMA AskSwitchInv == ASSUME AccountInv, NEW c \in Command, AskSwitch(c) PROVE AccountInv'
  <1> DEFINE made == [account EXCEPT !.strategy = config, !.memory = None]
  <1>1. made \in Account /\ account.last # NoDay /\ made.strategy = config /\ config \in Strategies
    BY DEF AccountInv, TypeOK, Account, Chained, AskSwitch
  <1>2. made = [account EXCEPT !.strategy = made.strategy, !.memory = None]
    BY <1>1
  <1> QED
    BY <1>1, <1>2, AsksInv DEF AskSwitch

\* The row of a finished run changes neither the account nor another command.
LEMMA FinishRunInv == ASSUME AccountInv, NEW c \in Command, FinishRun(c) PROVE AccountInv'
  <1> USE DEF AccountInv
  <1> DEFINE row == [target |-> job[c].target, days |-> job[c].ran, outcome |-> job[c].outcome]
             line == [key |-> "stopped", about |-> job[c].next]
  <1>1. row \in RunRow
    BY DEF FinishRun, TypeOK, RunningOf, Job, RunRow
  <1>2. job[c].outcome = "stopped" => line \in AuditLine
    <2>1. job[c].outcome = "stopped" => job[c].next \in Days
      BY ConstantsOK DEF FinishRun, RunningOf, Days
    <2> QED
      BY <2>1 DEF AuditLine
  <1>3. TypeOK'
    BY <1>1, <1>2, EmptyTypes DEF FinishRun, Ends, TypeOK, Step
  <1>4. Chained'
    BY ChainedStays DEF FinishRun
  <1>5. ASSUME NEW d \in Command
        PROVE  RunningOf(d)' /\ SnapshotOf(d)' /\ MadeOf(d)'
    <2>1. CASE d = c
      BY <2>1, EndedHoldsNothing DEF FinishRun, Ends, TypeOK
    <2>2. CASE d # c
      BY <2>2, OthersStay DEF FinishRun, Ends, TypeOK
    <2> QED
      BY <2>1, <2>2
  <1> QED
    BY <1>3, <1>4, <1>5

-----------------------------------------------------------------------------
(* The steps that save.                                                    *)

\* What a command about to save holds: rows of their types, and the row to be
\* saved for a day is that day run from the row read.
LEMMA SaveDayHolds ==
    ASSUME AccountInv, NEW c \in Command, SaveDay(c)
    PROVE  LET seen == job[c].seen
               made == job[c].made
           IN /\ seen \in Account /\ made \in Account
              /\ job[c].next \in Days /\ job[c].next <= job[c].target
              /\ job[c].target \in Days /\ job[c].strategy \in Strategies
              /\ made.last = job[c].next
              /\ seen.last < made.last
              /\ made.strategy \in Strategies
              /\ made.booked = seen.booked \union {made.last}
              /\ made.deep => Halted(made)
              /\ Halted(seen) => made.halt = seen.halt
              /\ made.halt \in {seen.halt, made.last, NoDay}
  <1> DEFINE seen == job[c].seen
             made == job[c].made
  <1>1. seen \in Account /\ made \in Account
    BY DEF AccountInv, TypeOK, Job
  <1>2. /\ job[c].next \in Days /\ job[c].next <= job[c].target
        /\ job[c].target \in Days /\ job[c].strategy \in Strategies
    BY ConstantsOK DEF AccountInv, SaveDay, RunningOf, Days
  <1>3. PICK deep, fell \in BOOLEAN :
          made = DayRun(seen, job[c].next, job[c].strategy, deep, fell)
    BY DEF AccountInv, SaveDay, MadeOf
  <1>4. seen.last < job[c].next
    BY DEF AccountInv, SaveDay, MadeOf
  <1> HIDE DEF seen, made
  <1>5. /\ made.last = job[c].next
        /\ made.strategy \in Strategies
        /\ made.booked = seen.booked \union {job[c].next}
        /\ made.deep => Halted(made)
        /\ Halted(seen) => made.halt = seen.halt
        /\ made.halt \in {seen.halt, job[c].next, NoDay}
    BY <1>1, <1>2, <1>3, DayRunType
  <1> QED
    BY <1>1, <1>2, <1>4, <1>5 DEF seen, made

\* The row an operator's change saves differs from the row read only in a halt
\* lifted or a strategy switched, and is never past the limit unhalted.
LEMMA ConfirmedHolds ==
    ASSUME AccountInv, NEW c \in Command, Confirmed(c)
    PROVE  LET seen == job[c].seen
               made == job[c].made
           IN /\ seen \in Account /\ made \in Account
              /\ seen.last # NoDay /\ made.last = seen.last
              /\ made.booked = seen.booked /\ made.deep = seen.deep
              /\ ~Halted(made) /\ ~made.deep
              /\ job[c].kind \in {"resume", "switch"}
              /\ job[c].kind = "resume" <=> Halted(seen)
              /\ made.strategy \in Strategies
  <1> DEFINE seen == job[c].seen
             made == job[c].made
  <1>1. seen \in Account /\ made \in Account
    BY DEF AccountInv, TypeOK, Job
  <1>2. seen.last # NoDay /\ (seen.deep => Halted(seen)) /\ seen.strategy \in Strategies
    BY DEF AccountInv, Confirmed, MadeOf, SnapshotOf
  <1>3. CASE /\ job[c].kind = "resume"
             /\ ResumeAllowed(seen)
             /\ made = [seen EXCEPT !.halt = NoDay]
    BY <1>1, <1>2, <1>3 DEF ResumeAllowed, Halted, Account
  <1>4. CASE /\ job[c].kind = "switch"
             /\ ~Halted(seen)
             /\ made.strategy \in Strategies
             /\ made = [seen EXCEPT !.strategy = made.strategy, !.memory = None]
    BY <1>1, <1>2, <1>4 DEF Halted, Account
  <1> QED
    BY <1>1, <1>3, <1>4 DEF AccountInv, Confirmed, MadeOf

\* Saving a day, or finding it overtaken, keeps every other command's row behind
\* the account or equal to it.
LEMMA SaveDayInv == ASSUME AccountInv, NEW c \in Command, SaveDay(c) PROVE AccountInv'
  <1> DEFINE seen == job[c].seen
             made == job[c].made
             line == [day |-> made.last, after |-> seen.last]
  <1>1. /\ seen \in Account /\ made \in Account
        /\ job[c].next \in Days /\ job[c].next <= job[c].target
        /\ job[c].target \in Days /\ job[c].strategy \in Strategies
        /\ made.last = job[c].next /\ seen.last < made.last
        /\ made.strategy \in Strategies
        /\ made.booked = seen.booked \union {made.last}
        /\ made.deep => Halted(made)
        /\ made.halt \in {seen.halt, made.last, NoDay}
    BY SaveDayHolds
  <1>2. /\ job'[c] = [job[c] EXCEPT !.next = made.last + 1, !.seen = NoAccount,
                                    !.made = NoAccount, !.ran = Credited(c)]
        /\ pc'[c] = "read"
    BY DEF SaveDay, AccountInv, TypeOK, DayAfter
  <1>3. job'[c] \in Job /\ job'[c].kind = "run" /\ job'[c].strategy = job[c].strategy
        /\ job'[c].target = job[c].target /\ job'[c].next = made.last + 1
    <2>1. made.last + 1 \in 0..MaxDay + 1 /\ Credited(c) \in SUBSET Days
      BY <1>1, ConstantsOK DEF Credited, AccountInv, TypeOK, Job, Days
    <2>2. job[c] \in Job /\ job[c].kind = "run"
      BY DEF SaveDay, AccountInv, TypeOK
    <2> HIDE DEF made, seen
    <2>3. job'[c] \in Job
      BY <1>2, <2>1, <2>2, EmptyTypes DEF Job
    <2> QED
      BY <1>2, <2>2, <2>3 DEF Job
  <1>4. RunningOf(c)' /\ SnapshotOf(c)' /\ MadeOf(c)'
    <2>1. made.last + 1 \in 1..MaxDay + 1
      BY <1>1, ConstantsOK DEF Days
    <2> QED
      BY <1>1, <1>2, <1>3, <2>1 DEF RunningOf, SnapshotOf, MadeOf
  <1>5. DayLines(seen, made) \subseteq AuditLine
    BY <1>1 DEF DayLines, OpeningLine, AuditLine
  <1>6. line \in Report
    BY <1>1 DEF Report, Account
  <1>7. TypeOK'
    <2>1. account' \in Account /\ reports' \subseteq Report /\ audit' \subseteq AuditLine
      <3>1. \/ account' = made /\ reports' = reports \union {line}
               /\ audit' = audit \union DayLines(seen, made)
            \/ UNCHANGED <<account, audit, reports>>
        BY DEF SaveDay, Save
      <3>2. account \in Account /\ reports \subseteq Report /\ audit \subseteq AuditLine
        BY DEF AccountInv, TypeOK
      <3> HIDE DEF made, seen, line
      <3> QED
        BY <1>1, <1>5, <1>6, <3>1, <3>2
    <2>2. pc' \in [Command -> Step] /\ job' \in [Command -> Job]
      BY <1>3 DEF SaveDay, AccountInv, TypeOK, Step
    <2> QED
      BY <2>1, <2>2 DEF SaveDay, AccountInv, TypeOK
  <1>8. CASE ~StillAfter(seen)
    <2>1. Chained'
      BY <1>8, ChainedStays DEF SaveDay, Save, AccountInv
    <2>2. ASSUME NEW d \in Command, d # c
          PROVE  RunningOf(d)' /\ SnapshotOf(d)' /\ MadeOf(d)'
      BY <1>8, <2>2, OthersStay DEF SaveDay, Save, AccountInv, TypeOK
    <2> QED
      BY <1>4, <1>7, <2>1, <2>2 DEF AccountInv
  <1>9. CASE StillAfter(seen)
    <2>1. /\ account' = made /\ reports' = reports \union {line}
          /\ seen.last = account.last /\ seen.booked = account.booked
      BY <1>9 DEF SaveDay, Save, StillAfter, AccountInv, SnapshotOf
    <2>2. /\ account.last \in Nat /\ made.last \in Nat /\ made.last # NoDay
          /\ account.last < made.last
          /\ \A d \in account.booked : d \in Nat /\ d <= account.last
      BY <1>1, <2>1, ConstantsOK
         DEF AccountInv, TypeOK, Account, Chained, EachDaySavedOnce, Days, NoDay
    <2>3. \A r \in reports : /\ r.day \in account.booked /\ r.day \in Nat /\ r.day < made.last
                            /\ r.after \in Nat /\ r.after < r.day
      BY <2>2, ConstantsOK DEF AccountInv, TypeOK, Chained, EachDaySavedOnce, DaysReported, Report,
                               EachDayRunFromTheLast
    <2>4. DaysReported' = DaysReported \union {made.last}
      <3>1. line.day = made.last
        OBVIOUS
      <3> HIDE DEF line
      <3> QED
        BY <2>1, <3>1 DEF DaysReported
    <2>5. EachDaySavedOnce'
      BY <1>1, <2>1, <2>2, <2>3, <2>4 DEF EachDaySavedOnce, AccountInv, Chained
    <2>6. EachDayRunFromTheLast'
      BY <1>1, <2>1, <2>2, <2>3, <2>4
         DEF EachDayRunFromTheLast, EachDaySavedOnce, AccountInv, Chained
    <2>7. Chained'
      BY <1>1, <2>1, <2>2, <2>5, <2>6 DEF Chained, PastTheLimitIsHalted, Halted
    <2>8. ASSUME NEW d \in Command, d # c
          PROVE  RunningOf(d)' /\ SnapshotOf(d)' /\ MadeOf(d)'
      <3>1. pc'[d] = pc[d] /\ job'[d] = job[d] /\ job[d].seen.last \in Nat
        BY <2>8, ConstantsOK DEF SaveDay, AccountInv, TypeOK, Job, Account
      <3>2. SnapshotOf(d)'
        BY <2>1, <2>2, <3>1 DEF AccountInv, SnapshotOf, Halted
      <3> QED
        BY <3>1, <3>2, HeldStays DEF AccountInv
    <2> QED
      BY <1>4, <1>7, <2>7, <2>8 DEF AccountInv
  <1> QED
    BY <1>8, <1>9

\* Saving a change keeps every other command's row within a lifted halt or a
\* switch of the account.
LEMMA ConfirmedInv == ASSUME AccountInv, NEW c \in Command, Confirmed(c) PROVE AccountInv'
  <1> DEFINE seen == job[c].seen
             made == job[c].made
  <1>1. /\ seen \in Account /\ made \in Account
        /\ seen.last # NoDay /\ made.last = seen.last
        /\ made.booked = seen.booked /\ made.deep = seen.deep
        /\ ~Halted(made) /\ ~made.deep
        /\ job[c].kind \in {"resume", "switch"}
        /\ job[c].kind = "resume" <=> Halted(seen)
        /\ made.strategy \in Strategies
    BY ConfirmedHolds
  <1>2. ChangeLine(c) \in AuditLine
    <2>1. CASE job[c].kind = "resume"
      <3>1. seen.halt \in Days
        BY <1>1, <2>1, ConstantsOK DEF Account, Halted, NoDay, Days
      <3> QED
        BY <2>1, <3>1 DEF ChangeLine, AuditLine
    <2>2. CASE job[c].kind = "switch"
      BY <1>1, <2>2 DEF ChangeLine, AuditLine
    <2> QED
      BY <1>1, <2>1, <2>2
  <1>3. TypeOK'
    BY <1>1, <1>2, EmptyTypes DEF Confirmed, Save, Ends, AccountInv, TypeOK, Step
  <1>4. RunningOf(c)' /\ SnapshotOf(c)' /\ MadeOf(c)'
    BY EndedHoldsNothing DEF Confirmed, Ends, AccountInv, TypeOK
  <1>5. CASE ~StillAfter(seen)
    <2>1. Chained'
      BY <1>5, ChainedStays DEF Confirmed, Save, AccountInv
    <2>2. ASSUME NEW d \in Command, d # c
          PROVE  RunningOf(d)' /\ SnapshotOf(d)' /\ MadeOf(d)'
      BY <1>5, <2>2, OthersStay DEF Confirmed, Save, Ends, AccountInv, TypeOK
    <2> QED
      BY <1>3, <1>4, <2>1, <2>2 DEF AccountInv
  <1>6. CASE StillAfter(seen)
    <2>1. /\ account' = made /\ reports' = reports
          /\ seen.last = account.last /\ seen.booked = account.booked /\ seen.deep = account.deep
      BY <1>6 DEF Confirmed, Save, StillAfter, AccountInv, SnapshotOf
    <2>3. Chained'
      BY <1>1, <2>1 DEF AccountInv, Chained, EachDaySavedOnce, EachDayRunFromTheLast,
                              DaysReported, PastTheLimitIsHalted
    <2>4. ASSUME NEW d \in Command, d # c
          PROVE  RunningOf(d)' /\ SnapshotOf(d)' /\ MadeOf(d)'
      <3>1. pc'[d] = pc[d] /\ job'[d] = job[d]
        BY <2>4 DEF Confirmed, Ends, AccountInv, TypeOK
      <3>2. SnapshotOf(d)'
        BY <1>1, <2>1, <3>1 DEF AccountInv, SnapshotOf, Halted
      <3> QED
        BY <3>1, <3>2, HeldStays DEF AccountInv
    <2> QED
      BY <1>3, <1>4, <2>3, <2>4 DEF AccountInv
  <1> QED
    BY <1>5, <1>6

-----------------------------------------------------------------------------
(* The theorems.                                                           *)

\* Every step of the specification keeps the inductive invariant.
LEMMA NextInv == AccountInv /\ [Next]_vars => AccountInv'
  <1> SUFFICES ASSUME AccountInv, [Next]_vars PROVE AccountInv'
    OBVIOUS
  <1>1. CASE EditConfig
    BY <1>1, EditConfigInv
  <1>2. CASE DayCompletes
    BY <1>2, DayCompletesInv
  <1>3. ASSUME NEW c \in Command, CommandStep(c) PROVE AccountInv'
    BY <1>3, StartRunInv, FetchInv, RunOneInv, SaveDayInv, CloseRunInv, FinishRunInv,
       AskResumeInv, AskSwitchInv, ConfirmedInv DEF CommandStep
  <1>4. ASSUME NEW c \in Command, Killed(c) PROVE AccountInv'
    BY <1>4, KilledInv
  <1>5. CASE UNCHANGED vars
    <2>1. TypeOK'
      BY <1>5 DEF AccountInv, TypeOK, vars, db
    <2>2. Chained'
      BY <1>5, ChainedStays DEF AccountInv, vars, db
    <2>3. \A d \in Command : RunningOf(d)' /\ SnapshotOf(d)' /\ MadeOf(d)'
      BY <1>5, OthersStay DEF AccountInv, vars, db
    <2> QED
      BY <2>1, <2>2, <2>3 DEF AccountInv
  <1> QED
    BY <1>1, <1>2, <1>3, <1>4, <1>5 DEF Next

\* The account, its reports and every command in flight stay consistent, however
\* the commands of paper.py and cli.py interleave and wherever they are killed.
THEOREM AlwaysConsistent == Spec => []AccountInv
  <1>1. Init => AccountInv
    BY InitInv
  <1>2. AccountInv /\ [Next]_vars => AccountInv'
    BY NextInv
  <1> QED
    BY <1>1, <1>2, PTL DEF Spec

\* Every variable keeps to its type.
THEOREM TypeCorrect == Spec => []TypeOK
  <1>1. AccountInv => TypeOK
    BY DEF AccountInv
  <1> QED
    BY <1>1, AlwaysConsistent, PTL

\* Two runs of the same days save each of them once (state.py's head).
THEOREM EachDayOnce == Spec => []EachDaySavedOnce
  <1>1. AccountInv => EachDaySavedOnce
    BY DEF AccountInv, Chained
  <1> QED
    BY <1>1, AlwaysConsistent, PTL

\* Every report was computed from the account the report before it left.
THEOREM EachDayFromTheLast == Spec => []EachDayRunFromTheLast
  <1>1. AccountInv => EachDayRunFromTheLast
    BY DEF AccountInv, Chained
  <1> QED
    BY <1>1, AlwaysConsistent, PTL

\* An account at or past its drawdown limit is halted, though a resume may race
\* the runs that take it there.
THEOREM HaltedPastTheLimit == Spec => []PastTheLimitIsHalted
  <1>1. AccountInv => PastTheLimitIsHalted
    BY DEF AccountInv, Chained
  <1> QED
    BY <1>1, AlwaysConsistent, PTL

\* What a step does to the account: nothing; or it enters a day after the last,
\* keeping a halt; or, at the same last day, it saves an operator's change, which
\* leaves the days alone and lifts no halt but the one the operator was shown.
DayEntered ==
    /\ account'.last > account.last
    /\ account'.booked = account.booked \union {account'.last}
    /\ Halted(account) => account'.halt = account.halt

ChangeSaved(c) ==
    /\ pc[c] = "confirm" /\ pc'[c] = "done"
    /\ account'.last = account.last
    /\ account'.booked = account.booked
    /\ ~Halted(account')
    /\ Halted(account) => job[c].kind = "resume" /\ job[c].seen.halt = account.halt

\* What a saved day does to the account: nothing, or one later day with the halt kept.
LEMMA SaveDayStep ==
    ASSUME AccountInv, NEW c \in Command, SaveDay(c)
    PROVE  account' = account \/ DayEntered
  <1> DEFINE seen == job[c].seen
             made == job[c].made
  <1>1. CASE ~StillAfter(seen)
    BY <1>1 DEF SaveDay, Save
  <1>2. CASE StillAfter(seen)
    <2>1. /\ account' = made
          /\ seen.last = account.last /\ seen.booked = account.booked
          /\ Halted(account) => seen.halt = account.halt
      BY <1>2 DEF SaveDay, Save, StillAfter, AccountInv, SnapshotOf
    <2>2. /\ seen.last < made.last /\ made.booked = seen.booked \union {made.last}
          /\ Halted(seen) => made.halt = seen.halt
      BY SaveDayHolds
    <2>3. seen.last \in Nat /\ made.last \in Nat
      BY SaveDayHolds, ConstantsOK DEF Account
    <2> HIDE DEF seen, made
    <2> QED
      BY <2>1, <2>2, <2>3 DEF DayEntered, Halted
  <1> QED
    BY <1>1, <1>2

\* What a confirmed change does to the account: nothing, or a halt shown lifted, or a switch.
LEMMA ConfirmedStep ==
    ASSUME AccountInv, NEW c \in Command, Confirmed(c)
    PROVE  account' = account \/ ChangeSaved(c)
  <1> DEFINE seen == job[c].seen
             made == job[c].made
  <1>1. CASE ~StillAfter(seen)
    BY <1>1 DEF Confirmed, Save
  <1>2. CASE StillAfter(seen)
    <2>1. /\ account' = made
          /\ seen.last = account.last /\ seen.booked = account.booked
          /\ Halted(account) => seen.halt = account.halt
      BY <1>2 DEF Confirmed, Save, StillAfter, AccountInv, SnapshotOf
    <2>2. /\ made.last = seen.last /\ made.booked = seen.booked /\ ~Halted(made)
          /\ Halted(seen) => job[c].kind = "resume"
      BY ConfirmedHolds
    <2>3. pc[c] = "confirm" /\ pc'[c] = "done"
      BY DEF Confirmed, Ends, AccountInv, TypeOK
    <2> QED
      BY <2>1, <2>2, <2>3 DEF ChangeSaved, Halted
  <1> QED
    BY <1>1, <1>2

\* What any step does to the account, which the action properties and the refinement read off.
LEMMA AccountStep ==
    ASSUME AccountInv, [Next]_vars
    PROVE  account' = account \/ DayEntered \/ \E c \in Command : ChangeSaved(c)
  <1>1. ASSUME NEW c \in Command, CommandStep(c)
        PROVE  account' = account \/ DayEntered \/ ChangeSaved(c)
    <2>1. CASE SaveDay(c)
      BY <2>1, SaveDayStep
    <2>2. CASE Confirmed(c)
      BY <2>2, ConfirmedStep
    <2>3. CASE \/ StartRun(c) \/ Fetch(c) \/ RunOne(c) \/ CloseRun(c) \/ FinishRun(c)
               \/ AskResume(c) \/ AskSwitch(c)
      <3>1. CASE StartRun(c)
        BY <3>1 DEF StartRun, db
      <3>2. CASE Fetch(c)
        BY <3>2 DEF Fetch, db
      <3>3. CASE RunOne(c) \/ CloseRun(c) \/ FinishRun(c)
        BY <3>3 DEF RunOne, CloseRun, FinishRun, db
      <3>4. CASE AskResume(c) \/ AskSwitch(c)
        BY <3>4 DEF AskResume, AskSwitch, Asks, db
      <3> QED
        BY <2>3, <3>1, <3>2, <3>3, <3>4
    <2> QED
      BY <1>1, <2>1, <2>2, <2>3 DEF CommandStep
  <1>2. CASE EditConfig \/ DayCompletes \/ (\E c \in Command : Killed(c)) \/ UNCHANGED vars
    BY <1>2 DEF EditConfig, DayCompletes, Killed, vars, db
  <1> QED
    BY <1>1, <1>2 DEF Next

\* No command but the resume that was shown a halt lifts it.
THEOREM OnlyItsResumeLiftsAHalt == Spec => HaltLiftedByItsResume
  <1>1. AccountInv /\ [Next]_vars =>
          [LiftsOnlyTheHaltShown]_vars
    BY AccountStep DEF DayEntered, ChangeSaved, LiftsOnlyTheHaltShown
  <1> QED
    BY <1>1, AlwaysConsistent, PTL DEF Spec, HaltLiftedByItsResume

\* The account implements the day journal: every command's step enters one day,
\* lifts a halt, or leaves the journal alone.
THEOREM AccountIsAJournal == Spec => JournalSpec
  <1>1. Init => Journal!Init
    BY DEF Init, Journal!Init, NoAccount, Halted, NoDay
  <1>2. AccountInv /\ [Next]_vars => [Journal!Next]_(Journal!jvars)
    <2> SUFFICES ASSUME AccountInv, [Next]_vars
                 PROVE  [Journal!Next]_(Journal!jvars)
      OBVIOUS
    <2>1. account'.last \in Nat
      BY NextInv, ConstantsOK DEF AccountInv, TypeOK, Account
    <2>2. CASE account' = account
      BY <2>2 DEF Journal!jvars, Halted
    <2>3. CASE DayEntered
      BY <2>1, <2>3 DEF DayEntered, Journal!Next, Journal!RunDay, Halted
    <2>4. ASSUME NEW c \in Command, ChangeSaved(c)
          PROVE  [Journal!Next]_(Journal!jvars)
      BY <2>4 DEF ChangeSaved, Journal!Next, Journal!Resume, Journal!jvars, Halted
    <2> HIDE DEF Journal!Next, Journal!jvars
    <2>5. account' = account \/ DayEntered \/ \E c \in Command : ChangeSaved(c)
      BY AccountStep
    <2> QED
      BY <2>2, <2>3, <2>4, <2>5
  <1> QED
    BY <1>1, <1>2, AlwaysConsistent, PTL DEF Spec, JournalSpec, Journal!Spec

-----------------------------------------------------------------------------
(* The history: no day skipped, and what runs and audit tell of it. First  *)
(* runs that race the clock would leave a gap, so these theorems are about *)
(* an account whose first runs do not (OpeningRace).                       *)

\* A strategy the audit log names.
Announced(strategy) == \E k \in {"opened", "switched"} : [key |-> k, about |-> strategy] \in audit

\* The days booked have no gap, and the audit log tells the account's opening, its halt and
\* its strategy.
Told ==
    /\ account # NoAccount => account.booked = account.opened..account.last
    /\ account = NoAccount => \A s \in Strategies : [key |-> "opened", about |-> s] \notin audit
    /\ AuditExplainsTheAccount

\* While first runs are in flight the clock stands still: they are all for the same day, and
\* an account that was opened since has reached it.
OpeningOf(c) ==
    job[c].opening => job[c].target = today /\ (account # NoAccount => account.last >= today)

\* A run's next day follows one that is saved, or opens the account; so when it is done the
\* account has reached its target. Only a first run's strategy may be new.
CatchingUpOf(c) ==
    /\ pc[c] \in {"fetch", "read", "save"} =>
         /\ IF account = NoAccount THEN job[c].opening /\ job[c].next = today
                                   ELSE account.last >= job[c].next - 1
         /\ job[c].opening \/ Announced(job[c].strategy)
    /\ pc[c] = "finish" /\ job[c].outcome # "stopped" => account.last >= job[c].target

\* A row read and not yet saved over: it was opened the same day, and the audit log tells
\* its halt and its strategy. A day follows the row it was computed from.
ReadOf(c) ==
    pc[c] \in {"save", "confirm"} =>
        /\ job[c].seen.last = account.last => job[c].seen.opened = account.opened
        /\ Halted(job[c].seen) => [key |-> "halt", about |-> job[c].seen.halt] \in audit
        /\ job[c].seen # NoAccount => Announced(job[c].seen.strategy)
        /\ pc[c] = "save" => IF job[c].seen = NoAccount
                             THEN job[c].opening
                             ELSE ~job[c].opening /\ job[c].seen.last = job[c].next - 1

\* A run that says it ran, or had nothing to run, has an account that reached its target.
RowOf(c) == runs[c].outcome \notin {"none", "stopped"} => account.last >= runs[c].target

HistoryOf(c) == OpeningOf(c) /\ CatchingUpOf(c) /\ ReadOf(c) /\ RowOf(c)
HistoryInv == Told /\ \A c \in Command : HistoryOf(c)

\* A log that grows, but not by an opening, tells of an account that stands what it told.
LEMMA ToldStays ==
    ASSUME Told, UNCHANGED account, audit \subseteq audit',
           \A line \in audit' \ audit : line.key # "opened"
    PROVE  Told'
  <1>1. \A s : [key |-> "opened", about |-> s] \in audit' <=> [key |-> "opened", about |-> s] \in audit
    OBVIOUS
  <1> QED
    BY <1>1 DEF Told, AuditExplainsTheAccount, Halted

\* A command that does not move keeps its history while the account does not move.
LEMMA HistoryStays ==
    ASSUME NEW d \in Command, HistoryOf(d), UNCHANGED account, audit \subseteq audit',
           today' = today \/ ~job[d].opening, pc'[d] = pc[d], job'[d] = job[d], runs'[d] = runs[d]
    PROVE  HistoryOf(d)'
  <1>1. \A s : Announced(s) => Announced(s)'
    BY DEF Announced
  <1> QED
    BY <1>1 DEF HistoryOf, OpeningOf, CatchingUpOf, ReadOf, RowOf, Halted

\* A step of one command that leaves the account alone.
LEMMA QuietStep ==
    ASSUME AccountInv, HistoryInv, NEW c \in Command, UNCHANGED <<today, account>>, HistoryOf(c)',
           audit \subseteq audit', \A line \in audit' \ audit : line.key # "opened",
           \E p : pc' = [pc EXCEPT ![c] = p], \E j : job' = [job EXCEPT ![c] = j],
           runs' = runs \/ \E r : runs' = [runs EXCEPT ![c] = r]
    PROVE  HistoryInv'
  <1>1. Told'
    BY ToldStays DEF HistoryInv
  <1>2. ASSUME NEW d \in Command, d # c PROVE HistoryOf(d)'
    BY <1>2, HistoryStays DEF HistoryInv, AccountInv, TypeOK
  <1> QED
    BY <1>1, <1>2 DEF HistoryInv

\* A command that has ended has no history but its row.
LEMMA EndedTellsNothing ==
    ASSUME AccountInv, NEW c \in Command, Ends(c), RowOf(c)'
    PROVE  HistoryOf(c)'
  <1>1. pc'[c] = "done" /\ ~job'[c].opening
    BY DEF Ends, AccountInv, TypeOK, NoJob
  <1> QED
    BY <1>1 DEF HistoryOf, OpeningOf, CatchingUpOf, ReadOf

\* A run starts after the last day saved, with the account's strategy, or opens the account.
LEMMA StartRunTells == ASSUME AccountInv, HistoryInv, NEW c \in Command, StartRun(c) PROVE HistoryInv'
  <1> DEFINE first == FirstToRun
  <1>1. /\ job'[c] = [NoJob EXCEPT !.kind = "run", !.strategy = config, !.target = today,
                          !.next = first, !.opening = (account = NoAccount),
                          !.outcome = IF first > today THEN OutcomeOf(account, "up to date")
                                      ELSE "none"]
        /\ pc'[c] = IF first > today THEN "finish" ELSE "fetch"
    BY DEF StartRun, AccountInv, TypeOK
  <1>2. /\ job'[c].strategy = config /\ job'[c].target = today /\ job'[c].next = first
        /\ job'[c].opening = (account = NoAccount)
    BY <1>1 DEF NoJob
  <1>3. account # NoAccount => account.strategy = config
    BY DEF StartRun
  <1>4. today \in Nat /\ account.last \in Nat
    BY ConstantsOK DEF AccountInv, TypeOK, Days, Account
  <1>5. CatchingUpOf(c)'
    <2>1. account' = account /\ audit' = audit /\ today' = today
      BY DEF StartRun, db
    <2>2. CASE account = NoAccount
      <3>1. first = today /\ pc'[c] = "fetch"
        BY <1>1, <1>4, <2>2 DEF FirstToRun
      <3> HIDE DEF first
      <3> QED
        BY <1>2, <2>1, <2>2, <3>1 DEF CatchingUpOf
    <2>3. CASE account # NoAccount
      <3>1. first = account.last + 1 /\ Announced(config)
        BY <1>3, <2>3 DEF FirstToRun, HistoryInv, Told, AuditExplainsTheAccount, Announced
      <3>2. Announced(config)'
        BY <2>1, <3>1 DEF Announced, StartRun
      <3>3. pc'[c] = "fetch" \/ (pc'[c] = "finish" /\ first > today)
        BY <1>1
      <3>4. account.last >= first - 1 /\ (first > today => account.last >= today)
        BY <1>4, <3>1
      <3> HIDE DEF first
      <3>5. /\ pc'[c] \in {"fetch", "read", "save"} =>
                 account'.last >= job'[c].next - 1 /\ Announced(job[c].strategy)'
            /\ pc'[c] = "finish" => account'.last >= job'[c].target
        BY <1>2, <2>1, <3>2, <3>3, <3>4 DEF StartRun
      <3> QED
        BY <2>1, <2>3, <3>5 DEF CatchingUpOf
    <2> QED
      BY <2>2, <2>3
  <1>6. OpeningOf(c)' /\ ReadOf(c)' /\ RowOf(c)'
    <2>1. RowOf(c)'
      BY DEF HistoryInv, HistoryOf, RowOf, StartRun, db
    <2>2. ReadOf(c)'
      BY <1>1 DEF ReadOf
    <2> QED
      BY <1>2, <2>1, <2>2 DEF OpeningOf, StartRun, db
  <1>7. HistoryOf(c)'
    BY <1>5, <1>6 DEF HistoryOf
  <1>8. audit' = audit /\ runs' = runs /\ UNCHANGED <<today, account>>
    BY DEF StartRun, db
  <1> QED
    BY <1>7, <1>8, QuietStep DEF StartRun

\* What stopping leaves behind.
LEMMA StopsTells ==
    ASSUME AccountInv, HistoryInv, NEW c \in Command, Stops(c), UNCHANGED <<config, today, db>>
    PROVE  HistoryInv'
  <1>1. job'[c] = [job[c] EXCEPT !.outcome = "stopped"] /\ pc'[c] = "finish"
    BY DEF Stops, AccountInv, TypeOK
  <1>2. /\ job'[c].opening = job[c].opening /\ job'[c].target = job[c].target
        /\ job'[c].outcome = "stopped"
    BY <1>1 DEF AccountInv, TypeOK, Job
  <1>3. UNCHANGED <<today, account, audit, runs>>
    BY DEF db
  <1>4. HistoryOf(c)'
    BY <1>1, <1>2, <1>3 DEF HistoryInv, HistoryOf, OpeningOf, CatchingUpOf, ReadOf, RowOf
  <1> QED
    BY <1>3, <1>4, QuietStep DEF Stops

\* A run whose data came holds what it held.
LEMMA FetchTells == ASSUME AccountInv, HistoryInv, NEW c \in Command, Fetch(c) PROVE HistoryInv'
  <1>1. CASE Stops(c)
    BY <1>1, StopsTells DEF Fetch
  <1>2. CASE pc' = [pc EXCEPT ![c] = "read"] /\ job' = job
    <2>1. UNCHANGED <<today, account, audit, runs>> /\ pc[c] = "fetch" /\ pc'[c] = "read"
      BY <1>2 DEF Fetch, db, AccountInv, TypeOK
    <2>2. job' = [job EXCEPT ![c] = job[c]]
      BY <1>2 DEF AccountInv, TypeOK
    <2>3. HistoryOf(c)'
      BY <1>2, <2>1 DEF HistoryInv, HistoryOf, OpeningOf, CatchingUpOf, ReadOf, RowOf, Announced
    <2> QED
      BY <1>2, <2>1, <2>2, <2>3, QuietStep
  <1> QED
    BY <1>1, <1>2 DEF Fetch

\* A day skipped is saved, and a day computed follows the account's last: a first run whose
\* account was opened meanwhile computes none.
LEMMA RunOneTells == ASSUME AccountInv, HistoryInv, NEW c \in Command, RunOne(c) PROVE HistoryInv'
  <1> DEFINE day == job[c].next
  <1>1. /\ pc[c] = "read" /\ day \in Nat /\ day <= job[c].target /\ job[c].target \in Nat
        /\ account.last \in Nat /\ account \in Account /\ today \in Nat
        /\ NoAccount.last = 0 /\ day # 0
    BY EmptyTypes, ConstantsOK DEF RunOne, AccountInv, RunningOf, TypeOK, Days, Account, NoDay
  <1>2. UNCHANGED <<today, account, audit, runs>>
    BY DEF RunOne, db
  <1>3. HistoryOf(c)
    BY DEF HistoryInv
  <1>4. CASE AlreadyRun(day) /\ job' = [job EXCEPT ![c].next = DayAfter(day)] /\ pc' = pc
    <2>1. job'[c] = [job[c] EXCEPT !.next = day + 1]
      BY <1>4 DEF AccountInv, TypeOK, DayAfter
    <2>2. /\ job'[c].opening = job[c].opening /\ job'[c].target = job[c].target
          /\ job'[c].next = day + 1 /\ job'[c].strategy = job[c].strategy
      BY <2>1 DEF AccountInv, TypeOK, Job
    <2>3. account.last >= day /\ account # NoAccount /\ account.last >= (day + 1) - 1
      BY <1>1, <1>4 DEF AlreadyRun
    <2>4. pc'[c] = "read"
      BY <1>1, <1>4
    <2> HIDE DEF day
    <2>5. CatchingUpOf(c)'
      BY <1>1, <1>2, <1>3, <2>2, <2>3, <2>4 DEF HistoryOf, CatchingUpOf, Announced
    <2>6. OpeningOf(c)' /\ ReadOf(c)' /\ RowOf(c)'
      BY <1>2, <1>3, <2>2, <2>4 DEF HistoryOf, OpeningOf, ReadOf, RowOf
    <2>7. HistoryOf(c)'
      BY <2>5, <2>6 DEF HistoryOf
    <2>8. pc' = [pc EXCEPT ![c] = pc[c]] /\ \E j : job' = [job EXCEPT ![c] = j]
      BY <1>4 DEF AccountInv, TypeOK
    <2> QED
      BY <1>2, <2>7, <2>8, QuietStep
  <1>5. CASE Stops(c)
    BY <1>5, StopsTells DEF RunOne
  <1>6. ASSUME NEW deep \in BOOLEAN, NEW fell \in BOOLEAN, ~AlreadyRun(day),
               job' = [job EXCEPT
                         ![c].seen = account,
                         ![c].made = DayRun(account, day, job[c].strategy, deep, fell)],
               pc' = [pc EXCEPT ![c] = "save"]
        PROVE  HistoryInv'
    <2> DEFINE made == DayRun(account, day, job[c].strategy, deep, fell)
    <2>1. job'[c] = [job[c] EXCEPT !.seen = account, !.made = made] /\ pc'[c] = "save"
      BY <1>6 DEF AccountInv, TypeOK
    <2> HIDE DEF made
    <2>2. /\ job'[c].opening = job[c].opening /\ job'[c].target = job[c].target
          /\ job'[c].next = day /\ job'[c].strategy = job[c].strategy /\ job'[c].seen = account
      BY <2>1 DEF AccountInv, TypeOK, Job
    <2>3. account.last < day
      BY <1>1, <1>6 DEF AlreadyRun
    <2> HIDE DEF day
    <2>4. CatchingUpOf(c)'
      BY <1>1, <1>2, <1>3, <2>1, <2>2 DEF HistoryOf, CatchingUpOf, Announced
    <2>5. OpeningOf(c)' /\ RowOf(c)'
      BY <1>2, <1>3, <2>2 DEF HistoryOf, OpeningOf, RowOf
    <2>6. ReadOf(c)'
      <3>1. /\ Halted(account) => [key |-> "halt", about |-> account.halt] \in audit
            /\ account # NoAccount => Announced(account.strategy)
        BY DEF HistoryInv, Told, AuditExplainsTheAccount, Announced, NoAccount, Halted
      <3>2. CASE account = NoAccount
        <4>1. job[c].opening /\ job'[c].opening
          BY <1>1, <1>3, <2>2, <3>2 DEF HistoryOf, CatchingUpOf
        <4> QED
          BY <1>2, <2>1, <2>2, <3>1, <3>2, <4>1 DEF ReadOf, Announced, Halted
      <3>3. CASE account # NoAccount
        <4>1. account.last >= day - 1 /\ ~job[c].opening
          BY <1>1, <1>3, <2>3, <3>3 DEF HistoryOf, CatchingUpOf, OpeningOf, day
        <4>2. account.last = day - 1
          BY <1>1, <2>3, <4>1 DEF day
        <4> QED
          BY <1>2, <2>1, <2>2, <3>1, <3>3, <4>1, <4>2 DEF ReadOf, Announced, Halted
      <3> QED
        BY <3>2, <3>3
    <2>7. HistoryOf(c)'
      BY <2>4, <2>5, <2>6 DEF HistoryOf
    <2>8. (\E p : pc' = [pc EXCEPT ![c] = p]) /\ \E j : job' = [job EXCEPT ![c] = j]
      BY <1>6
    <2> QED
      BY <1>2, <2>7, <2>8, QuietStep
  <1> QED
    BY <1>4, <1>5, <1>6 DEF RunOne

\* A run past its last day has an account that reached it.
LEMMA CloseRunTells == ASSUME AccountInv, HistoryInv, NEW c \in Command, CloseRun(c) PROVE HistoryInv'
  <1> DEFINE outcome == OutcomeOf(account, IF job[c].ran = {} THEN "up to date" ELSE "ran")
  <1>1. job'[c] = [job[c] EXCEPT !.outcome = outcome] /\ pc'[c] = "finish"
    BY DEF CloseRun, AccountInv, TypeOK
  <1> HIDE DEF outcome
  <1>2. job'[c].opening = job[c].opening /\ job'[c].target = job[c].target
    BY <1>1 DEF AccountInv, TypeOK, Job
  <1>3. UNCHANGED <<today, account, audit, runs>>
    BY DEF CloseRun, db
  <1>4. account.last >= job[c].target
    <2>1. /\ job[c].next \in Nat /\ job[c].target \in Nat /\ account.last \in Nat
          /\ job[c].next > job[c].target /\ pc[c] = "read"
      <3>1. job[c].next > job[c].target /\ pc[c] = "read"
        BY DEF CloseRun
      <3>2. job[c].next \in Nat /\ job[c].target \in Nat
        BY <3>1, ConstantsOK DEF AccountInv, RunningOf, Days
      <3>3. account.last \in Nat
        BY ConstantsOK DEF AccountInv, TypeOK, Account
      <3> QED
        BY <3>1, <3>2, <3>3
    <2>2. account # NoAccount
      BY <2>1 DEF HistoryInv, HistoryOf, CatchingUpOf, OpeningOf
    <2> QED
      BY <2>1, <2>2 DEF HistoryInv, HistoryOf, CatchingUpOf
  <1>5. HistoryOf(c)'
    BY <1>1, <1>2, <1>3, <1>4 DEF HistoryInv, HistoryOf, OpeningOf, CatchingUpOf, ReadOf, RowOf
  <1>6. (\E p : pc' = [pc EXCEPT ![c] = p]) /\ \E j : job' = [job EXCEPT ![c] = j]
    BY DEF CloseRun
  <1> QED
    BY <1>3, <1>5, <1>6, QuietStep

\* The row a run writes says what the run held.
LEMMA FinishRunTells == ASSUME AccountInv, HistoryInv, NEW c \in Command, FinishRun(c) PROVE HistoryInv'
  <1>1. runs'[c].outcome = job[c].outcome /\ runs'[c].target = job[c].target
    BY DEF FinishRun, AccountInv, TypeOK
  <1>2. RowOf(c)'
    BY <1>1 DEF FinishRun, HistoryInv, HistoryOf, CatchingUpOf, RowOf
  <1>3. HistoryOf(c)'
    BY <1>2, EndedTellsNothing DEF FinishRun
  <1>4. audit \subseteq audit' /\ \A line \in audit' \ audit : line.key # "opened"
    BY DEF FinishRun
  <1>5. (\E p : pc' = [pc EXCEPT ![c] = p]) /\ \E j : job' = [job EXCEPT ![c] = j]
    BY DEF FinishRun, Ends
  <1>6. \E r : runs' = [runs EXCEPT ![c] = r]
    BY DEF FinishRun
  <1>7. UNCHANGED <<today, account>>
    BY DEF FinishRun
  <1> QED
    BY <1>3, <1>4, <1>5, <1>6, <1>7, QuietStep

\* A command that is killed tells nothing more.
LEMMA KilledTells == ASSUME AccountInv, HistoryInv, NEW c \in Command, Killed(c) PROVE HistoryInv'
  <1>1. UNCHANGED <<today, account, audit, runs>> /\ Ends(c)
    BY DEF Killed, db
  <1>2. HistoryOf(c)'
    BY <1>1, EndedTellsNothing DEF HistoryInv, HistoryOf, RowOf
  <1> QED
    BY <1>1, <1>2, QuietStep DEF Ends

\* A resume or a switch that asks holds a row the log tells of.
LEMMA AsksTells ==
    ASSUME AccountInv, HistoryInv, NEW c \in Command, account # NoAccount, NEW kind, NEW made,
           Asks(c, kind, made)
    PROVE  HistoryInv'
  <1>1. /\ job'[c] = [NoJob EXCEPT !.kind = kind, !.seen = account, !.made = made]
        /\ pc'[c] = "confirm"
    BY DEF Asks, AccountInv, TypeOK
  <1>2. job'[c].seen = account /\ job'[c].opening = FALSE
    BY <1>1 DEF NoJob
  <1>3. UNCHANGED <<today, account, audit, runs>>
    BY DEF Asks, db
  <1>4. ReadOf(c)'
    BY <1>1, <1>2, <1>3
       DEF HistoryInv, Told, AuditExplainsTheAccount, ReadOf, Announced, Halted
  <1>5. HistoryOf(c)'
    BY <1>1, <1>2, <1>3, <1>4 DEF HistoryInv, HistoryOf, OpeningOf, CatchingUpOf, RowOf
  <1>6. (\E p : pc' = [pc EXCEPT ![c] = p]) /\ \E j : job' = [job EXCEPT ![c] = j]
    BY DEF Asks
  <1> QED
    BY <1>3, <1>5, <1>6, QuietStep

\* A day saved: the history goes on by one day, and every other first run has been overtaken.
LEMMA SaveDayTells ==
    ASSUME AccountInv, HistoryInv, NEW c \in Command, SaveDay(c)
    PROVE  HistoryInv'
  <1> DEFINE seen == job[c].seen
             made == job[c].made
             next == job[c].next
  <1>1. /\ seen \in Account /\ made \in Account /\ next \in Days
        /\ made.last = next /\ seen.last < made.last
        /\ made.booked = seen.booked \union {made.last}
        /\ made.halt \in {seen.halt, made.last, NoDay}
    BY SaveDayHolds
  <1>2. /\ pc[c] = "save" /\ pc'[c] = "read" /\ UNCHANGED <<today, runs>>
        /\ job'[c] = [job[c] EXCEPT !.next = next + 1, !.seen = NoAccount,
                                    !.made = NoAccount, !.ran = Credited(c)]
    BY <1>1 DEF SaveDay, AccountInv, TypeOK, DayAfter
  <1>3. /\ job'[c].opening = job[c].opening /\ job'[c].target = job[c].target
        /\ job'[c].next = next + 1 /\ job'[c].strategy = job[c].strategy
    BY <1>2 DEF AccountInv, TypeOK, Job
  <1>4. /\ next \in Nat /\ next # 0 /\ seen.last \in Nat /\ account.last \in Nat /\ account \in Account
        /\ today \in Nat
    BY <1>1, ConstantsOK DEF Days, Account, AccountInv, TypeOK
  <1>5. /\ HistoryOf(c) /\ seen.last <= account.last
        /\ seen.last = account.last => seen.booked = account.booked /\ (seen.last = NoDay => seen = NoAccount)
    BY <1>2 DEF HistoryInv, AccountInv, SnapshotOf
  <1>6. \E deep, fell \in BOOLEAN : made = DayRun(seen, next, job[c].strategy, deep, fell)
    BY <1>2 DEF AccountInv, MadeOf
  <1>7. made.strategy = job[c].strategy /\ made.opened = IF seen = NoAccount THEN next ELSE seen.opened
    BY <1>6 DEF DayRun
  <1> HIDE DEF made, seen, next
  <1>8. CASE ~StillAfter(seen)
    <2>1. UNCHANGED <<account, audit>>
      BY <1>8 DEF SaveDay, Save, seen
    <2>2. account.last >= next /\ account # NoAccount
      <3>1. account.last > seen.last
        BY <1>4, <1>5, <1>8 DEF StillAfter
      <3>2. account # NoAccount
        BY <1>4, <3>1, EmptyTypes DEF NoDay
      <3>3. CASE seen = NoAccount
        <4>1. job[c].opening
          BY <1>2, <1>5, <3>3 DEF HistoryOf, ReadOf, seen
        <4>2. account.last >= today /\ job[c].target = today
          BY <1>5, <3>2, <4>1 DEF HistoryOf, OpeningOf
        <4>3. next <= job[c].target
          BY SaveDayHolds DEF next
        <4> QED
          BY <1>4, <3>2, <4>2, <4>3
      <3>4. CASE seen # NoAccount
        <4>1. seen.last = next - 1
          BY <1>2, <1>5, <3>4 DEF HistoryOf, ReadOf, seen, next
        <4> QED
          BY <1>4, <3>1, <3>2, <4>1
      <3> QED
        BY <3>3, <3>4
    <2>3. CatchingUpOf(c)'
      BY <1>2, <1>3, <1>4, <1>5, <2>1, <2>2 DEF HistoryOf, CatchingUpOf, Announced
    <2>4. OpeningOf(c)' /\ ReadOf(c)' /\ RowOf(c)'
      BY <1>2, <1>3, <1>5, <2>1 DEF HistoryOf, OpeningOf, ReadOf, RowOf
    <2>5. HistoryOf(c)'
      BY <2>3, <2>4 DEF HistoryOf
    <2>6. (\E p : pc' = [pc EXCEPT ![c] = p]) /\ \E j : job' = [job EXCEPT ![c] = j]
      BY DEF SaveDay
    <2> QED
      BY <1>2, <2>1, <2>5, <2>6, QuietStep
  <1>9. CASE StillAfter(seen)
    <2>1. /\ account' = made /\ audit' = audit \union DayLines(seen, made)
          /\ seen.last = account.last
      BY <1>9 DEF SaveDay, Save, StillAfter, seen, made
    <2>2. seen = NoAccount <=> account = NoAccount
      BY <1>4, <1>5, <2>1, EmptyTypes DEF AccountInv, Chained
    <2>3. seen.opened = account.opened /\ seen.booked = account.booked
      BY <1>2, <1>5, <2>1 DEF HistoryOf, ReadOf, seen
    <2>4. account'.last = next /\ account' # NoAccount /\ account.last < next
      BY <1>1, <1>4, <2>1, EmptyTypes DEF NoDay
    <2>5. \A s : Announced(s) => Announced(s)'
      BY <2>1 DEF Announced
    <2>6. account # NoAccount => account.last = next - 1 /\ ~job[c].opening
      BY <1>2, <1>5, <2>1, <2>2 DEF HistoryOf, ReadOf, seen, next
    <2>7. account = NoAccount => job[c].opening /\ next = today
      BY <1>2, <1>5 DEF HistoryOf, CatchingUpOf, next
    <2>8. account'.booked = account'.opened..account'.last
      <3>1. CASE account = NoAccount
        <4>1. made.booked = {next} /\ made.opened = next
          BY <1>1, <1>7, <2>2, <3>1 DEF NoAccount
        <4> QED
          BY <1>4, <2>1, <2>4, <4>1
      <3>2. CASE account # NoAccount
        <4>1. account.booked = account.opened..account.last /\ account.opened <= account.last
          <5>1. account.booked = account.opened..account.last
            BY <3>2 DEF HistoryInv, Told
          <5>2. account.last \in account.booked
            BY <3>2 DEF AccountInv, Chained, EachDaySavedOnce
          <5>3. account.opened \in Nat
            BY <1>4, ConstantsOK DEF Account
          <5> QED
            BY <1>4, <5>1, <5>2, <5>3
        <4>2. made.booked = (account.opened..account.last) \union {next} /\ made.opened = account.opened
          BY <1>1, <1>7, <2>2, <2>3, <3>2, <4>1
        <4>3. account.opened \in Nat /\ account.last = next - 1
          BY <1>4, <2>6, <3>2, ConstantsOK DEF Account
        <4>4. (account.opened..account.last) \union {next} = account.opened..next
          BY <1>4, <4>1, <4>3
        <4> QED
          BY <2>1, <2>4, <4>2, <4>4
      <3> QED
        BY <3>1, <3>2
    <2>9. AuditExplainsTheAccount'
      <3>1. \E s \in Strategies : \A t \in Strategies : ([key |-> "opened", about |-> t] \in audit') <=> (s = t)
        <4>1. CASE account = NoAccount
          <5>1. \A t \in Strategies : [key |-> "opened", about |-> t] \notin audit
            BY <4>1 DEF HistoryInv, Told
          <5>2. \A t \in Strategies : [key |-> "opened", about |-> t] \in DayLines(seen, made) <=> t = made.strategy
            BY <2>2, <4>1 DEF DayLines, OpeningLine
          <5>3. made.strategy \in Strategies
            BY SaveDayHolds DEF made
          <5> QED
            BY <2>1, <5>1, <5>2, <5>3
        <4>2. CASE account # NoAccount
          <5>1. \A t \in Strategies : [key |-> "opened", about |-> t] \notin DayLines(seen, made)
            BY <2>2, <4>2 DEF DayLines, OpeningLine
          <5> QED
            BY <2>1, <4>2, <5>1 DEF HistoryInv, Told, AuditExplainsTheAccount
        <4> QED
          BY <4>1, <4>2
      <3>2. Halted(account') => [key |-> "halt", about |-> account'.halt] \in audit'
        <4>1. CASE made.halt = made.last
          BY <2>1, <4>1 DEF DayLines
        <4>2. CASE made.halt # made.last /\ made.halt # NoDay
          <5>1. made.halt = seen.halt /\ Halted(seen)
            BY <1>1, <4>2 DEF Halted
          <5>2. [key |-> "halt", about |-> seen.halt] \in audit
            BY <1>2, <1>5, <5>1 DEF HistoryOf, ReadOf, seen
          <5> QED
            BY <2>1, <5>1, <5>2
        <4> QED
          BY <2>1, <4>1, <4>2 DEF Halted
      <3>3. \E k \in {"opened", "switched"} : [key |-> k, about |-> account'.strategy] \in audit'
        <4>1. CASE account = NoAccount
          BY <2>1, <2>2, <4>1 DEF DayLines, OpeningLine
        <4>2. CASE account # NoAccount
          <5>1. Announced(made.strategy)
            BY <1>2, <1>5, <1>7, <2>6, <4>2 DEF HistoryOf, CatchingUpOf
          <5> QED
            BY <2>1, <5>1 DEF Announced
        <4> QED
          BY <4>1, <4>2
      <3> QED
        BY <3>1, <3>2, <3>3 DEF AuditExplainsTheAccount, Halted
    <2>10. Told'
      BY <2>4, <2>8, <2>9 DEF Told
    <2>11. Announced(job[c].strategy)'
      BY <1>3, <1>7, <2>1, <2>4, <2>9 DEF AuditExplainsTheAccount, Announced
    <2>12. HistoryOf(c)'
      <3>1. OpeningOf(c)'
        BY <1>2, <1>3, <1>4, <1>5, <2>4, <2>6, <2>7 DEF HistoryOf, OpeningOf
      <3>2. account'.last >= (next + 1) - 1
        BY <1>4, <2>4
      <3>3. CatchingUpOf(c)'
        BY <1>2, <1>3, <2>4, <2>11, <3>2 DEF CatchingUpOf
      <3>4. ReadOf(c)'
        BY <1>2 DEF ReadOf
      <3>5. RowOf(c)'
        <4>1. runs[c].outcome \notin {"none", "stopped"} => account.last >= runs[c].target
          BY <1>5 DEF HistoryOf, RowOf
        <4> QED
          BY <1>2, <1>4, <2>4, <4>1 DEF RowOf, AccountInv, TypeOK, RunRow, NoRun, Days, NoDay
      <3> QED
        BY <3>1, <3>3, <3>4, <3>5 DEF HistoryOf
    <2>13. ASSUME NEW d \in Command, d # c PROVE HistoryOf(d)'
      <3>1. /\ pc'[d] = pc[d] /\ job'[d] = job[d] /\ runs'[d] = runs[d] /\ today' = today
            /\ job[d].seen.last \in Nat /\ HistoryOf(d) /\ job[d] \in Job
        BY <2>13, ConstantsOK DEF SaveDay, AccountInv, TypeOK, Job, Account, HistoryInv
      <3>2. OpeningOf(d)'
        BY <1>4, <2>4, <2>7, <3>1 DEF HistoryOf, OpeningOf
      <3>3. CatchingUpOf(d)'
        <4>1. pc[d] \in {"fetch", "read", "save"} => account'.last >= job[d].next - 1
          <5>1. job[d].next \in Nat
            BY <3>1, ConstantsOK DEF Job
          <5>2. CASE account = NoAccount
            BY <1>4, <2>4, <2>7, <3>1, <5>1, <5>2 DEF HistoryOf, CatchingUpOf
          <5>3. CASE account # NoAccount
            BY <1>4, <2>4, <3>1, <5>1, <5>3 DEF HistoryOf, CatchingUpOf
          <5> QED
            BY <5>2, <5>3
        <4>2. pc[d] = "finish" /\ job[d].outcome # "stopped" => account'.last >= job[d].target
          <5>1. job[d].target \in Nat
            BY <3>1, ConstantsOK DEF Job
          <5> QED
            BY <1>4, <2>4, <3>1, <5>1 DEF HistoryOf, CatchingUpOf
        <4> QED
          BY <2>4, <2>5, <3>1, <4>1, <4>2 DEF HistoryOf, CatchingUpOf
      <3>4. ReadOf(d)'
        <4>1. pc[d] \in {"save", "confirm"} => job[d].seen.last # account'.last
          BY <1>4, <2>4, <3>1 DEF AccountInv, SnapshotOf
        <4>2. audit \subseteq audit'
          BY <2>1
        <4> QED
          BY <2>5, <3>1, <4>1, <4>2 DEF HistoryOf, ReadOf, Halted
      <3>5. RowOf(d)'
        <4>1. runs[d].outcome \notin {"none", "stopped"} => account.last >= runs[d].target
          BY <3>1 DEF HistoryOf, RowOf
        <4> QED
          BY <1>4, <2>4, <3>1, <4>1 DEF RowOf, AccountInv, TypeOK, RunRow, NoRun, Days, NoDay
      <3> QED
        BY <3>2, <3>3, <3>4, <3>5 DEF HistoryOf
    <2> QED
      BY <2>10, <2>12, <2>13 DEF HistoryInv
  <1> QED
    BY <1>8, <1>9

\* A change saved leaves the days alone, and the log tells what it changed.
LEMMA ConfirmedTells ==
    ASSUME AccountInv, HistoryInv, NEW c \in Command, Confirmed(c)
    PROVE  HistoryInv'
  <1> DEFINE seen == job[c].seen
             made == job[c].made
  <1>1. /\ seen \in Account /\ made \in Account
        /\ seen.last # NoDay /\ made.last = seen.last
        /\ made.booked = seen.booked /\ ~Halted(made)
        /\ job[c].kind \in {"resume", "switch"} /\ made.strategy \in Strategies
    BY ConfirmedHolds
  <1>2. pc[c] = "confirm" /\ Ends(c) /\ UNCHANGED <<config, today, runs>> /\ HistoryOf(c)
    BY DEF Confirmed, HistoryInv
  <1>3. made.opened = seen.opened /\ (job[c].kind = "resume" => made.strategy = seen.strategy)
    <2>1. \/ job[c].kind = "resume" /\ made = [seen EXCEPT !.halt = NoDay]
          \/ job[c].kind = "switch"
             /\ made = [seen EXCEPT !.strategy = made.strategy, !.memory = None]
      BY <1>2 DEF AccountInv, MadeOf
    <2> HIDE DEF seen
    <2>2. CASE job[c].kind = "resume" /\ made = [seen EXCEPT !.halt = NoDay]
      BY <1>1, <2>2 DEF Account
    <2>3. CASE /\ job[c].kind = "switch"
               /\ made = [seen EXCEPT !.strategy = made.strategy, !.memory = None]
      <3> DEFINE to == made.strategy
      <3>1. made = [seen EXCEPT !.strategy = to, !.memory = None]
        BY <2>3
      <3> HIDE DEF to, made
      <3>2. made.opened = seen.opened
        BY <1>1, <3>1 DEF Account
      <3> QED
        BY <2>3, <3>2
    <2> QED
      BY <2>1, <2>2, <2>3
  <1>4. account.last \in Nat /\ account \in Account
    BY ConstantsOK DEF AccountInv, TypeOK, Account
  <1>5. CASE ~StillAfter(seen)
    <2>1. UNCHANGED <<account, audit>>
      BY <1>5 DEF Confirmed, Save
    <2>2. RowOf(c)'
      BY <1>2, <2>1 DEF HistoryOf, RowOf
    <2>3. HistoryOf(c)'
      BY <1>2, <2>2, EndedTellsNothing
    <2>4. (\E p : pc' = [pc EXCEPT ![c] = p]) /\ \E j : job' = [job EXCEPT ![c] = j]
      BY <1>2 DEF Ends
    <2> QED
      BY <1>2, <2>1, <2>3, <2>4, QuietStep
  <1>6. CASE StillAfter(seen)
    <2>1. /\ account' = made /\ audit' = audit \union {ChangeLine(c)}
          /\ seen.last = account.last /\ seen.booked = account.booked
          /\ seen.opened = account.opened
      BY <1>2, <1>6 DEF Confirmed, Save, StillAfter, AccountInv, SnapshotOf, HistoryOf, ReadOf
    <2>2. /\ account # NoAccount /\ account' # NoAccount /\ seen # NoAccount
          /\ account'.last = account.last /\ account'.booked = account.booked
          /\ account'.opened = account.opened
      BY <1>1, <1>3, <2>1, EmptyTypes
    <2>3. \A s : Announced(s) => Announced(s)'
      BY <2>1 DEF Announced
    <2>4. \A s : [key |-> "opened", about |-> s] \in audit' <=> [key |-> "opened", about |-> s] \in audit
      <3>1. ChangeLine(c).key # "opened"
        BY DEF ChangeLine
      <3> QED
        BY <2>1, <3>1
    <2>5. \E k \in {"opened", "switched"} : [key |-> k, about |-> made.strategy] \in audit'
      <3>1. CASE job[c].kind = "resume"
        <4>1. Announced(seen.strategy)
          BY <1>2, <2>2 DEF HistoryOf, ReadOf
        <4> QED
          BY <1>3, <2>1, <3>1, <4>1 DEF Announced
      <3>2. CASE job[c].kind = "switch"
        BY <2>1, <3>2 DEF ChangeLine
      <3> QED
        BY <1>1, <3>1, <3>2
    <2>6. Told'
      <3>1. \E s \in Strategies : \A t \in Strategies : ([key |-> "opened", about |-> t] \in audit') <=> (s = t)
        BY <2>2, <2>4 DEF HistoryInv, Told, AuditExplainsTheAccount
      <3>2. account.booked = account.opened..account.last
        BY <2>2 DEF HistoryInv, Told
      <3>3. \E k \in {"opened", "switched"} : [key |-> k, about |-> account'.strategy] \in audit'
        BY <2>1, <2>5
      <3> QED
        BY <1>1, <2>1, <2>2, <3>1, <3>2, <3>3 DEF Told, AuditExplainsTheAccount, Halted
    <2>7. HistoryOf(c)'
      <3>1. RowOf(c)'
        BY <1>2, <2>2 DEF HistoryOf, RowOf
      <3> QED
        BY <1>2, <3>1, EndedTellsNothing
    <2>8. ASSUME NEW d \in Command, d # c PROVE HistoryOf(d)'
      <3>1. /\ pc'[d] = pc[d] /\ job'[d] = job[d] /\ runs'[d] = runs[d] /\ HistoryOf(d)
            /\ audit \subseteq audit'
        BY <1>2, <2>1, <2>8 DEF Ends, AccountInv, TypeOK, HistoryInv
      <3> QED
        BY <1>2, <2>2, <2>3, <3>1 DEF HistoryOf, OpeningOf, CatchingUpOf, ReadOf, RowOf, Halted
    <2> QED
      BY <2>6, <2>7, <2>8 DEF HistoryInv
  <1> QED
    BY <1>5, <1>6

\* Every step keeps the history, as long as no day completes while a first run is in flight.
LEMMA HistoryStep ==
    ASSUME ~OpeningRace, AccountInv, HistoryInv, [Next]_vars
    PROVE  HistoryInv'
  <1>1. CASE EditConfig \/ DayCompletes \/ UNCHANGED vars
    <2>1. UNCHANGED <<account, audit, runs, pc, job>>
      BY <1>1 DEF EditConfig, DayCompletes, vars, db
    <2>2. ASSUME NEW d \in Command PROVE today' = today \/ ~job[d].opening
      BY <1>1 DEF EditConfig, DayCompletes, OpeningInFlight, vars
    <2>3. Told'
      BY <2>1, ToldStays DEF HistoryInv
    <2>4. \A d \in Command : HistoryOf(d)'
      BY <2>1, <2>2, HistoryStays DEF HistoryInv
    <2> QED
      BY <2>3, <2>4 DEF HistoryInv
  <1>2. ASSUME NEW c \in Command, CommandStep(c) \/ Killed(c) PROVE HistoryInv'
    BY <1>2, StartRunTells, FetchTells, RunOneTells, SaveDayTells, CloseRunTells, FinishRunTells,
       KilledTells, AsksTells, ConfirmedTells DEF CommandStep, AskResume, AskSwitch
  <1> QED
    BY <1>1, <1>2 DEF Next

\* There is no history before the first command.
LEMMA HistoryInit == Init => HistoryInv
  BY DEF Init, HistoryInv, Told, AuditExplainsTheAccount, HistoryOf, OpeningOf, CatchingUpOf,
         ReadOf, RowOf, NoJob, NoRun

\* What the history says stands for every interleaving of an account without that race.
LEMMA HistoryHolds == ~OpeningRace /\ Spec => []HistoryInv
  <1>1. ~OpeningRace /\ AccountInv /\ HistoryInv /\ [Next]_vars => HistoryInv'
    BY HistoryStep
  <1>2. ~OpeningRace => [](~OpeningRace)
    <2>1. (~OpeningRace) => (~OpeningRace)'
      OBVIOUS
    <2> QED
      BY <2>1, PTL
  <1> QED
    BY <1>1, <1>2, HistoryInit, AlwaysConsistent, PTL DEF Spec

\* The days a run reports are days that were saved, and no other run reports them too.
Credit(c) == runs[c].days \union job[c].ran
CreditInv ==
    \A c \in Command : /\ Credit(c) \subseteq DaysReported
                       /\ \A e \in Command \ {c} : Credit(c) \cap Credit(e) = {}

\* A command that reports no more than it did, or a day just saved, keeps it so.
LEMMA CreditMoves ==
    ASSUME CreditInv, DaysReported \subseteq DaysReported', NEW c \in Command, NEW d,
           d \in DaysReported' \ DaysReported \/ d \in Credit(c),
           Credit(c)' \subseteq Credit(c) \union {d}, \A e \in Command \ {c} : Credit(e)' = Credit(e)
    PROVE  CreditInv'
  <1>1. \A e, f \in Command : e # f => Credit(e) \cap Credit(f) = {}
    BY DEF CreditInv
  <1>2. \A e \in Command : Credit(e) \subseteq DaysReported
    BY DEF CreditInv
  <1> HIDE DEF Credit
  <1>3. \A e \in Command : Credit(e)' \subseteq DaysReported'
    BY <1>2
  <1>4. ASSUME NEW e \in Command, NEW f \in Command, e # f PROVE Credit(e)' \cap Credit(f)' = {}
    <2>1. CASE e # c /\ f # c
      BY <1>1, <1>4, <2>1
    <2>2. CASE e = c
      BY <1>1, <1>2, <1>4, <2>2
    <2>3. CASE f = c
      BY <1>1, <1>2, <1>4, <2>3
    <2> QED
      BY <2>1, <2>2, <2>3
  <1> QED
    BY <1>3, <1>4 DEF CreditInv

\* Only a day that is saved is credited, to the run that saves it: none was credited before.
LEMMA CreditStep ==
    ASSUME AccountInv, CreditInv, [Next]_vars
    PROVE  CreditInv'
  <1>1. CASE EditConfig \/ DayCompletes \/ UNCHANGED vars
    <2>1. UNCHANGED <<reports, runs, job>>
      BY <1>1 DEF EditConfig, DayCompletes, vars, db
    <2> QED
      BY <2>1 DEF CreditInv, Credit, DaysReported
  <1>2. ASSUME NEW c \in Command, SaveDay(c) PROVE CreditInv'
    <2> DEFINE made == job[c].made
               seen == job[c].seen
    <2>1. /\ job'[c] = [job[c] EXCEPT !.next = made.last + 1, !.seen = NoAccount,
                                      !.made = NoAccount, !.ran = Credited(c)]
          /\ \A e \in Command \ {c} : job'[e] = job[e]
          /\ runs' = runs
      BY <1>2 DEF SaveDay, AccountInv, TypeOK, DayAfter
    <2>2. job'[c].ran = Credited(c)
      BY <2>1 DEF AccountInv, TypeOK, Job
    <2>3. \A e \in Command \ {c} : Credit(e)' = Credit(e)
      BY <2>1 DEF Credit
    <2>4. DaysReported \subseteq DaysReported'
      BY <1>2 DEF SaveDay, Save, DaysReported
    <2>5. CASE StillAfter(seen)
      <3>1. Credit(c)' \subseteq Credit(c) \union {made.last}
        BY <2>1, <2>2 DEF Credited, Credit
      <3>2. reports' = reports \union {[day |-> made.last, after |-> seen.last]}
        BY <1>2, <2>5 DEF SaveDay, Save
      <3>3. made.last \in DaysReported'
        <4>1. [day |-> made.last, after |-> seen.last] \in reports'
          BY <3>2
        <4>2. [day |-> made.last, after |-> seen.last].day = made.last
          OBVIOUS
        <4> DEFINE r == [day |-> made.last, after |-> seen.last]
        <4> HIDE DEF r, made, seen
        <4>3. r \in reports' /\ r.day = made.last
          BY <4>1, <4>2 DEF r
        <4> QED
          BY <4>3 DEF DaysReported
      <3>4. made.last \notin DaysReported
        <4>1. seen.last = account.last /\ seen.last < made.last
              /\ seen.last \in Nat /\ made.last \in Nat
          BY <1>2, <2>5, SaveDayHolds, ConstantsOK DEF StillAfter, Account
        <4>2. DaysReported = account.booked /\ \A d \in account.booked : d <= account.last
          BY DEF AccountInv, Chained, EachDaySavedOnce
        <4> QED
          BY <4>1, <4>2
      <3> HIDE DEF made
      <3> QED
        BY <2>3, <2>4, <3>1, <3>3, <3>4, CreditMoves
    <2>6. CASE ~StillAfter(seen)
      <3>1. Credit(c)' = Credit(c)
        BY <2>1, <2>2, <2>6 DEF Credited, Credit
      <3>2. DaysReported' = DaysReported
        BY <1>2, <2>6 DEF SaveDay, Save, DaysReported
      <3>3. \A e \in Command : Credit(e)' = Credit(e)
        BY <2>3, <3>1
      <3> HIDE DEF Credit
      <3> QED
        BY <3>2, <3>3 DEF CreditInv
    <2> QED
      BY <2>5, <2>6
  <1>3. ASSUME NEW c \in Command, (CommandStep(c) /\ ~SaveDay(c)) \/ Killed(c) PROVE CreditInv'
    <2>1. /\ reports' = reports
          /\ \A e \in Command \ {c} : Credit(e)' = Credit(e)
          /\ Credit(c)' \subseteq Credit(c)
      <3>1. CASE Fetch(c) \/ RunOne(c) \/ CloseRun(c)
        <4>1. /\ reports' = reports /\ runs' = runs
              /\ \A e \in Command \ {c} : job'[e] = job[e]
          BY <3>1 DEF Fetch, RunOne, CloseRun, Stops, db, AccountInv, TypeOK
        <4>2. job'[c].ran = job[c].ran
          <5>1. CASE Fetch(c)
            BY <5>1 DEF Fetch, Stops, AccountInv, TypeOK, Job
          <5>2. CASE RunOne(c)
            BY <5>2 DEF RunOne, Stops, AccountInv, TypeOK, Job
          <5>3. CASE CloseRun(c)
            BY <5>3 DEF CloseRun, AccountInv, TypeOK, Job
          <5> QED
            BY <3>1, <5>1, <5>2, <5>3
        <4> QED
          BY <4>1, <4>2 DEF Credit
      <3>2. CASE StartRun(c) \/ AskResume(c) \/ AskSwitch(c)
        <4>1. /\ reports' = reports /\ runs' = runs
              /\ \A e \in Command \ {c} : job'[e] = job[e]
          <5>1. CASE StartRun(c)
            BY <5>1 DEF StartRun, db, AccountInv, TypeOK
          <5>2. CASE AskResume(c)
            BY <5>2 DEF AskResume, Asks, db, AccountInv, TypeOK
          <5>3. CASE AskSwitch(c)
            BY <5>3 DEF AskSwitch, Asks, db, AccountInv, TypeOK
          <5> QED
            BY <3>2, <5>1, <5>2, <5>3
        <4>2. job'[c].ran = {}
          <5>1. CASE StartRun(c)
            BY <5>1 DEF StartRun, AccountInv, TypeOK, NoJob
          <5>2. CASE AskResume(c)
            BY <5>2 DEF AskResume, Asks, AccountInv, TypeOK, NoJob
          <5>3. CASE AskSwitch(c)
            BY <5>3 DEF AskSwitch, Asks, AccountInv, TypeOK, NoJob
          <5> QED
            BY <3>2, <5>1, <5>2, <5>3
        <4> QED
          BY <4>1, <4>2 DEF Credit
      <3>3. CASE FinishRun(c)
        <4>1. /\ reports' = reports /\ runs'[c].days = job[c].ran /\ job'[c] = NoJob
              /\ \A e \in Command \ {c} : job'[e] = job[e] /\ runs'[e] = runs[e]
          BY <3>3 DEF FinishRun, Ends, AccountInv, TypeOK
        <4> QED
          BY <4>1 DEF Credit, NoJob
      <3>4. CASE Confirmed(c) \/ Killed(c)
        <4>1. /\ reports' = reports /\ runs' = runs /\ job'[c] = NoJob
              /\ \A e \in Command \ {c} : job'[e] = job[e]
          BY <3>4 DEF Confirmed, Save, Killed, Ends, db, AccountInv, TypeOK
        <4> QED
          BY <4>1 DEF Credit, NoJob
      <3> QED
        BY <1>3, <3>1, <3>2, <3>3, <3>4 DEF CommandStep
    <2>2. DaysReported' = DaysReported
      BY <2>1 DEF DaysReported
    <2>3. \A e \in Command : Credit(e)' \subseteq Credit(e)
      BY <2>1
    <2> HIDE DEF Credit
    <2> QED
      BY <2>2, <2>3 DEF CreditInv
  <1> QED
    BY <1>1, <1>2, <1>3 DEF Next

\* No run claims a day that was not saved, and no two runs the same day, however they
\* overtake each other: even first runs that race the clock.
THEOREM DaysAreCreditedOnce == Spec => []CreditInv
  <1>1. Init => CreditInv
    BY DEF Init, CreditInv, Credit, NoRun, NoJob
  <1>2. AccountInv /\ CreditInv /\ [Next]_vars => CreditInv'
    BY CreditStep
  <1> QED
    BY <1>1, <1>2, AlwaysConsistent, PTL DEF Spec

\* Every trading day after the last one saved is run, oldest first: the journal has no gap.
THEOREM NoGapIsLeft == ~OpeningRace /\ Spec => []NoDaySkipped
  <1>1. HistoryInv => NoDaySkipped
    BY DEF HistoryInv, Told, NoDaySkipped
  <1> QED
    BY <1>1, HistoryHolds, PTL

\* The runs table tells the truth: a run that says it ran, or had nothing to run, left an
\* account that reached its target, and each day is credited to the one run that saved it.
THEOREM RunsAreTruthful == ~OpeningRace /\ Spec => []RunsTellTheTruth
  <1>1. HistoryInv /\ CreditInv => RunsTellTheTruth
    BY DEF HistoryInv, HistoryOf, RowOf, CreditInv, Credit, RunsTellTheTruth
  <1> QED
    BY <1>1, HistoryHolds, DaysAreCreditedOnce, PTL

\* The audit log explains the account: opened once, its halt written with its day, its
\* strategy announced, though stale runs bring halts back.
THEOREM AuditIsComplete == ~OpeningRace /\ Spec => []AuditExplainsTheAccount
  <1>1. HistoryInv => AuditExplainsTheAccount
    BY DEF HistoryInv, Told
  <1> QED
    BY <1>1, HistoryHolds, PTL
=============================================================================
