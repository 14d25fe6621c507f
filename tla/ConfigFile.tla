----------------------------- MODULE ConfigFile -----------------------------
(***************************************************************************)
(* The life of steadyhand.toml: init writes it, the operator edits it,     *)
(* training rewrites the line of its level and puts the old file back if   *)
(* the new one does not load, and paper runs read it and keep in the audit *)
(* log what changed from one day run to the next (cli.py, output.py,       *)
(* paths.py, paper.py).                                                    *)
(*                                                                         *)
(* The operator types one command at a time, and may save an edit while it *)
(* works; a timer starts paper runs whenever it likes. A command may be    *)
(* killed between any two of its steps. Of the file's layout only the form *)
(* of its [training] table is kept: a level "line" of its own, a table     *)
(* "without" one, "none", a form that the rewrite cannot see ("hidden"),   *)
(* or the table given "twice", which is no TOML.                           *)
(***************************************************************************)
EXTENDS Settings, Sequences, FiniteSetsExt

CONSTANTS
    Answers,        \* to the questions of init and training: [level, exemption]
    Saves,          \* what the operator may save: [key, raw], raw at most one value
    SaveBound, DayBound     \* bounds: the different files saved, the days run

ASSUME ConfigConstants == \A edit \in Saves : \A raw \in edit.raw : IsRaw(raw)

VARIABLES
    file,       \* steadyhand.toml: [given, form], or NoFile
    typed,      \* the command being typed, and what it knows
    running,    \* the configuration the paper run under way has loaded, or none
    kept,       \* what the account keeps: [strategy, settings], or none
    lines,      \* the audit log's lines about settings
    saved, opened   \* history: all that was ever saved; the settings of the first day

cvars == <<file, typed, running, kept, lines, saved, opened>>

NoFile == [given |-> <<>>, form |-> "missing"]
Empty == [given |-> <<>>, form |-> "none"]
Idle == [at |-> "idle"]

Loadable(of) == of.form \notin {"missing", "twice"} /\ Loads(of.given)

\* with_training_level: the level's line, or the line or the table added.
WithLevel(of, level) ==
    IF of.form \in {"hidden", "twice"} THEN [of EXCEPT !.form = "twice"]
    ELSE [given |-> Over(Keyed({Entry("training.level", Text(level))}), of.given), form |-> "line"]

-----------------------------------------------------------------------------
CInit ==
    /\ file = NoFile /\ typed = Idle /\ running = {}
    /\ kept = {} /\ lines = <<>> /\ saved = {} /\ opened = {}

\* init never overwrites: it looks before it asks, and creates the file anew.
TypeInit(level, exemption) ==
    /\ typed = Idle /\ file = NoFile
    /\ typed' = [at |-> "create", text |-> Starter(level, exemption, 1)]
    /\ UNCHANGED <<file, running, kept, lines, saved, opened>>

Create ==
    /\ typed.at = "create"
    /\ IF file = NoFile
       THEN file' = Empty /\ typed' = [typed EXCEPT !.at = "write"]
       ELSE typed' = Idle /\ UNCHANGED file
    /\ UNCHANGED <<running, kept, lines, saved, opened>>

\* It writes to the file it created, which an editor may have put another in place of.
Write ==
    /\ typed.at = "write" /\ typed' = Idle
    /\ file' \in {[given |-> typed.text, form |-> "line"]} \cup ({file} \ {Empty})
    /\ saved' = saved \cup {typed.text}
    /\ UNCHANGED <<running, kept, lines, opened>>

\* training reads the file twice: what it checks, and the text it changes.
TypeTraining(level) ==
    /\ typed = Idle /\ Loadable(file) /\ LevelAccepted(Config(file.given).training)
    /\ typed' = [at |-> "change", level |-> level]
    /\ UNCHANGED <<file, running, kept, lines, saved, opened>>

ReadText ==
    /\ typed.at = "change"
    /\ typed' = [at |-> "replace", level |-> typed.level, original |-> file, alone |-> TRUE]
    /\ UNCHANGED <<file, running, kept, lines, saved, opened>>

Replace ==
    /\ typed.at = "replace"
    /\ file' = WithLevel(typed.original, typed.level) /\ typed' = [typed EXCEPT !.at = "check"]
    /\ UNCHANGED <<running, kept, lines, saved, opened>>

CheckRewritten ==
    /\ typed.at = "check"
    /\ typed' = [typed EXCEPT !.at =
            IF Loadable(file) /\ LevelAccepted(Config(file.given).training)
            THEN "changed" ELSE "restore"]
    /\ UNCHANGED <<file, running, kept, lines, saved, opened>>

Restore ==
    /\ typed.at = "restore"
    /\ file' = typed.original /\ typed' = [typed EXCEPT !.at = "unchanged"]
    /\ UNCHANGED <<running, kept, lines, saved, opened>>

\* A command ends, or is killed.
EndTyped ==
    /\ typed # Idle /\ typed' = Idle
    /\ UNCHANGED <<file, running, kept, lines, saved, opened>>

\* The operator writes a file of their own, with what it must have.
SaveNew ==
    /\ file = NoFile /\ Cardinality(saved) < SaveBound
    /\ file' = [given |-> Keyed({Entry(Consent, [date |-> 1])}), form |-> "none"] /\ saved' = saved \cup {file'.given}
    /\ UNCHANGED <<typed, running, kept, lines, opened>>

\* The operator saves the file from an editor that had read it whole.
Save(edit) ==
    LET given == IF edit.raw = {} THEN [key \in DOMAIN file.given \ {edit.key} |-> file.given[key]]
                 ELSE Over(Keyed({Entry(edit.key, raw) : raw \in edit.raw}), file.given)
    IN  /\ file.form \notin {"missing", "twice"} /\ given \notin saved /\ Cardinality(saved) < SaveBound
        /\ \E form \in (IF edit.key # "training.level" THEN {file.form}
                         ELSE IF edit.raw = {} THEN {"without", "none"} ELSE {"line", "hidden"}) :
                file' = [given |-> given, form |-> form]
        /\ saved' = saved \cup {given}
        /\ typed' = IF "alone" \in DOMAIN typed THEN [typed EXCEPT !.alone = FALSE] ELSE typed
        /\ UNCHANGED <<running, kept, lines, opened>>

-----------------------------------------------------------------------------
\* A paper run loads the configuration once, checks the account's strategy once, and runs its
\* days with it, also after a switch.
StartRun ==
    /\ running = {} /\ Loadable(file) /\ Len(lines) < DayBound
    /\ \A account \in kept : account.strategy = Config(file.given).strategy
    /\ running' = {Config(file.given)}
    /\ UNCHANGED <<file, typed, kept, lines, saved, opened>>

RunDay ==
    \E config \in running :
        LET settings == SettingsOf(config)
        IN  /\ Len(lines) < DayBound
            /\ kept' = {[strategy |-> config.strategy, settings |-> settings]}
            /\ lines' = Append(lines, UNION {Changes(account.settings, settings) : account \in kept})
            /\ opened' = IF kept = {} THEN {settings} ELSE opened
            /\ UNCHANGED <<file, typed, running, saved>>

EndRun == running # {} /\ running' = {} /\ UNCHANGED <<file, typed, kept, lines, saved, opened>>

\* paper switch moves the account to the strategy the file names. It keeps the settings saved.
Switch ==
    \E account \in kept :
        /\ Loadable(file) /\ Config(file.given).strategy # account.strategy
        /\ kept' = {[account EXCEPT !.strategy = Config(file.given).strategy]}
        /\ UNCHANGED <<file, typed, running, lines, saved, opened>>

CNext ==
    \/ \E answer \in Answers : TypeInit(answer.level, answer.exemption)
    \/ Create \/ Write
    \/ \E answer \in Answers : TypeTraining(answer.level)
    \/ ReadText \/ Replace \/ CheckRewritten \/ Restore \/ EndTyped
    \/ SaveNew
    \/ \E edit \in Saves : Save(edit)
    \/ StartRun \/ RunDay \/ EndRun \/ Switch

CSpec == CInit /\ [][CNext]_cvars

-----------------------------------------------------------------------------
\* What every constructor accepts, for the strategy that runs and for those that do not.
Runs(config) ==
    /\ FillSettingsAccept(config) /\ RiskLimitsAccept(config) /\ EngineSettingsAccept(config)
    /\ IncomeSettingsAccept(config)
    /\ \A name \in DOMAIN Registered :
        StrategyAccepts(name, config.strategySettings) /\ BacktestSettingsAccept(config, name)

\* The strategy and settings of one file that was saved, the defaults where it gives none.
ComesFrom(config, given) ==
    LET told(key) == IF key \in DOMAIN given THEN given[key] ELSE Defaults[key]
    IN  /\ Text(config.strategy) = told("strategy.name")
        /\ \A key \in DOMAIN SettingsOf(config) : SettingsOf(config)[key] = told(key)

\* What the audit log tells of a setting: its last line about it, or what the account was
\* opened with.
Told(key) ==
    LET days == {day \in DOMAIN lines : \E line \in lines[day] : line.key = key}
    IN  IF days = {} THEN (CHOOSE settings \in opened : TRUE)[key]
        ELSE (CHOOSE line \in lines[Max(days)] : line.key = key).new

\* Whatever init, training, the operator's editor and a kill leave behind, a paper run that
\* loads the file runs with settings that were saved together, and that no constructor refuses,
\* also after a switch to another strategy; training changes the level or nothing, unless the
\* file is saved under it; and the audit log, read on from the account's opening, gives the
\* settings of the last day run (load, _training, settings_of, _changes).
SettingsAreTheOperators ==
    /\ \A config \in running : Runs(config) /\ \E given \in saved : ComesFrom(config, given)
    /\ (typed.at = "changed" /\ typed.alone) =>
        /\ [key \in DOMAIN file.given \ {"training.level"} |-> file.given[key]]
            = [key \in DOMAIN typed.original.given \ {"training.level"} |-> typed.original.given[key]]
        /\ Config(file.given).training["training.level"] = Text(typed.level)
    /\ (typed.at = "unchanged" /\ typed.alone) => file = typed.original
    /\ \A account \in kept : \A key \in DOMAIN account.settings : Told(key) = account.settings[key]
=============================================================================
