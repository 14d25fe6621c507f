----------------------------- MODULE DayJournal -----------------------------
(***************************************************************************)
(* What the paper account promises its operator: a journal of trading days *)
(* that only grows, one day at a time and in order, and a halt that        *)
(* survives every day run and every restart until it is cleared.           *)
(***************************************************************************)
EXTENDS Naturals

VARIABLES
    last,    \* the last day in the journal, 0 before the first
    days,    \* every day in the journal
    halted   \* ordering is halted

jvars == <<last, days, halted>>

Init ==
    /\ last = 0
    /\ days = {}
    /\ halted = FALSE

\* A day after the last is entered once. It may raise a halt, never lift one.
RunDay ==
    /\ last' \in Nat
    /\ last' > last
    /\ days' = days \union {last'}
    /\ halted' \in BOOLEAN
    /\ halted => halted'

\* The operator lifts the halt. No day is entered or lost.
Resume ==
    /\ halted
    /\ halted' = FALSE
    /\ UNCHANGED <<last, days>>

Next == RunDay \/ Resume

Spec == Init /\ [][Next]_jvars
=============================================================================
