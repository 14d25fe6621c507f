SPECIFICATION Spec
CONSTANTS
    Command = {c1, c2, c3}
    Strategies = {s1, s2}
    None = None
    MaxDay = 3
    CatchUpCap = 1
    OpeningRace = FALSE
SYMMETRY Symmetry
INVARIANT EachDaySavedOnce
INVARIANT EachDayRunFromTheLast
INVARIANT NoDaySkipped
INVARIANT RunsTellTheTruth
INVARIANT PastTheLimitIsHalted
INVARIANT AuditExplainsTheAccount
PROPERTY HaltLiftedByItsResume
PROPERTY JournalSpec
CHECK_DEADLOCK FALSE
