SPECIFICATION Spec
CONSTANTS
    Command = {c1, c2, c3}
    Strategies = {s1, s2}
    None = None
    MaxDay = 2
    CatchUpCap = 1
    OpeningRace = FALSE
SYMMETRY Symmetry
PROPERTY ResumedStaysResumed
CHECK_DEADLOCK FALSE
