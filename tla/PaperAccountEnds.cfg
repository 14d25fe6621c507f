SPECIFICATION FairSpec
CONSTANTS
    Command = {c1, c2}
    Strategies = {s1, s2}
    None = None
    MaxDay = 3
    CatchUpCap = 1
    OpeningRace = FALSE
PROPERTY RunsEnd
CHECK_DEADLOCK FALSE
