SPECIFICATION Spec
CONSTANTS
    Panels = {p1, p2}
    Opening = 10
    PageSpan = 3
    Values = {6, 8}
    Flows = {0, 2}
    MaxDay = 3
    MaxInstant = 4
    FlowDays = {3}
    DailyLoss = 20
    MaxDrawdown = 30
    Scale = 100
SYMMETRY Symmetric
CHECK_DEADLOCK FALSE
INVARIANT AReadPastTheLimitStops
PROPERTY HaltOutlivesRecovery
PROPERTY ResumeLiftsItsHalt
