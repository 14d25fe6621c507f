SPECIFICATION Spec
CONSTANTS
    MaxDay = 10
    YearDays = 4
    GraceDays = 1
    HoldYears = 2
    Lag = 2
    PayLag = 2
    TaxPart = 2
    Dividends = {2, 3}
    Buys = {2}
    Fee = 1
    MaxClaims = 2
    MaxInvested = 6
CHECK_DEADLOCK FALSE
INVARIANT GrossIsAccountedFor
INVARIANT ProtectedIsInvested
PROPERTY BreaksOnlyAShortfall
PROPERTY BuysCoverOnceOldestFirst
