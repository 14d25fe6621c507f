SPECIFICATION ResultsSpec
CONSTANTS
    Stock = {"a", "b"}
    BySymbol <- Symbols
    MaxDay = 4
    Lag = 2
    Amount = {}
    Quantity = {1, 2, 3, 4, 5, 6, 7, 8}
    Ratio <- Ratios
    MaxMovements = 0
    MaxShares = 0
    Price = {2, 3}
    FeeDivisor = 10
    Duty = 2
    DutyFree = 3
    Capital = 6
    Contribution = 4
    MonthStarts = {3}
    PayLag = 1
    PerShare = {1}
    TaxPart = 4
    Weights = {0, 50}
    MaxWeight = 50
    DailyLoss = 20
    MaxDrawdown = 30
    Scale = 100
    MaxEvents = 2
    YearDays = 2
    YearMonths = 2
INVARIANT SavedStateCarriesOn
INVARIANT OrdersFit
INVARIANT DepositsAreNeutral
INVARIANT DividendsPaidOnce
INVARIANT NeverOverdrawn
INVARIANT MostLotsBought
INVARIANT ResultsAddUp
PROPERTY StopsLast
PROPERTY LossesHalt
CHECK_DEADLOCK FALSE
