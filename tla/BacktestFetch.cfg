SPECIFICATION BacktestSpec
CONSTANTS
    LastDay = 6
    Trading <- TradingDays
    Nameable <- TradingOrOutside
    Since <- LookbackStart
    Effective <- ListDays
    Month <- Months
    QuarterlyFrom = 6
CHECK_DEADLOCK FALSE
INVARIANT NoRangeAskedTwice
INVARIANT InputsTellTheTruth
PROPERTY FetchEnds
