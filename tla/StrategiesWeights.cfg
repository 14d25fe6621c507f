SPECIFICATION SSpec
CONSTANTS
    Stocks <- MCStocks
    Digits = 3
    YearLength = 4
    MonthLength = 2
    Calendar <- MCCalendar
    FirstDay = 8
    LastDay = 11
    Instalments = 2
    MinStocks = 15
    MaxStocks = 25
    GrowthYears = 1
    TrailingDays = 4
    PayLag = 1
    Portfolios <- MCPortfolios
    Tradables <- MCTradables
    Histories <- MCHistories
CHECK_DEADLOCK FALSE
INVARIANT WeightsFit
