SPECIFICATION MCSpec
CONSTANTS
    Stocks = {1, 2, 3}
    Digits = 4
    YearLength = 4
    MonthLength = 2
    Calendar <- MCCalendar
    FirstDay = 8
    LastDay = 16
    Instalments = 2
    MinStocks = 2
    MaxStocks = 2
    GrowthYears = 1
    TrailingDays = 4
    PayLag = 1
    Portfolios <- MCPortfolios
    Tradables <- MCTradables
    Histories <- MCHistories
    TickTables <- MCTickTables
    BandTables <- MCBandTables
    References = {3, 4, 5, 6, 7, 8, 9, 10, 11, 12, 13}
    FeeBooks <- MCFeeBooks
    Presets <- MCPresets
    Grosses = {1, 99, 100, 250}
    CostDays = {0, 1, 2, 3, 4, 5, 6}
    Bought = {1, 2, 4, 6, 9}
    Events <- MCEvents
    Values = {0, 21, 40}
    Contributions = {0, 1, 6}
    Targets = {1, 3, 9}
    YearMonths = 3
    YearDays = 5
    IncomeLag = 1
    ProjectionMonths = 8
    TaxPercent = 10
    PessimisticStart <- MCFourFifths
    BaseGrowthCap <- MCQuarter
    OptimisticGrowthCap <- MCHalf
    Answers <- MCAnswers
    Saves <- MCSaves
    SaveBound = 3
    DayBound = 2
CHECK_DEADLOCK FALSE
PROPERTY DecisionsFit
INVARIANT PickedDividendsGrew
INVARIANT PricesAndCostsAreExact
INVARIANT RunRateWasPaid
INVARIANT MoreNeverTakesLonger
INVARIANT SettingsAreTheOperators
