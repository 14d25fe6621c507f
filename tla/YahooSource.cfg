SPECIFICATION YSpec
CONSTANTS
    YearLength = 10
    Verified <- MCVerified
    FiveTiers <- MCFiveTiers
    ThreeTiers <- MCThreeTiers
    FiveTiersFrom = 3
    GridStart = 2
    MinPrices = 4
    FactorUnit = 1000
    DividendUnit = 100
    MaxDay = 4
    MaxReads = 2
    Calendar <- MCCalendar
    Rows <- MCRows
    Splits <- MCSplits
    Rights <- MCRights
    Dividends <- MCDividends
    Unit = 1200
CHECK_DEADLOCK FALSE
INVARIANT ReadAsTraded
INVARIANT DividendsAsPaid
