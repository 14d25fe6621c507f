SPECIFICATION CallsSpec
CONSTANTS
    Stock = {s1, s2}
    MaxDay = 3
    Lag = 2
    Amount = {2, 3}
    Quantity = {1, 3}
    Ratio <- Splits
    MaxMovements = 4
    MaxShares = 4
SYMMETRY Symmetry
INVARIANT CashIsAsDefined
PROPERTY NoGainOverstated
CHECK_DEADLOCK FALSE
