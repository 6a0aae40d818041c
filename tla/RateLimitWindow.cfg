CONSTANTS
    Day = 2
    Amounts <- MCAmounts
    Limits <- MCLimits
    Times <- MCTimes
SPECIFICATION WindowSpec
INVARIANTS
    WindowBound
    AdmitsAfterDay
    SplitInvariance
CHECK_DEADLOCK FALSE
