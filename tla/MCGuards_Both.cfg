SPECIFICATION GuardsSpec
CONSTANTS
    a1 = a1
    c1 = c1
    Admins = {a1}
    FailureThresholds = {1, 3}
    SuccessThresholds = {0, 2}
    LogSizes = {0, 1, 3}
    DefaultLog = 2
    Budgets = {0, 1, 3}
    MaxFailures = 5
    Callers = {c1}
    LimitConfigs <- SomeLimits
    CapConfigs <- SomeCaps
    LockAmounts = {1, 2}
    MaxFunds = 5
    LastTime = 6
INVARIANTS LogEndsWithStreak BurstsAreBounded LimiterRecovers
PROPERTIES IsCircuitBreaker ThresholdHolds RetriesRespectCircuit
CHECK_DEADLOCK FALSE
