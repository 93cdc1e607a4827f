SPECIFICATION DocsSpec
CONSTANTS
    r1 = r1
    Recipients = {r1}
    Amounts = {1, 2}
    ReleaseTimes = {0}
    MaxBatch = 1
    MaxSchedules = 1
    MaxTotal = 2
    MaxGift = 0
    MaxTime = 1
    Controls = {}
    MaxControls = 0
    SuccessThresholds = {1}
    FailureThreshold = 3
INVARIANT FailuresOpenCircuit
CHECK_DEADLOCK FALSE
