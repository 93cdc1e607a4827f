SPECIFICATION FairSpec
CONSTANTS
    r1 = r1
    r2 = r2
    Recipients = {r1, r2}
    Amounts = {1}
    ReleaseTimes = {1}
    MaxBatch = 2
    MaxSchedules = 3
    MaxTotal = 2
    MaxGift = 1
    MaxTime = 1
    Controls = {"pause", "dispute", "whitelist", "governance", "circuit"}
    MaxControls = 1
    MaxQueryLimit = 2
    SuccessThresholds = {0, 2}
INVARIANTS ViewsReconcile ReleasesAreRecorded DueCanBeReleased
PROPERTIES KeepsPool ControlsHold DueIsReleased
CHECK_DEADLOCK FALSE
