SPECIFICATION FairSpec
CONSTANTS
    a1 = a1
    a2 = a2
    h1 = h1
    h2 = h2
    Addresses = {a1, a2}
    Hashes = {h1, h2}
    MaxProposals = 2
    InitialSigners = {a1, a2}
    InitialThreshold = 2
    InitialCode = "initial"
    MinDelay = 1
    DefaultDelay = 2
    Delays = {0, 1, 3, 9}
    Versions = {0, 1, 2, 3, 4}
    Ceiling = 6
    MaxTime = 4
INVARIANTS OneAuthority MigrationRecordIsTrue
PROPERTIES ChangesHaveMandate ScheduledIsInstalled
CHECK_DEADLOCK FALSE
