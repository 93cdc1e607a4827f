SPECIFICATION Spec
CONSTANTS
    b1 = b1
    b2 = b2
    s1 = s1
    s2 = s2
    Bounties = {b1, b2}
    Amounts = {2}
    Ceiling = 9
    MaxTime = 2
    MaxGift = 0
    MaxBatch = 2
    Signers = {}
    MultisigConfigs = {}
    AmountPolicies = {}
    ClaimWindows = {1}
    PauseStates <- NoPause
    GovernanceStates = {TRUE}
INVARIANT BalanceIsRemaining
