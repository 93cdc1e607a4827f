SPECIFICATION Spec
CONSTANTS
    b1 = b1
    b2 = b2
    s1 = s1
    s2 = s2
    Bounties = {b1}
    Amounts = {1, 3}
    Ceiling = 9
    MaxTime = 2
    MaxGift = 1
    MaxBatch = 1
    Signers = {s1, s2}
    MultisigConfigs <- TwoSigners
    AmountPolicies <- SomePolicies
    ClaimWindows = {0, 1}
    PauseStates <- AnyPause
    GovernanceStates = {TRUE, FALSE}
PROPERTIES ControlsHold PartsNeedQuorum
