SPECIFICATION Spec
CONSTANTS
    v1 = v1
    v2 = v2
    Voters = {v1, v2}
    Hashes = {h1}
    MaxProposals = 1
    LastProposal = 1
    MaxTime = 4
    MaxInt = 20000
    InitialBalances <- OneProposer
    TokenWeighted = TRUE
    TotalPower = 2
    VotingPeriod = 1
    ExecutionDelay = 2
    Quorum = 4000
    Threshold = 6666
    MinStake = 1
PROPERTY CancelledAuthorizesNothing
