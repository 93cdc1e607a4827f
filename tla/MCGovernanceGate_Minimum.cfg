SPECIFICATION GateSpec
CONSTANTS
    v1 = v1
    v2 = v2
    Voters = {v1, v2}
    Hashes = {h1}
    MaxProposals = 1
    LastProposal = 1
    MaxTime = 4
    MaxInt = 20000
    InitialBalances <- OneProposer
    TokenWeighted = FALSE
    TotalPower = 2
    VotingPeriod = 1
    ExecutionDelay = 2
    Quorum = 5000
    Threshold = 5000
    MinStake = 2
    Minimums = {0, 2, 20}
    CoreVersions = {1, 2}
    Major = 10
    InitialCode = "initial"
INVARIANT ApprovedUpgradesPass
