SPECIFICATION FairGateSpec
CONSTANTS
    v1 = v1
    v2 = v2
    Voters = {v1, v2}
    Hashes = {h1}
    MaxProposals = 1
    LastProposal = 1
    MaxTime = 4
    MaxInt = 30000
    InitialBalances <- TwoHolders
    TokenWeighted = TRUE
    TotalPower = 3
    VotingPeriod = 1
    ExecutionDelay = 2
    Quorum = 4000
    Threshold = 6666
    MinStake = 2
    Minimums = {0, 2, 20}
    CoreVersions = {1, 2}
    Major = 10
    InitialCode = "initial"
INVARIANT GovernedHaveMandate
PROPERTIES KeepsPoll EveryProposalIsDecided
