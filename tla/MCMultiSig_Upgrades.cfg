SPECIFICATION FairSpec
CONSTANTS
    a1 = a1
    a2 = a2
    a3 = a3
    h1 = h1
    Addresses = {a1, a2, a3}
    Hashes = {h1}
    MaxProposals = 2
    InitialSigners = {a1, a2}
    InitialThreshold = 2
    InitialCode = "initial"
INVARIANT ThresholdIsReachable
PROPERTIES KeepsLog EveryProposalIsExecuted
