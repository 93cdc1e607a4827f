SPECIFICATION QuerySpec
CONSTANTS
    b1 = b1
    b2 = b2
    b3 = b3
    d1 = d1
    d2 = d2
    Bounties = {b1, b2, b3}
    Depositors = {d1, d2}
    Terms <- SomeTerms
    Filters <- AnyFilter
    Limits = {1, 3}
    MaxQueryLimit = 2
    MaxInt = 9
INVARIANTS WalksMissNothing WalksRepeatNothing IndexesAgree
CHECK_DEADLOCK FALSE
