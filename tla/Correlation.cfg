SPECIFICATION Spec
CONSTANTS
    t1 = t1
    t2 = t2
    None = None
    Task <- TwoTasks
    Input <- MCInput
    Claimed <- MCClaimed
    Ingested <- MCIngested
    Matches <- MCMatches
    Undecodable <- MCUndecodable
    Rule <- MCRule
    MaxSkew = 1
    MaxHits = 3
    MaxTime = 3
    MaxFaults = 1
SYMMETRY Symmetry
INVARIANTS
    ReportsAreChains
    CompletedChainIsReported
    ReportsAreSpaced
CHECK_DEADLOCK FALSE
