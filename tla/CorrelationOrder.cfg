SPECIFICATION Spec
CONSTANTS
    t1 = t1
    t2 = t2
    None = None
    Task <- TwoTasks
    Input <- LateInput
    Claimed <- LateClaimed
    Ingested <- LateIngested
    Matches <- LateMatches
    Undecodable <- NoInput
    Rule <- LateRule
    MaxSkew = 4
    MaxHits = 5
    MaxTime = 4
    MaxFaults = 0
SYMMETRY Symmetry
INVARIANT ArrivalOrderIsIrrelevant
CHECK_DEADLOCK FALSE
