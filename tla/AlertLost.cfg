SPECIFICATION FairSpec
CONSTANTS
    t1 = t1
    t2 = t2
    u1 = u1
    q1 = q1
    q2 = q2
    k1 = k1
    Nobody = Nobody
    MaxMsgs = 2
    ReadCount = 2
    ClaimCount = 1
    Firing <- Firings
    DedupKey <- SameKey
    RiskScore <- Risk
    Task <- TwoTasks
    Analyst <- OneAnalyst
    ApiRequest <- TwoRequests
    MaxTriage = 0
    Undecodable <- NoFiring
    Ignored <- NoFiring
    MaxFaults = 1
PROPERTY
    EveryFiringSettles
CHECK_DEADLOCK FALSE
