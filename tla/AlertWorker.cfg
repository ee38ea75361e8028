SPECIFICATION Spec
CONSTANTS
    t1 = t1
    t2 = t2
    u1 = u1
    q1 = q1
    q2 = q2
    k1 = k1
    Nobody = Nobody
    MaxMsgs = 5
    ReadCount = 2
    ClaimCount = 1
    Firing <- Firings
    DedupKey <- SameKey
    RiskScore <- Risk
    Task <- TwoTasks
    Analyst <- OneAnalyst
    ApiRequest <- TwoRequests
    MaxTriage = 3
    Undecodable = {3}
    Ignored = {4}
    MaxFaults = 1
CONSTRAINT FewAtOnce
SYMMETRY Symmetry
INVARIANTS
    DisplayIdsGapless
    RepeatsCounted
    AckedIsAccountedFor
    ClosedAtMatchesStatusAlone
CHECK_DEADLOCK FALSE
