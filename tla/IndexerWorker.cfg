SPECIFICATION FairSpec
CONSTANTS
    r1 = r1
    r2 = r2
    Replica <- Replicas
    MaxVersion = 2
    MaxRollovers = 2
    MaxMsgs = 4
    ReadCount = 2
    ClaimCount = 1
    BatchSize = 2
    Unusable = {3}
    Conflicting = {2}
    Scenario <- Scenarios
INVARIANTS
    HeldOnce
    AckedIsDurable
    ReadyMeansSearchable
PROPERTIES
    EveryDocumentSettles
CHECK_DEADLOCK FALSE
