SPECIFICATION FairSpec
CONSTANTS
    w1 = w1
    w2 = w2
    Worker <- MCWorker
    Malformed <- MCMalformed
    MaxMsgs = 3
    ReadCount = 2
    ClaimCount = 2
    MaxFaults = 2
INVARIANTS
    TypeOK
    AckedOnlyWithOutcome
    OneOutcomePerDelivery
PROPERTIES
    KeepsDeliveryContract
CHECK_DEADLOCK FALSE
