SPECIFICATION Spec
CONSTANTS
    r1 = r1
    r2 = r2
    d1 = d1
    d2 = d2
    single = single
    rate = rate
    spread = spread
    x1 = x1
    None = None
    Content <- Contents
    Submitted <- Definitions
    FirstVersion = {1}
    Exception <- Exceptions
    Editor <- Editors
    Replica <- Replicas
    Event <- MCEvent
    Entity <- MCEntity
    Timestamp <- MCTimestamp
    Undecodable = {3}
    Matching <- MCMatching
    Windowed <- WindowedContents
    Excepts <- MCExcepts
    ExpiresAt <- MCExpiresAt
    Suppression = 2
    Duration = 1
    Threshold = 2
    Distinct <- DistinctContents
    Values <- MCValues
    Evidence = 1
    MaxBuckets = 1
    Refresh = 1
    LoadTime = 1
    MaxTime = 2
    Scenario <- Scenarios
SYMMETRY Symmetry
CONSTRAINT MeasuresWhereSearched
INVARIANTS
    VersionsAreHistory
    HistoryExplainsDetections
    DetectionsAreJustified
    DetectionsAreSpaced
    RulesAreRecent
    DueIsDetected
CHECK_DEADLOCK FALSE
