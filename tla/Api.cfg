SPECIFICATION Spec
SYMMETRY RequestSymmetry
CONSTANTS
    q1 = q1
    q2 = q2
    alert = alert
    server = server
    account_name = account_name
    admin = admin
    analyst = analyst
    T1 = T1
    T1_001 = T1_001
    Discovery = Discovery
    Impact = Impact
    Incident = {1, 2}
    Account = {admin}
    Linkable = {alert, server, account_name}
    KindOf <- MCKindOf
    CaseRequest = {q1, q2}
    MaxCaseWork = 4
    None = None
    User = {admin, analyst}
    Token = {"t1", "t2", "t3"}
    Role = {"ORG_ADMIN", "SOC_MANAGER"}
    AuthRequest = {q1, q2}
    MaxAuthWork = 3
    MaxFailed = 2
    RateLimit = 2
    Null = Null
    SharedFeed = {"shared"}
    TenantFeed = {"own"}
    ByHand = "manual"
    IocRequest = {1, 2}
    MaxIntelWork = 3
    Nothing = "nothing"
    Technique = {T1, T1_001}
    ParentOf <- MCParentOf
    Tactic = {Discovery, Impact}
    Rule = {1}
    Bundle <- MCBundle
    Coverage = {q1, q2}
    MaxMitreWork = 5
    Malformed = Malformed
    NoParent = NoParent
    Established <- MCEstablished
    NoEvent = NoEvent
    Event = {e1, e2}
    Invalid = {e2}
    Attempt = {q1, q2}
    IngestLimit = 3
    MaxCalls = 4
    MaxBusFaults = 3
    Tree <- MCTree
    Waiver <- MCWaiver
    Document <- MCDocument
    MaxPathsWork = 3
    Tenant <- MCTenant
    StoredEvent = {1, 2, 3}
    EventDoc <- MCEventDoc
    Hunt = {1}
    Query <- MCQuery
    PivotValue <- MCPivotValue
    MappedField <- MCMappedField
    Limit = {0, 2, 3}
    Rows = {3}
    ExportRequest = {q1, q2}
    MAX_LIMIT = 2
    MAX_VALUE_LIMIT = 1
    EXPORT_LIMIT = 1
    TRACKED = 1
    MaxHuntWork = 2
    Subject <- MCSubject
    RiskRule <- MCRiskRule
    MaxRiskWork = 3
CHECK_DEADLOCK FALSE
INVARIANTS
    CaseTimelineIsTrue
    LinksAreOnTheTimeline
    LoginsAreSingleAlone
    AccountsAreCoherentAlone
    IntelligenceIsExplained
    CoverageIsTrueAlone
    OneCopyPerClaim
    ClaimMeansIngested
    AnswersAreTrue
    PathsAgree
    HuntsAreFaithful
    ScoresAreExplained
