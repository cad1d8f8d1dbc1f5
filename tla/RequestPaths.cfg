SPECIFICATION MCSpec
CONSTANTS
    Conn = {c1, c2, c3}
    NoConn = NoConn
    NeedsTimer = {TRUE, FALSE}
    Request = {r1, r2}
    Upstream = {"anthropic", "mistral"}
    Burst = 1
    RouteList <- MCRouteList
    DefaultUrl = ""
    Recorder = {t1, t2, t3}
    Families <- MCFamilies
    Recording <- MCRecording
    MaxCalls = 2
    Caller = {e1}
    PolicySpec <- MCPolicySpec
    MaxList = 2
    Ask <- MCAsk
    Answers = {"list", "object", "status", "error"}
    Names <- MCNames
    Addresses <- MCAddresses
    Domains <- MCDomains
    Defaults <- MCDefaults
INVARIANTS Types OnlyCheckedIsSent AuditMatchesMetrics ActiveIsExact ScrapeIsFresh
           DecisionOfOneList EnginesDifferOnlyOnEmpty StricterThanRust
PROPERTIES EveryForwardEnds StartFailureEndsProcess
