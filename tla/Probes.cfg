SPECIFICATION FairSpec
CONSTANTS
    MaxCandidates = 3
    Timeout = 3
    MaxRedirects = 2
    DnsTimeout = 2
    ServiceHosts = 2
    ServiceTimeout = 8
    Retries = 1
    PathTimeout = 4
    MaxTTL = 2
    PathAttempts = 2
    ProxyEndpointNames = {"p1", "p2"}
    MaxChecks = 2
INVARIANT TimeIsShared
INVARIANT AnswersAreKept
INVARIANT DnsIsHonest
INVARIANT ProxyVerdictIsFounded
INVARIANT ProxyIsTheConfigured
INVARIANT EnterpriseIsFounded
PROPERTY ProbesEnd
CHECK_DEADLOCK FALSE
