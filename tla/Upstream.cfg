\* Two callers that overlap, one proxy, two attempts, one rotation.
CONSTANTS
    Callers = {c1, c2}
    Proxies = {p1}
    MaxRotations = 1
    Enabled = TRUE
    RefreshOnReject = TRUE
    MaxRetries = 2
    MaxConcurrent = 1
    None = None
SPECIFICATION FairSpec
INVARIANTS
    TypeOK
    FetchesCollapse
    
PROPERTIES
    GivesUpDirect
    CallsAreBounded
    EveryCallEnds
