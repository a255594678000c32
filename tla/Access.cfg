\* Two administration calls at a time, beside the script and restarts.
CONSTANTS
    Configs <- Cases
    Calls = {c1, c2}
    Ttls = {1, 2}
    DefaultTtl = 3
    MaxTokens = 2
    MayFail = TRUE
    None = None
    Limit = 2
    Window = 3
    MaxTime = 7
    MaxHits = 6
SPECIFICATION Spec
SYMMETRY Symmetry
CONSTRAINT OneAtATime
INVARIANTS
    TypeOK
    MemoryFollowsTable
    OnlyStoredTokensOpenTheApi
    NeverTwiceTheLimit
    RefusedOnlyWhenSpent
