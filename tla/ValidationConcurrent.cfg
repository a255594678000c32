\* Overlapping requests for one address on SQLite, while time passes; everything can fail.
CONSTANTS
    e1 = e1
    i1 = i1
    i2 = i2
    Requests = {r1, r2, r3}
    Emails = {e1}
    Inputs = {i1}
    Normalise <- OneSpelling
    Outcomes = {o1, o2}
    Malformed = {}
    Backend = "sqlite"
    Ttls = {2}
    Faults = {"redis", "db", "commit", "provider", "crash"}
    MaxTime = 5
    MaxLag = 1
    MaxInFlight = 2
    None = None
SPECIFICATION Spec
SYMMETRY Symmetry
\* the bounded set of requests runs out
CHECK_DEADLOCK FALSE
INVARIANTS
    TypeOK
    RecordedIffNotCached
    CacheBackedByRow
PROPERTIES
    StepsBackOnlyByOverlap
    RepeatsNeedOverlap
    AnswersWithinTwoTtls
    ImplementsHistoryLog
