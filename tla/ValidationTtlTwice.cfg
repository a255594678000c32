\* A database hit re-arms the Redis lifetime of a row that is almost a TTL old.
CONSTANTS
    e1 = e1
    i1 = i1
    i2 = i2
    Requests = {r1, r2, r3}
    Emails = {e1}
    Inputs = {i1}
    Normalise <- OneSpelling
    Outcomes = {o1}
    Malformed = {}
    Backend = "sqlite"
    Ttls = {2}
    Faults = {"redis"}
    MaxTime = 4
    MaxLag = 0
    MaxInFlight = 1
    None = None
SPECIFICATION Spec
SYMMETRY Symmetry
\* the bounded set of requests runs out
CHECK_DEADLOCK FALSE
PROPERTIES
    AnswersWithinTtl
