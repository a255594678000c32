\* Requests come to their end on SQLite, where writers wait for each other; the TTL changes.
CONSTANTS
    e1 = e1
    i1 = i1
    i2 = i2
    Requests = {r1, r2, r3}
    Emails = {e1}
    Inputs = {i1}
    Normalise <- OneSpelling
    Outcomes = {o1}
    Malformed = {}
    Backend = "sqlite"
    Ttls = {1, 2}
    Faults = {"db", "provider", "crash"}
    MaxTime = 0
    MaxLag = 1
    MaxInFlight = 3
    None = None
SPECIFICATION FairSpec
\* the bounded set of requests runs out
CHECK_DEADLOCK FALSE
PROPERTIES
    EveryRequestEnds
