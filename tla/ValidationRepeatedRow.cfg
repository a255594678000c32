\* Two overlapping first checks of an address on PostgreSQL.
CONSTANTS
    e1 = e1
    i1 = i1
    i2 = i2
    Requests = {r1, r2}
    Emails = {e1}
    Inputs = {i1}
    Normalise <- OneSpelling
    Outcomes = {o1}
    Malformed = {}
    Backend = "postgres"
    Ttls = {1}
    Faults = {}
    MaxTime = 0
    MaxLag = 1
    MaxInFlight = 2
    None = None
SPECIFICATION Spec
SYMMETRY Symmetry
\* the bounded set of requests runs out
CHECK_DEADLOCK FALSE
INVARIANTS
    NoRepeatedRevision
