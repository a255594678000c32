\* A check that Redis answers leaves no event.
CONSTANTS
    e1 = e1
    i1 = i1
    i2 = i2
    Requests = {r1, r2}
    Emails = {e1}
    Inputs = {i1}
    Normalise <- OneSpelling
    Outcomes = {o1}
    Malformed = {}
    Backend = "sqlite"
    Ttls = {2}
    Faults = {}
    MaxTime = 0
    MaxLag = 0
    MaxInFlight = 1
    None = None
SPECIFICATION Spec
SYMMETRY Symmetry
\* the bounded set of requests runs out
CHECK_DEADLOCK FALSE
INVARIANTS
    EveryCheckIsRecorded
