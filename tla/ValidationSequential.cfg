\* One client that waits for each answer, on MySQL, spelling the address in two ways; one outcome is refused.
CONSTANTS
    e1 = e1
    i1 = i1
    i2 = i2
    Requests = {r1, r2, r3, r4}
    Emails = {e1}
    Inputs = {i1, i2}
    Normalise <- TwoSpellings
    Outcomes = {o1, o3}
    Malformed = {o3}
    Backend = "mysql"
    Ttls = {2}
    Faults = {"db", "provider"}
    MaxTime = 3
    MaxLag = 1
    MaxInFlight = 1
    None = None
SPECIFICATION Spec
SYMMETRY SpellingSymmetry
\* the bounded set of requests runs out
CHECK_DEADLOCK FALSE
INVARIANTS
    NoRepeatedRevision
PROPERTIES
    AnswersAreLatest
    ReusedForTtl
