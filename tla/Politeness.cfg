\* Four callers, two permits, starts three clock units apart.
CONSTANTS
    Callers = {c1, c2, c3, c4}
    MaxConcurrent = 2
    MinInterval = 3
    None = None
SPECIFICATION FairSpec
INVARIANTS
    PermitsConserved
PROPERTIES
    ImplementsGate
    CallersGetIn
