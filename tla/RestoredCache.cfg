\* Two requests, restores and backups, a result from elsewhere, each backend.
CONSTANTS
    Requests = {r1, r2}
    Elsewhere = {x1}
    Id <- SharedId
    Backends = {"sqlite", "postgres", "mysql"}
    Ttls = {1, 2}
    MaxTime = 3
    MaxLag = 1
    None = None
SPECIFICATION Spec
INVARIANTS
    OrphansExpire
PROPERTIES
    HitsAreStored
CHECK_DEADLOCK FALSE
