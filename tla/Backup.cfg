\* Two checks beside two backups or restores, on each database.
CONSTANTS
    Checks = {c1, c2}
    Jobs = {j1, j2}
    Backends = {"sqlite", "postgres", "mysql"}
    Uploads <- FromElsewhere
    MayFail = TRUE
    MaxSecond = 1
    None = None
SPECIFICATION Spec
SYMMETRY Symmetry
\* checks and jobs run out
CHECK_DEADLOCK FALSE
INVARIANTS
    TypeOK
    ArchivesAreConsistent
    CollidesOnlyAfterImport
    TornOnlyByRestore
    
PROPERTIES
    RemovedIsSaved
    RestoreIsExact
