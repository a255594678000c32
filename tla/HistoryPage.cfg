\* Three rows of two addresses, pages of one or two rows.
CONSTANTS
    Emails = {1, 2}
    Searches = {0, 1}
    PageSizes = {1, 2}
    DefaultLimit = 1
    MaxPage = 2
    MaxRows = 3
    MaxRequests = 3
    Answers <- RawAnswers
    Spellings = {"plain", "Capital"}
    MaxRevisions = 2
    None = None
SPECIFICATION SpecOneAtATime
\* the requests of the page run out
CHECK_DEADLOCK FALSE
INVARIANTS
    TypeOK
    SettledPageIsAskedFor
    WalkShowsEverything
    PageFitsCounts
    HashAgreesWithDiff
