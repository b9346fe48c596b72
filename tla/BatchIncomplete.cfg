SPECIFICATION Spec
CONSTANTS
    Entries <- OneEntry
    Numeric = {"1", "2"}
    ResultsUrl = TRUE
    StatusUrl = TRUE
    BackendsFail = FALSE
    MaxSeconds = 2
    MaxLaunches = 1
INVARIANTS
    FlagMeansComplete
