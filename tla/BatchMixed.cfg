SPECIFICATION FairSpec
CONSTANTS
    Entries <- MixedBatch
    Numeric = {"1", "2"}
    ResultsUrl = TRUE
    StatusUrl = TRUE
    BackendsFail = TRUE
    MaxSeconds = 2
    MaxLaunches = 2
INVARIANTS
    TypeOK
    FlagIsLast
    ExitCodeTrue
    VerdictTrue
    ReportsAreBacked
    EveryEntryReported
PROPERTIES
    FolderIsNew
    BatchEnds
