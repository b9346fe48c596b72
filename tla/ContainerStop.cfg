SPECIFICATION Spec
CONSTANTS
    Folders = {f1, f2, f3}
    MergeAfterRun = {TRUE}
PROPERTIES
    StopReachesArchiver
