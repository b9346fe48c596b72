SPECIFICATION Spec
CONSTANTS
    Folders = {f1, f2, f3}
    MergeAfterRun = {TRUE, FALSE}
INVARIANTS
    TypeOK
PROPERTIES
    FailureStands
    MergedIsCurrent
