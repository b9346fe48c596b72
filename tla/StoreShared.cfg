SPECIFICATION Spec
CONSTANTS
    Posts = {p1}
    Comments = {c1, c2}
    Plain = {c2}
    MaxClock = 2
    ReadErrors = {"filter"}
INVARIANTS
    TypeOK
    RecordsKept
    ExportIsOnDisk
PROPERTIES
    FetchedAtKept
    FlagsKept
