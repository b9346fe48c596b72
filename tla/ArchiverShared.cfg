SPECIFICATION FairSpec
CONSTANTS
    Workers = {1, 2, 3}
    Records = {"c1", "c2", "c3", "d1"}
    Backends = {"arctic_shift"}
    Subreddit <- DuplicateBesideAnother
    Stream <- MCStream
    Created <- MCCreated
    Parent <- MCParent
    Served <- MCServed
    Late = {}
    PageSizes <- PagesOfTwo
    ShortPageEnds = {}
    Kept = {"c1", "c2", "c3", "d1"}
    FetchKinds = {"comments"}
    MaxWorkers = 2
    Unreadable = {"a"}
    Runs <- RollingWindow
INVARIANTS
    CheckpointCovers
    DepthsMaterialized
PROPERTIES
    NothingLost
    RunEnds
