SPECIFICATION Spec
CONSTANTS
    Workers = {1}
    Records = {"p1", "p2", "p3", "p4", "p5", "c1", "c2", "c3"}
    Backends = {"arctic_shift", "pullpush"}
    Subreddit <- OneSubreddit
    Stream <- MCStream
    Created <- MCCreated
    Parent <- MCParent
    Served <- MCServed
    Late = {"c1"}
    PageSizes <- AdaptivePages
    ShortPageEnds = {"pullpush"}
    Kept = {"p1", "p2", "p3", "p4", "c1", "c2", "c3"}
    FetchKinds = {"posts", "comments"}
    MaxWorkers = 1
    Unreadable = {}
    Runs <- SameWindowTwice
INVARIANTS
    TypeOK
    CompleteMeansArchived
    FinishedRunArchived
PROPERTIES
    CheckpointMovesOn
    KeepsPromise
