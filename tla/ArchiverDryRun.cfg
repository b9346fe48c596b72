SPECIFICATION Spec
CONSTANTS
    Workers = {1}
    Records = {"p1", "p2", "p3", "p4"}
    Backends = {"arctic_shift"}
    Subreddit <- OneSubreddit
    Stream <- MCStream
    Created <- MCCreated
    Parent <- MCParent
    Served <- MCServed
    Late = {}
    PageSizes <- PagesOfTwo
    ShortPageEnds = {}
    Kept = {"p1", "p2", "p3", "p4"}
    FetchKinds = {"posts", "comments"}
    MaxWorkers = 1
    Unreadable = {}
    Runs <- DryRunThenFull
INVARIANTS
    FinishedRunArchived
