SPECIFICATION FairSpec
CONSTANTS
    Comments = {c1, c2, c3, c4}
    Elsewhere = Elsewhere
    RecursionLimit = 3
INVARIANTS
    TypeOK
    DepthIsHops
    ForestAgrees
    FailsWhenDeep
PROPERTIES
    PassesEnd
