SPECIFICATION FairSpec
CONSTANTS
    Pages <- FourPages
    Root = 0
    Sites <- ManySites
    MaxDepth = 2
    MaxPages = 3
    RedirectLimit = 2
INVARIANTS
    PagesAccounted
    CompleteMeansAll
    TransientKept
PROPERTIES
    Terminates
CHECK_DEADLOCK FALSE
