SPECIFICATION PolicySpec
CONSTANTS
    o1 = o1
    o2 = o2
    Origins = {o1, o2}
    Patterns <- TwoPatterns
    Covers <- CoversBoth
    Configured = {}
    Unparsable = {}
    Seedable = {}
    Policies = {p1, p2}
    MaxRepairs = 0
INVARIANTS
    BlocksFollowRules
CHECK_DEADLOCK FALSE
