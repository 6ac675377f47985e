SPECIFICATION PolicySpec
CONSTANTS
    o1 = o1
    o2 = o2
    Origins = {o1, o2}
    Patterns <- TwoPatterns
    Covers <- CoversBoth
    Configured = {}
    Unparsable = {}
    Seedable = {}
    Policies = {p1}
    MaxRepairs = 0
INVARIANTS
    AvoidedStayOut
CHECK_DEADLOCK FALSE
