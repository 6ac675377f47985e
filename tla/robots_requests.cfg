SPECIFICATION PartSpec
CONSTANTS
    NumOrigins = 4
    Neighborhood <- Neighbors
    Callers = {g1, g2}
    Second = g2
    Calls = 3
    Minimum = 1
    Sites <- TwoSites
    MaxRedirects = 1
    Lifetime = 2
    Horizon = 2
    ScheduleCapacity = 2
    CacheCapacity = 1
INVARIANTS
    TablesConsistent
PROPERTIES
    SpacingKept
    CallsReturn
