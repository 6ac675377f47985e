SPECIFICATION PartSpec
CONSTANTS
    NumOrigins = 3
    Workers = {1}
    IDOf <- OneID
    NoOwner = "nobody"
    Crawlers = {"c"}
    Avoided = {}
    Seeded = {3}
    Automatic = {1}
    LeaseDuration = 2
    MinOriginInterval = 1
    RecheckAfter = 2
    RetrySteps = 2
    RetryDelays <- TwoDelays
    BackoffSteps = 1
    StaleRecheck = 3
    ReprobeSteps = 1
    ReprobeDelay <- TwoReprobes
    MaxPendingProbes = 2
    RequestTimes = {0, 2}
    Schedulable = {1}
    Blockable = {1}
    PauseStates = {TRUE, FALSE}
    Outcomes = {"valid", "miss", "denied", "transient", "terminal"}
    MaxTime = 2
    LastDiscovery = 0
    MaxClaims = 2
INVARIANTS
    FencedByGeneration
    ScheduleFollowsEvidence
    KnownOriginsStayQueued
PROPERTIES
    WorkIsKept
    AdmissionWithinCapacity
