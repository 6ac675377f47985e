SPECIFICATION Spec
CONSTANTS
    NumOrigins = 1
    Workers = {w1}
    IDOf <- DistinctIDs
    NoOwner = NoOwner
    Crawlers = {c1}
    Avoided = {}
    Seeded = {}
    Automatic = {}
    LeaseDuration = 3
    MinOriginInterval = 2
    RecheckAfter = 2
    RetrySteps = 2
    RetryDelays <- ShortRetries
    BackoffSteps = 1
    StaleRecheck = 3
    ReprobeSteps = 1
    ReprobeDelay <- ShortReprobes
    MaxPendingProbes = 1
    RequestTimes = {0}
    Schedulable = {}
    Blockable = {}
    PauseStates = {}
    Outcomes = {"valid", "miss", "denied", "transient", "terminal"}
    MaxTime = 2
    LastDiscovery = 0
    MaxClaims = 2
PROPERTIES
    PoliteVisits
