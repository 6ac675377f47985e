SPECIFICATION Spec
SYMMETRY WorkerSymmetry
CONSTANTS
    NumOrigins = 1
    Workers = {w1, w2}
    IDOf <- DistinctIDs
    NoOwner = NoOwner
    Crawlers = {c1}
    Avoided = {}
    Seeded = {}
    Automatic = {}
    LeaseDuration = 2
    MinOriginInterval = 1
    RecheckAfter = 2
    RetrySteps = 2
    RetryDelays <- ShortRetries
    BackoffSteps = 1
    StaleRecheck = 3
    ReprobeSteps = 1
    ReprobeDelay <- ShortReprobes
    MaxPendingProbes = 1
    RequestTimes = {0}
    Schedulable = {}
    Blockable = {}
    PauseStates = {}
    Outcomes = {"valid", "miss", "denied", "transient", "terminal"}
    MaxTime = 4
    LastDiscovery = 0
    MaxClaims = 3
INVARIANTS
    ValidTables
    Fenced
    ResultsInOrder
    LeasedWorkIsDue
