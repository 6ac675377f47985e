SPECIFICATION FairSpec
CONSTANTS
    NumSources = 2
    Runners = {r1, r2}
    Nobody = Nobody
    Seeds = {1}
    Verified = {}
    LeaseDuration = 2
    DiscoveryInterval = 1
    RetrySteps = 1
    RetryDelays <- OneRetry
    Policies <- Backpressure
    Crashing = {2}
    Failing = {2}
INVARIANTS
    RunsConsistent
    RenewedInTime
PROPERTIES
    ImplementsLease
    Recovers
