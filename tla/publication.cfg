SPECIFICATION PartSpec
CONSTANTS
    Callers = {"p", "q"}
    Snapshots = {1, 2}
    Invalid = {3}
    Foreign <- AllTrees
    MaxCommits = 6
    MaxForeign = 1
    MaxFaults = 2
    Names = {"a", "b", "c"}
    NodeFiles = {"n"}
    MaxVersion = 2
    MaxExportFaults = 2
INVARIANTS
    PublicationHonest
    SnapshotsWhole
PROPERTIES
    NoRegression
    ImplementsTarget
    RetryPublishes
    PublicationFollows
CHECK_DEADLOCK FALSE
