SPECIFICATION Spec
CONSTANTS
    Origins = {"a", "b", "old"}
    Patterns = {"narrow", "wide"}
    Covers <- NarrowAndWide
    Configured = {}
    Unparsable = {"old"}
    Seedable = {"a"}
    Policies = {"p"}
    MaxRepairs = 1
    VerifiedOrigins = {1}
    Times = {1, 2, 3}
    Results <- EightResults
    MaxRecords = 4
    LeaseDuration = 8
    JobTimeout = 3
    CompletionGrace = 1
    Skews <- FourSkews
    Late = 2
    Processes = {1, 2}
    States = {"running"}
    MaxClock = 6
INVARIANTS
    RulesAsWritten
    AnswersHandled
    PagesComplete
    ReadsExactly
    HistoryReadable
    SourcesConsistent
    BlocksFollowRules
    LeaseFitsWork
    HeartbeatReliable
PROPERTIES
    MatchesMeaning
    PurgeInvisible
CHECK_DEADLOCK FALSE
