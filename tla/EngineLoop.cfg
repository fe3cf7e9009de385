SPECIFICATION AgentsEndSpec
CONSTANTS
    t1 = t1
    t2 = t2
    Task = {t1, t2}
    Allowed = {t1, t2}
    Agent = {a1, a2}
    Primary = a1
    Fallbacks <- MCFallbacks
    UserAgents = {a2}
    Strategies = {"skip", "retry"}
    MaxRetries = 1
    RateLimitRetries = 1
    RecoverPrimary = TRUE
    MaxIterations = 1
    MaxIterationsCap = 2
    MaxCleanups = 2
    Forced = {NoTask, t1}
    Outcomes <- AllOutcomes
    Limitable = {a1, a2}
    Undetected = {a2}
    TrackerMayFail = FALSE
    MayThrow = TRUE
    Calls = {"stop", "pause", "add", "remove"}
    NoTask = NoTask
    NoAgent = NoAgent
    a1 = a1
    a2 = a2
    a3 = a3
INVARIANTS
    PausedIsQuiet
PROPERTIES
    SkippedNeverStarted
    StopEndsLoop
    LoopEnds
