SPECIFICATION Spec
CONSTANTS
    t1 = t1
    Task = {t1}
    Allowed = {t1}
    Agent = {a1, a2, a3}
    Primary = a1
    Fallbacks <- MCFallbacks
    UserAgents = {a3}
    Strategies = {"skip"}
    MaxRetries = 1
    RateLimitRetries = 1
    RecoverPrimary = TRUE
    MaxIterations = 2
    MaxIterationsCap = 3
    MaxCleanups = 2
    Forced = {NoTask}
    Outcomes <- AllOutcomes
    Limitable = {a1, a2, a3}
    Undetected = {a2}
    TrackerMayFail = FALSE
    MayThrow = FALSE
    Calls = {"switch"}
    NoTask = NoTask
    NoAgent = NoAgent
    a1 = a1
    a2 = a2
    a3 = a3
INVARIANTS
    ActiveAgentIsTheAgent
