SPECIFICATION Spec
CONSTANTS
    t1 = t1
    t2 = t2
    Task = {t1, t2}
    Allowed = {t1, t2}
    Agent = {a1, a2, a3}
    Primary = a1
    Fallbacks <- MCFallbacks
    UserAgents = {a3}
    Strategies = {"retry", "abort"}
    MaxRetries = 1
    RateLimitRetries = 1
    RecoverPrimary = TRUE
    MaxIterations = 2
    MaxIterationsCap = 3
    MaxCleanups = 1
    Forced = {NoTask, t1}
    Outcomes <- AllOutcomes
    Limitable = {a1, a3}
    Undetected = {a2}
    TrackerMayFail = TRUE
    MayThrow = TRUE
    Calls = {"switch", "interrupt"}
    NoTask = NoTask
    NoAgent = NoAgent
    a1 = a1
    a2 = a2
    a3 = a3
INVARIANTS
    LimitedAgentNotRun
    CompletionsMatchTracker
PROPERTIES
    CompletedStaysCompleted
