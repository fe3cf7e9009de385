SPECIFICATION FairSpec
CONSTANTS
    t1 = t1
    t2 = t2
    t3 = t3
    Task = {t1, t2, t3}
    Priority <- MCPriority
    Graphs <- MCGraphs
    MaxWorkers = 2
    MaxRequeueCount = 1
    Outcomes <- MCOutcomes
    MergeOutcomes = {"merged", "conflicted", "failed"}
    Resolutions = {"resolved", "refused"}
    MayFailSetup = TRUE
    Refusable = {t2}
    AiResolution <- MCAiResolution
    Calls = {"stop", "pause", "resume"}
    NoStatus = NoStatus
INVARIANTS
    DependenciesHonoured
    WorkersHaveTheirWorktree
    CompletedIsMerged
    AccountsAgree
    NoTaskLeftInProgress
PROPERTIES
    ExecutionEnds
    ImplementsTaskBoard
CHECK_DEADLOCK FALSE
