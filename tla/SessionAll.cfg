SPECIFICATION Spec
CONSTANTS
    Proc = {p1, p2}
    Kinds = {"run", "runHeadless", "resume", "resumeHeadless"}
    Task = {t1, t2}
    NoTask = NoTask
    NoProc = NoProc
    MayCrash = {p1}
    MaxIterations = 1
    MaxPending = 2
    ResetsMayFail = TRUE
INVARIANTS
    SessionCanBeRecovered
    
    
PROPERTIES
    OnlyUnrecordedWorkIsRedone
CHECK_DEADLOCK FALSE
SYMMETRY TaskSymmetry
