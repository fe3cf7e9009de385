SPECIFICATION Spec
CONSTANTS
    Proc = {p1}
    Kinds = {"run"}
    Task = {t1, t2}
    NoTask = NoTask
    NoProc = NoProc
    MayCrash = {}
    MaxIterations = 1
    MaxPending = 2
    ResetsMayFail = FALSE
INVARIANTS
    DeletedOnlyWhenComplete
CHECK_DEADLOCK FALSE
