SPECIFICATION Spec
CONSTANTS
    Proc = {p1, p2, p3}
    Resume = {p3}
    RunResume = {p2}
    Forced = {p3}
    Interactive = {p1}
    MayCrash = {p1, p2, p3}
    MayTerm = {p1}
    MayFailIO = {p2}
    DeadPid = dead
    NoPid = nopid
    StaleAtStart = TRUE
INVARIANTS
    ProtectedHolderOwnsFile
PROPERTIES
    SeenOwnerKeepsItsLock
CHECK_DEADLOCK FALSE
