SPECIFICATION FairSpec
CONSTANTS
    Prd = Prd
    Tasks = Tasks
    Engine = {Prd, Tasks}
    Other = {iteration}
    Exec = {Prd, Tasks, iteration}
    NoEngine = NoEngine
    Timeout = TRUE
INVARIANTS
    InterruptIsReported
    TimeoutIsReal
    ReplyShownOnce
    TimeoutCanBeAnswered
    BusyMeansWork
PROPERTIES
    WorkEnds
CHECK_DEADLOCK FALSE
