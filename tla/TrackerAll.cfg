SPECIFICATION FairSpec
CONSTANTS
    t1 = t1
    t2 = t2
    Task = {t1, t2}
    Asked <- MCAsked
    Updater = {u1, u2}
    Reader = {r1}
    Torn = Torn
    None = None
INVARIANTS
    FileKeepsCompletions
    CompletionsAreSeen
PROPERTIES
    WritersProceed
