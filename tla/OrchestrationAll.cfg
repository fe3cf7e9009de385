SPECIFICATION FairSpec
CONSTANTS
    Client = {c1, c2}
    Orchestration = {1, 2}
    NoOne = NoOne
    NoId = 0
INVARIANTS
    StartsAreExclusive
    SessionIsItsExecution
PROPERTIES
    EndsWithItsClient
CHECK_DEADLOCK FALSE
