SPECIFICATION FairSpec
CONSTANTS
    Socket = {1, 2}
    Token = {1, 2, 3, 4}
    NoSocket = 0
    NoToken = 0
    Request = {"request"}
    MaxRetries = 2
    MaxFaults = 3
INVARIANTS
    ConnectionInOrder
    EndsAgree
PROPERTIES
    GivesUpOnlyAfterFaults
    ImplementsLifecycle
CHECK_DEADLOCK FALSE
