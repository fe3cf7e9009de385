SPECIFICATION TabsFairSpec
CONSTANTS
    r1 = r1
    r2 = r2
    Alias = {r1, r2}
    Configured <- MCConfigured
    Local = local
    NoAlias = none
    RemoteOnly = FALSE
    MaxSaves = 2
    MaxFetches = 2
INVARIANTS
    TabsInOrder
    SelectedTabIsLive
PROPERTIES
    SelectionIsHonoured
CHECK_DEADLOCK FALSE
