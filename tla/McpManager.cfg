CONSTANTS
    Calls = {c1, c2, c3}
    NULL = NULL
    MaxTokens = 2
    MaxGenerations = 2
SPECIFICATION McpFairSpec
CHECK_DEADLOCK FALSE
INVARIANTS
    McpTypeOK
    OneClient
    NoneForADeadOwner
    GrantOnItsConnection
PROPERTIES
    AnsweredByALiveClient
    ReloadReconnects
    CallsEnd
