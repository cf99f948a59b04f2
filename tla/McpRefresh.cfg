CONSTANTS
    Calls = {c1, c2}
    NULL = NULL
    MaxTokens = 2
    MaxGenerations = 1
SPECIFICATION McpSpec
CHECK_DEADLOCK FALSE
PROPERTIES
    RefreshUsesTheCurrentToken
