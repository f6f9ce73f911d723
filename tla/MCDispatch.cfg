CONSTANTS
    shop = shop
    blog = blog
    Origins = {shop, blog}
    Configs <- MCConfigs
    Star = Star
    None = None
    MaxChain = 3
    MaxRequests = 2
    users = users
    id = id
    Methods = {get, post}
    Paths <- MCPaths
    Patterns <- MCPatterns
    Targets = {a, b, c}
    Param = Param
    Blank = Blank
    NotFound = NotFound
    MaxRegistrations = 3
    StartedWith <- MCStartedWith
SPECIFICATION DispatchSpec
SYMMETRY Symmetry
INVARIANTS
    ChainOrder
    CrossOrigin
    KeptOpenIsDelimited
    RoutedAsDocumented
CHECK_DEADLOCK FALSE
