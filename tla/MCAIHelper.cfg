CONSTANTS
    Requests = {r1, r2, r3}
    Models = {aliyun, mcp}
    McpModels = {mcp}
    DefaultModel = aliyun
    UnknownModel = unknown
    MaxOverlaps = 1
SPECIFICATION Spec
SYMMETRY RequestSymmetry
INVARIANTS
    TypeOK
    PublishedOnceInOrder
    SerialChats
    RequestIntegrity
CHECK_DEADLOCK FALSE
