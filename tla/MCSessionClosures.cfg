SPECIFICATION Spec
CONSTANTS
    Hosts = {h1, h2}
    Topics <- ClosureTopics
    Crowded = {}
    Modules <- MCModules
    Paths <- MCPaths
    MaxDepth = 6
    MaxRequests = 3
INVARIANTS
    DeferredAtMostOnce
CHECK_DEADLOCK FALSE
