SPECIFICATION Spec
CONSTANTS
    Hosts = {h1, h2}
    Topics <- MCTopics
    Crowded = {"json", "frozen"}
    Modules <- MCModules
    Paths <- MCPaths
    MaxDepth = 6
    MaxRequests = 4
INVARIANTS
    TypeOK
    NoErrorIsBound
    DeferredRunOnce
    ModulesSettled
    EchoFaithful
    ModuleRunsOnce
    YieldsStayHome
    FinallyRuns
    PatternNamesStayLocal
PROPERTIES
    DeclaredTypesHold
    ConstKept
    FrozenKept
SYMMETRY HostSymmetry
CHECK_DEADLOCK FALSE
