SPECIFICATION Spec
CONSTANTS
    Lines <- MCLines
    MaxLines <- MCMaxLines
    Mistyped = {"mistyped"}
    Executed = {"compiled", "typed"}
    Modules <- MCModules
    Paths <- MCPaths
    MaxDepth = 6
INVARIANTS
    CodeIsVerified
    RoundTrip
    BrokenIsReported
    CheckerAgrees
PROPERTIES
    MachineAgrees
CHECK_DEADLOCK FALSE
