SPECIFICATION Spec
CONSTANTS
  app = app
  lib = lib
  dev = dev
  App = App
  Lib = Lib
  Sources = {app, lib, dev}
  Local = {dev}
  Name <- MCName
  Version <- MCVersion
  Deps <- MCDeps
  MaxRev = 2
  MaxDepth = 3
  MaxCommands = 3
  MaxCrashes = 1
  None = None
INVARIANTS LockedImports NestingBounded
PROPERTIES LockIsClosed ImplementsStore CommandsEnd
CHECK_DEADLOCK FALSE
