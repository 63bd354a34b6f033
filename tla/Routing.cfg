\* A registration may panic, and the program ends there.
SPECIFICATION RoutingSpec
CONSTANTS
  Adapters = {"gin", "fiber", "chi", "nethttp"}
  Globals <- MCGlobals
  Middleware = {"a"}
  Segments = {"users", "api", "health", "new", "edit", "7", "{id}"}
  GroupPrefixes <- MCPrefixes
  Direct <- MCDirect
  Resources <- MCResources
  Served <- MCServed
  MaxGroups = 3
  MaxDirect = 1
INVARIANTS MiddlewareOnce RightHandler
CHECK_DEADLOCK FALSE
