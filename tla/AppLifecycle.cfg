SPECIFICATION FairSpec
CONSTANTS
  s1 = s1
  s2 = s2
  p1 = p1
  p2 = p2
  r1 = r1
  r2 = r2
  FiberApp = FiberApp
  NoServer = NoServer
  Starters = {s1, s2}
  Stoppers = {p1, p2}
  Closers = {p2}
  Requests = {r1}
  Expiring = {s1, p1}
  Frameworks = {"handler", "fiber"}
INVARIANTS
  ShutdownFindsServer
  PoolOutlivesRequests
  NilMeansStopped
PROPERTIES
  CallsEnd
CHECK_DEADLOCK FALSE
