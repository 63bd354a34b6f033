SPECIFICATION LiveSpec
CONSTANTS
  j1 = j1
  j2 = j2
  w1 = w1
  s1 = s1
  s2 = s2
  NoJob = NoJob
  Free = Free
  Jobs = {j1, j2}
  Invalid = {}
  Propagates = {j1}
  MaxAttempts <- MCMaxAttempts
  Setups <- MCSetups
  Workers = {w1}
  Stoppers = {s1, s2}
  Expiring = {j1, s1}
  QueueSize = 1
INVARIANTS
  NoSendOnClosed
  DrainedOnNil
  Conservation
  RetryContract
PROPERTIES
  ServiceSafety
  ServiceLiveness
  CallsReturn
CHECK_DEADLOCK FALSE
