SPECIFICATION FairSpec
CONSTANTS
  unset = unset
  c1 = c1
  c2 = c2
  Clients <- MCClients
  Setups <- MCSetups
  Asks = {1, unset}
  DefaultTimeOut = 3
  OwnTimeout = 2
  MaxRetries = 1
  MaxCalls <- MCMaxCalls
  MaxLive = 2
  Queries = 2
INVARIANTS
  RepeatedWithConsent
  ValueIsFinal
  ValueIsSuccess
  OwnRequest
PROPERTIES
  RetryRefreshesToken
  CallsReturn
CHECK_DEADLOCK FALSE
