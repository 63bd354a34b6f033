SPECIFICATION FairSpec
CONSTANTS
  none = none
  Callers = {c1, c2, c3}
  MaxGrants = 3
INVARIANTS
  OneLiveToken
  FreshHeader
PROPERTIES
  CallersReturn
CHECK_DEADLOCK FALSE
