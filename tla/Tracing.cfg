CONSTANTS
  Confs <- MCConfs
  MaxSetups = 2

SPECIFICATION Spec

INVARIANTS
  SpanTree
  AuditedUser
  StatusesAgree
  LogsCollected
