SPECIFICATION HandlersSpec
CONSTANTS
  r1 = r1
  r2 = r2
  NoError = NoError
  Panicked = Panicked
  NotClosed = NotClosed
  UpdateFailed = UpdateFailed
  Requests = {r1, r2}
  Id <- MCId
  ErrorStatus <- MCErrorStatus
  Confs <- MCConfs
  PreControl <- MCPreControl
  Dml <- MCDml
  FinalizeCmds <- MCFinalize
  MaxConns = 2
  Kinds = {"query"}
  Settings <- MCSettings
  Inputs <- MCInputs
  Format <- MCFormat
  MaxClock = 1
  RowCount <- MCRowCount
  CacheMaxAge = 0
INVARIANT
  CacheHonoursAge
CHECK_DEADLOCK FALSE
