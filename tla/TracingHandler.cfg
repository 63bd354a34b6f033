CONSTANTS
  Confs <- MCConfs
  MaxSetups = 2

SPECIFICATION Spec

INVARIANT
  HandlerTraced
