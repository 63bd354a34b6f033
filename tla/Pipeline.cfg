SPECIFICATION Spec
CONSTANTS
  Setups <- AllSetups
  Errors = {"notFound", "methodNA", "typed", "plain"}
  nil = nil
INVARIANTS
  AnsweredOnce
  SessionFirst
  Bookkeeping
CHECK_DEADLOCK FALSE
