SPECIFICATION Spec
CHECK_DEADLOCK FALSE
CONSTANTS
  Callers = {main}
  Main = main
  MaxRuns = 1
  LoopCounts <- SomeLimits
  Timeouts <- SomeLimits
  Clients = {"handsOver"}
INVARIANT DeletedIsUnused
