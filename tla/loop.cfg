SPECIFICATION FairSpec
CHECK_DEADLOCK FALSE
CONSTANTS
  Callers = {main, a, b}
  Main = main
  MaxRuns = 2
  LoopCounts <- SomeLimits
  Timeouts <- SomeLimits
  Clients = {"careful", "restarts", "handsOver"}
INVARIANTS OneLoopThread StopNotLost NoUseAfterFree
PROPERTIES StopCompletes DestroyCompletes
