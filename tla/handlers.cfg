SPECIFICATION HandlersFairSpec
CHECK_DEADLOCK FALSE
CONSTANTS
  Handlers = {h1, h2, h3}
  Nobody = Nobody
  MaxEvents = 2
  Threading = {TRUE, FALSE}
INVARIANTS  NotCalledAfterRemove CancelReported
PROPERTIES RemovalCompletes
