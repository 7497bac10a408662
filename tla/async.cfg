SPECIFICATION FairSpec
CHECK_DEADLOCK FALSE
CONSTANTS
  SyncIds = {"IdPrepare", "IdStop"}
  MaxInvokes = 3
  MaxCalls = 2
  CommandCap = 2
  PipeCap = 2
  Windows = {2, 3}
  Faults <- AllFaults
  MaxFaults = 2
INVARIANTS InferenceAccounted OwnOutputUnlessFailed 
PROPERTIES ImplementsService CallReturns EveryInferenceDelivered
