SPECIFICATION Spec
CHECK_DEADLOCK FALSE
CONSTANTS
  SyncIds = {"IdPrepare", "IdStop"}
  MaxInvokes = 3
  MaxCalls = 2
  CommandCap = 2
  PipeCap = 2
  Windows = {2, 3}
  Faults = {"invoke"}
  MaxFaults = 1
INVARIANT OwnOutput
