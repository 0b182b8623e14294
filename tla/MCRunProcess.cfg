SPECIFICATION FairSpec
CONSTANTS
  OwnStatus = {0, 134}
  MaxCaptured = 3
  BufSize = 2
  PipeSize = 2
INVARIANTS NobodyIsLeft OutputIsComplete
PROPERTIES CallReturns ImplementsCall
CHECK_DEADLOCK FALSE
