SPECIFICATION FairSpec
CONSTANTS
  Addr <- MCAddr
  Sizes = {1, 2}
  ManualSizes = {1}
  Descs <- MCWord
  Local = {r1}
  GlobalSlot = {g1}
  MaxPin = 1
  MaxReg = 1
  Garbage = {}
INVARIANTS PinnedIsLive MarkInvariant
PROPERTIES CollectionEnds KeepsPromise KeepsReachable TakesGarbage
CHECK_DEADLOCK FALSE
