SPECIFICATION Spec
CONSTANTS
  Addr <- MCAddr
  Sizes = {1, 2}
  ManualSizes = {1}
  Hash <- MCHash
  MinCap = 2
  Room = 1
  Floor = 5
  Stress = FALSE
  MaxPin = 2
INVARIANTS TableIsTruth TableShape HeapIsBounded
PROPERTIES KeepsBlockMap
CHECK_DEADLOCK FALSE
