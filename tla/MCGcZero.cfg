SPECIFICATION Spec
CONSTANTS
  Addr <- MCAddr
  Sizes = {0, 1}
  ManualSizes = {}
  Descs <- MCDescs
  Local = {r1}
  GlobalSlot = {}
  MaxPin = 0
  MaxReg = 0
  Garbage = {}
PROPERTIES HeldIsKept
CHECK_DEADLOCK FALSE
