SPECIFICATION Spec
CONSTANTS
  Key <- MCKey
  Hash <- MCHash
  Odd = {}
  First = 2
  Value = {1, 2}
  Obj = {m1}
  MaxLen = 3
INVARIANTS IndexIsSound IndexOfIsPosition
PROPERTIES IsAccelerator
