SPECIFICATION Spec
CONSTANTS
  Key <- MCKey
  Hash <- MCHash
  Odd = {2}
  First = 8
  Value = {1}
  Obj = {m1}
  MaxLen = 3
INVARIANTS IndexOfIsPosition
