SPECIFICATION Spec
CONSTANTS
  Elem <- MCElem
  Rank <- MCRank
  First = 2
  Obj = {c1}
  MaxLen = 5
INVARIANTS BufferHoldsItems SearchFinds
PROPERTIES SpaceIsReused IsPlainSequence
CHECK_DEADLOCK FALSE
