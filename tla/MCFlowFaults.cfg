SPECIFICATION Spec
CONSTANTS
  x = x
  p = p
  p2 = p2
  Local = {x}
  Ref = {p, p2}
  Bodies <- UnsafeBodies
INVARIANTS AcceptedRunsAreSafe
CHECK_DEADLOCK FALSE
