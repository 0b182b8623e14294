SPECIFICATION FairSpec
CONSTANTS
  x = x
  p = p
  p2 = p2
  Local = {x}
  Ref = {p, p2}
  Bodies <- MCBodies
INVARIANTS ReadsAreAssigned DereferencesAreChecked FallingOffIsSeen DeferredRunsAgree SolutionIsExact
PROPERTIES PassesEnd
CHECK_DEADLOCK FALSE
