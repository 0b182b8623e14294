SPECIFICATION FairSpec
CONSTANTS
  Suites <- MCSuites
  Worker = {w1, w2}
INVARIANTS PassIsEarned ExitIsTruth EachTestOnce
PROPERTIES RunEnds
CHECK_DEADLOCK FALSE
