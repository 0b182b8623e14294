SPECIFICATION FairSpec
CONSTANTS
  e = e
  p = p
  a = a
  b = b
  bad = bad
  gone = gone
  pre = pre
  File <- MCFile
  Main = e
  Prelude = pre
  Broken = bad
  Absent = gone
  Compiled <- MCCompiled
  Analysed <- MCAnalysed
  Thread = {t1, t2}
  None = none
INVARIANTS SameAsAlone EveryBodyOnce
PROPERTY LoadEnds
CHECK_DEADLOCK FALSE
