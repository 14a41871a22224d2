SPECIFICATION Spec
CONSTANTS
  t1 = t1
  t2 = t2
  t3 = t3
  t4 = t4
  Tids = {t1, t2, t3, t4}
  NoTid = NoTid
  MaxThreads = 4
  ParallelThreads = 2
  CleanupPeriod = 2
  Garbage = {0}
  Kills = TRUE
SYMMETRY Symmetry
INVARIANTS
  CountsExact
  ParallelismBound
  RunListExact
  WorkConserving
  AssertsHold
  NoLostWakeup
CHECK_DEADLOCK FALSE
