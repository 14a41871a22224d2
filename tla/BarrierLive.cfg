SPECIFICATION FairSpec
CONSTANTS
  t1 = t1
  t2 = t2
  t3 = t3
  Tids = {t1, t2, t3}
  NoTid = NoTid
  MaxThreads = 3
  ParallelThreads = 1
  CleanupPeriod = 2
  Garbage = {0, 2}
  Kills = FALSE
INVARIANTS
  RejoinFindsItsSlot
  JoinNeverEndsPhase
PROPERTIES
  ImplementsPhaseBarrier
  EveryWaiterRuns
