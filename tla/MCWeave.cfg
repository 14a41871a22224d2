SPECIFICATION FairSpec
CONSTANTS
  t1 = t1
  t2 = t2
  NumCores = 2
  Domains = {1, 2}
  Threads = {t1, t2}
  Layouts <- Both
  HomeOf <- Homes
  PhaseLength = 2
  Latency = 2
  Contention = {0, 1}
  Delays = {1}
  MaxPhases = 2
  MaxAccesses = 2
  MaxEvents = 16
INVARIANTS
  NeverFails
  EveryEventIsDue
  NotLate
PROPERTY PhaseEnds
CONSTRAINT SecondPhaseAlone
CHECK_DEADLOCK FALSE
