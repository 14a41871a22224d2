CONSTANTS
  Threads = {a, b, c}
  Other = c
  OtherCore = 1
  NoThread = NoThread
  NumCores = 2
  Mask <- MCMask
  Pid <- MCPid
  SchedQuantum = 2
  MaxSleep = 2
  KeepFakeLeaves = 8
  Stalls = FALSE
  Mortal = {}
  BackToBack = FALSE
SPECIFICATION Spec
INVARIANTS NeverAborts ContextsExact RunnersHoldCores WaitersAreKept WorkConserving SleepersOrdered
PROPERTIES PhaseWaitsForRunners
SYMMETRY Symmetry
