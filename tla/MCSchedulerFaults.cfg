CONSTANTS
  Threads = {a, c}
  Other = c
  OtherCore = 0
  NoThread = NoThread
  NumCores = 2
  Mask <- MCMask
  Pid <- MCPid
  SchedQuantum = 2
  MaxSleep = 1
  KeepFakeLeaves = 0
  Stalls = TRUE
  Mortal = {2}
  BackToBack = TRUE
SPECIFICATION Spec
INVARIANT ContextsExact
CHECK_DEADLOCK FALSE
