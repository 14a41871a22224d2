CONSTANTS
  Threads = {a, c}
  Other = c
  OtherCore = 1
  NoThread = NoThread
  NumCores = 2
  Mask <- MCMask
  Pid <- MCPid
  SchedQuantum = 2
  MaxSleep = 1
  KeepFakeLeaves = 8
  Stalls = TRUE
  Mortal = {}
  BackToBack = FALSE
SPECIFICATION Spec
INVARIANT JoinAsserts
