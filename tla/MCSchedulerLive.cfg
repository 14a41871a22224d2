CONSTANTS
  Threads = {a, b, c}
  Other = c
  OtherCore = 0
  NoThread = NoThread
  NumCores = 1
  Mask <- MCMask
  Pid <- MCPid
  SchedQuantum = 2
  MaxSleep = 1
  KeepFakeLeaves = 8
  Stalls = FALSE
  Mortal = {}
  BackToBack = FALSE
SPECIFICATION FairSpec
PROPERTIES NoOvertaking EveryoneGetsACore SleepersWake
