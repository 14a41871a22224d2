SPECIFICATION Spec
CONSTANTS
  l3 = l3
  l2a = l2a
  l1d = l1d
  l1i = l1i
  l1b = l1b
  a1 = a1
  a2 = a2
  Caches <- TreeCaches
  Root = l3
  Parent <- TreeParent
  Addrs = {a1, a2}
  Lines <- TreeLines
  Proc <- TreeProc
  Virt <- TreeVirt
  NoExcl = {l1i}
  Switched = {l1d, l1i, l1b}
  MaxBusy = 2
  NoAddr = NoAddr
  NoThread = NoThread
  Mem = Mem
SYMMETRY Symmetry
INVARIANTS
  NeverPanics
  SingleWriter
  DirectoryExact
  CopiesFresh
  NoDeadlock
