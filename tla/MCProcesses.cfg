SPECIFICATION Spec
CONSTANTS
  root = root
  a = a
  b = b
  Procs = {a, b}
  Root = root
  Parent <- ChainParent
  Slots = {t0, t1, t2, t3}
  RootSlot = t0
  Workers = {w1, w2}
  Syscalls <- ChainCalls
  Threaded = {b}
  MaxThreads = 1
  NoProc = none
INVARIANTS
  NoThreadOutlives
  NoOrphanAlive
PROPERTIES
  ExitIsFinal
SYMMETRY Symmetry
CHECK_DEADLOCK FALSE
