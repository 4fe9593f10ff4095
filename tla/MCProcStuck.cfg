SPECIFICATION FairSpec
CONSTANTS
  root = root
  a = a
  b = b
  Procs = {a}
  Root = root
  Parent <- OneParent
  Slots = {t0, t1}
  RootSlot = t0
  Workers = {w1, w2}
  Syscalls <- StuckCalls
  Threaded = {}
  MaxThreads = 1
  NoProc = none
PROPERTIES
  ExitCompletes
CHECK_DEADLOCK FALSE
