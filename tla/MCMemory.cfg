SPECIFICATION MCSpec
CONSTANTS
  p1 = p1
  p2 = p2
  f1 = f1
  f2 = f2
  f3 = f3
  t1 = t1
  t2 = t2
  d1 = d1
  d2 = d2
  Null = Null
  Procs = {p1, p2}
  Frames = {f1, f2, f3}
  Slots <- MCSlots
  ShmSize = 1
  Offsets = {0, 1}
  NoProc = NoProc
  NoFrame = NoFrame
  NoRegion = NoRegion
  Shm = Shm
  PdThreads = {t1, t2}
  KernelPd = Null
  ProcessPds = {d1, d2}
  KernelTables = {1, 2}
  UserTable = 0
  TablePages = {1}
  TableFrames = {f1, f2, f3}
  NoTable = NoFrame
  AddrSpace = 8
  SizesAsked = {1, 2, 3}
  BigSize = 2
  BaseDescs = 5
  ReserveDescs = 2
  DescsPerPage = 2
  NoAddr = Null
SYMMETRY Symmetric
INVARIANTS FramesExact NoStaleMapping NoUnexpectedFault LockIsReturned RegionsExact
CHECK_DEADLOCK FALSE
