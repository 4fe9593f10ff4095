SPECIFICATION MCSpec
CONSTANTS
  s1 = s1
  s2 = s2
  s3 = s3
  t1 = t1
  t2 = t2
  t3 = t3
  t4 = t4
  c1 = c1
  c2 = c2
  v1 = v1
  v2 = v2
  d1 = d1
  d2 = d2
  Null = Null
  DriveReaders = {s1, s2}
  Drives = {d1, d2}
  LineOf <- SharedLine
  MaxBlocks = 2
  CountValues = 2
  NoReader = Null
  BiosCallers = {s1, s2, s3}
  NoCaller = Null
  FbProcs = {s1, s2}
  FbModes = {1, 2}
  FbSizeOf <- ModeSizes
  FbPhysOf <- ModePages
  FbRegionSize = 1
  FbOffsets = {0, 1}
  FbNone = Null
  KbTyped = {42, 184, 30}
  RaltIsMod = TRUE
  KbBufLen = 1
  MouseBufLen = 2
  MouseBits = 2
  MouseMoves <- SomeMoves
  KbNoKey = Null
  Parent = t1
  Child = t2
  Worker = t3
  Handles = {c1, c2}
  Tokens = {v1}
  MaxFd = 2
  NoHandle = Null
  PerCache <- ObjectsPerCache
  Blocks = {1, 2, 3, 4}
  Initial = 1
  PerPage = 3
  FileWriters = {c1, c2}
  UnitsPerPage = 2
  FileRequests <- SomeRequests
  DiscSizes = {1, 2, 3}
  NoPage = Null
  Sleepers = {s1, s2}
  MaxDelay = 1
  MaxTasks = 2
  WordBits = 3
  nframes = 10
  kernel_pages = 4
  protector = 2
  Clients = {c1, c2}
  Sizes = {1, 2}
SYMMETRY Actors
INVARIANTS
  Exclusive
  FailsOnlyWhenFull
  ContainersExact
  HeapExact
  DevicesExact
  SleepExact
  HandlesExact
  ProgramsExact
PROPERTY ImplementsQueue
CHECK_DEADLOCK FALSE
